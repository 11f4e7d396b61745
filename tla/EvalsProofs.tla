----------------------------- MODULE EvalsProofs -----------------------------
(* Proofs about Evals, for any tasks, datasets, environments, cases and     *)
(* servers: the verdicts of a benchmark job, the regression cases and what  *)
(* a suite's scores say, and the registry, the import and the cohort that   *)
(* the commands around Kitaru keep.                                         *)
EXTENDS Evals, FiniteSetTheorems, SequenceTheorems, TLAPS

-----------------------------------------------------------------------------
(* The benchmark job *)

\* What an agent may leave in its Workspace, and what may be handed back of it.
Left(p) == {p, TestEdits, OldReward}
Handed(p) == (SUBSET Left(p)) \union {NoBranch}

Early == {"waiting", "seeding", "launching"}
Reasons == {"none", "seed", "run", "summary", "clone", "verifier"}
Late == {"collecting", "verifying", "recorded"}

\* A record of trial p; the version of its tests may be any.
IsTrialOf(p, t) == t \in
    [step : Early \union {"running", "interrupted"} \union Late,
     child : {"none", "working", "handing", "reporting", "gone"},
     pushed : Handed(p), reported : Handed(p), graded : Handed(p),
     summary : {"absent", "written", "unreadable"}, late : BOOLEAN, reason : Reasons,
     tests : {t.tests}, status : {"none", "agent_ok", "agent_fail", "infra_error"},
     ran : BOOLEAN, started : Int, finished : Int]

\* The verdicts alone are not inductive: a branch could still be handed back after it was
\* graded, and a trial be late before it ran.  The harness reads what the child left only
\* when the child is gone, and gives a status only when it records.
Good(p, t) ==
    /\ IsTrialOf(p, t)
    /\ t.step \in Early => t.child = "none" /\ ~t.late
    /\ t.step = "running" => ~t.late
    /\ t.step \in Late => t.child \in {"none", "gone"}
    /\ t.step # "recorded" => t.status = "none"
    /\ t.status = "agent_ok" => t.graded = t.pushed /\ t.graded \ {TestEdits, OldReward} = {p}
    /\ t.late /\ t.status = "infra_error" => t.reason \in {"clone", "verifier"} \/ t.summary = "unreadable"

BenchInv ==
    /\ DOMAIN trial \subseteq DOMAIN work
    /\ \A p \in DOMAIN trial : Good(p, trial[p]) /\ work[p] \subseteq Left(p)

\* A change of one trial leaves the others as they are.
LEMMA OneTrial ==
  ASSUME BenchInv, NEW p \in DOMAIN trial, NEW t, Becomes(p, t), UNCHANGED work, Good(p, t)
  PROVE  BenchInv'
<1>1. DOMAIN trial' = DOMAIN trial /\ trial'[p] = t
  BY DEF Becomes
<1>2. \A q \in DOMAIN trial : q # p => trial'[q] = trial[q]
  BY DEF Becomes
<1>3. QED
  BY <1>1, <1>2 DEF BenchInv, Good, IsTrialOf, Handed, Left

\* A child works in the Workspace of its own trial: the variable is pinned.
LEMMA OwnPlace == ASSUME NEW p PROVE Place(p) = p
  BY DEF Place, ChildEnv, EnvVars, Stripped, Pinned

\* The finally clause: a record that says how the trial ended.
LEMMA InfraKeeps ==
  ASSUME NEW p, NEW r, Good(p, r), NEW reason \in Reasons, r.child \in {"none", "gone"},
         ~r.late \/ reason \in {"clone", "verifier"} \/ r.summary = "unreadable"
  PROVE  Good(p, Infra(r, reason))
<1> DEFINE t == Infra(r, reason)
<1>1. IsTrialOf(p, r)
  BY DEF Good
<1>2. /\ t.step = "recorded" /\ t.status = "infra_error" /\ t.reason = reason
      /\ t.child = r.child /\ t.late = r.late /\ t.summary = r.summary /\ t.tests = r.tests
  BY <1>1, Zenon DEF IsTrialOf, Infra, Recorded
<1>3. 2 \in Int /\ "recorded" \in Late /\ "recorded" \notin Early
  BY DEF Late, Early
<1>4. IsTrialOf(p, t)
  BY <1>1, <1>2, <1>3, Zenon DEF IsTrialOf, Infra, Recorded
<1>5. SUFFICES Good(p, t)
  OBVIOUS
<1> HIDE DEF t
<1>6. QED
  BY <1>2, <1>3, <1>4 DEF Good

LEMMA StartKeeps == ASSUME BenchInv, NEW p \in DOMAIN trial, Start(p) PROVE BenchInv'
<1> DEFINE r == trial[p]  t == [r EXCEPT !.step = "seeding", !.started = 1]
<1>1. Good(p, r) /\ IsTrialOf(p, r)
  BY DEF BenchInv, Good
<1>2. Becomes(p, t) /\ UNCHANGED work /\ r.step = "waiting"
  BY DEF Start, Harness
<1>3. /\ t.step = "seeding" /\ t.child = r.child /\ t.late = r.late /\ t.status = r.status
      /\ t.tests = r.tests
  BY <1>1, Zenon DEF IsTrialOf
<1>4. 1 \in Int /\ {"seeding", "waiting"} \subseteq Early /\ Early \intersect Late = {}
  BY DEF Early, Late
<1>5. IsTrialOf(p, t)
  BY <1>1, <1>3, <1>4, Zenon DEF IsTrialOf
<1> HIDE DEF t
<1>6. Good(p, t)
  BY <1>1, <1>2, <1>3, <1>4, <1>5 DEF Good, Early, Late
<1>7. QED
  BY <1>2, <1>6, OneTrial

LEMMA SeedKeeps ==
  ASSUME BenchInv, NEW p \in DOMAIN trial, NEW seed \in Recipes, SeedRepo(p, seed)
  PROVE  BenchInv'
<1> DEFINE r == trial[p]  t == [r EXCEPT !.step = "launching"]
<1>1. Good(p, r) /\ IsTrialOf(p, r) /\ r.step = "seeding" /\ UNCHANGED work
  BY DEF BenchInv, Good, SeedRepo, Harness
<1>2. Becomes(p, t) \/ Becomes(p, Infra(r, "seed"))
  BY DEF SeedRepo
<1>3. Good(p, t)
  BY <1>1 DEF Good, IsTrialOf, Early, Late
<1>4. Good(p, Infra(r, "seed"))
  <2>1. r.child = "none" /\ ~r.late
    BY <1>1 DEF Good, Early
  <2>2. "seed" \in Reasons
    BY DEF Reasons
  <2>3. QED
    BY <1>1, <2>1, <2>2, InfraKeeps, Zenon
<1>5. QED
  BY <1>1, <1>2, <1>3, <1>4, OneTrial

LEMMA LaunchKeeps == ASSUME BenchInv, NEW p \in DOMAIN trial, Launch(p) PROVE BenchInv'
<1> DEFINE r == trial[p]
           t == [r EXCEPT !.step = "running", !.ran = TRUE, !.child = IF IsTrial THEN "working" ELSE "gone"]
<1>1. Good(p, r) /\ IsTrialOf(p, r) /\ r.step = "launching" /\ UNCHANGED work
  BY DEF BenchInv, Good, Launch, Harness
<1>2. Becomes(p, t) \/ Becomes(p, Infra(r, "run"))
  BY DEF Launch
<1>3. /\ t.step = "running" /\ t.child \in {"working", "gone"} /\ t.late = r.late /\ t.status = r.status
      /\ t.tests = r.tests
  BY <1>1, Zenon DEF IsTrialOf
<1>4. IsTrialOf(p, t)
  BY <1>1, <1>3, Zenon DEF IsTrialOf
<1> HIDE DEF t
<1>5. Good(p, t)
  BY <1>1, <1>3, <1>4 DEF Good, Early, Late
<1>6. Good(p, Infra(r, "run"))
  <2>1. r.child = "none" /\ ~r.late
    BY <1>1 DEF Good, Early
  <2>2. "run" \in Reasons
    BY DEF Reasons
  <2>3. QED
    BY <1>1, <2>1, <2>2, InfraKeeps, Zenon
<1>7. QED
  BY <1>1, <1>2, <1>5, <1>6, OneTrial

LEMMA WaitKeeps ==
  ASSUME BenchInv, NEW p \in DOMAIN trial, Returned(p) \/ Interrupt(p) \/ Kill(p)
  PROVE  BenchInv'
<1> DEFINE r == trial[p]
           t1 == [r EXCEPT !.step = "collecting"]
           t2 == [r EXCEPT !.step = "interrupted", !.late = TRUE]
           t3 == [r EXCEPT !.step = "collecting", !.child = "gone"]
<1>1. Good(p, r) /\ IsTrialOf(p, r) /\ UNCHANGED work
  BY DEF BenchInv, Good, Returned, Interrupt, Kill, Harness
<1>2. CASE Returned(p)
  <2>1. Becomes(p, t1) /\ r.child = "gone" /\ r.step \in {"running", "interrupted"}
    BY <1>2 DEF Returned
  <2>2. Good(p, t1)
    BY <1>1, <2>1 DEF Good, IsTrialOf, Early, Late
  <2>3. QED
    BY <1>1, <2>1, <2>2, OneTrial
<1>3. CASE Interrupt(p)
  <2>1. Becomes(p, t2) /\ r.step = "running"
    BY <1>3 DEF Interrupt
  <2>2. t2.step = "interrupted" /\ t2.status = r.status /\ t2.tests = r.tests
    BY <1>1, Zenon DEF IsTrialOf
  <2>3. IsTrialOf(p, t2)
    BY <1>1, <2>2, Zenon DEF IsTrialOf
  <2> HIDE DEF t2
  <2>4. Good(p, t2)
    BY <1>1, <2>1, <2>2, <2>3 DEF Good, Early, Late
  <2>5. QED
    BY <1>1, <2>1, <2>4, OneTrial
<1>4. CASE Kill(p)
  <2>1. Becomes(p, t3) /\ r.step = "interrupted"
    BY <1>4 DEF Kill
  <2>2. /\ t3.step = "collecting" /\ t3.child = "gone" /\ t3.status = r.status /\ t3.tests = r.tests
    BY <1>1, Zenon DEF IsTrialOf
  <2>3. "collecting" \in Late
    BY DEF Late
  <2>4. IsTrialOf(p, t3)
    BY <1>1, <2>2, <2>3, Zenon DEF IsTrialOf
  <2> HIDE DEF t3
  <2>5. Good(p, t3)
    BY <1>1, <2>1, <2>2, <2>4 DEF Good, Early, Late
  <2>6. QED
    BY <1>1, <2>1, <2>5, OneTrial
<1>5. QED
  BY <1>2, <1>3, <1>4

LEMMA CollectKeeps == ASSUME BenchInv, NEW p \in DOMAIN trial, Collect(p) PROVE BenchInv'
<1> DEFINE r == trial[p]  t == [r EXCEPT !.step = "verifying"]
<1>1. Good(p, r) /\ IsTrialOf(p, r) /\ r.step = "collecting" /\ UNCHANGED work
  BY DEF BenchInv, Good, Collect, Harness
<1>2. \/ Unattributable(r) /\ Becomes(p, Infra(r, "summary"))
      \/ Becomes(p, t)
  BY DEF Collect
<1>3. Good(p, t)
  BY <1>1 DEF Good, IsTrialOf, Early, Late
<1>4. Unattributable(r) => Good(p, Infra(r, "summary"))
  <2>1. r.child \in {"none", "gone"} /\ (Unattributable(r) => ~r.late \/ r.summary = "unreadable")
    BY <1>1 DEF Good, Late, Unattributable
  <2>2. "summary" \in Reasons
    BY DEF Reasons
  <2>3. QED
    BY <1>1, <2>1, <2>2, InfraKeeps, Zenon
<1>5. QED
  BY <1>1, <1>2, <1>3, <1>4, OneTrial

\* The Verifier gives a win only to a tree with work in it that is the agent's own.
LEMMA WinIsWork ==
  ASSUME NEW p, NEW tree \in Handed(p), tree # NoBranch,
         NEW reward \in Rewards(Overlaid(tree)), Classify(reward) = "agent_ok"
  PROVE  tree \ {TestEdits, OldReward} = {p}
<1>1. reward = "one"
  BY DEF Classify
<1>2. Overlaid(tree) # {}
  BY <1>1 DEF Rewards, Overlaid
<1>3. tree \subseteq {p, TestEdits, OldReward}
  BY DEF Handed, Left
<1>4. QED
  BY <1>2, <1>3 DEF Overlaid

LEMMA VerifyKeeps == ASSUME BenchInv, NEW p \in DOMAIN trial, Verify(p) PROVE BenchInv'
<1> DEFINE r == trial[p]  tree == CloneOf(r)
<1>1. Good(p, r) /\ IsTrialOf(p, r) /\ r.step = "verifying" /\ UNCHANGED work
  BY DEF BenchInv, Good, Verify, Harness
<1>2. r.child \in {"none", "gone"}
  BY <1>1 DEF Good, Late
<1>3. CASE Becomes(p, Infra(r, "clone"))
  <2>1. "clone" \in Reasons
    BY DEF Reasons
  <2>2. Good(p, Infra(r, "clone"))
    BY <1>1, <1>2, <2>1, InfraKeeps, Zenon
  <2>3. QED
    BY <1>1, <1>3, <2>2, OneTrial
<1>4. ASSUME tree # NoBranch, NEW status \in {Classify(reward) : reward \in Rewards(Overlaid(tree))},
             Becomes(p, Recorded([r EXCEPT !.graded = tree, !.tests = disk[TaskOf(p)],
                                           !.reason = IF status = "infra_error" THEN "verifier" ELSE "none"], status))
      PROVE  BenchInv'
  <2> DEFINE reason == IF status = "infra_error" THEN "verifier" ELSE "none"
             t == Recorded([r EXCEPT !.graded = tree, !.tests = disk[TaskOf(p)], !.reason = reason], status)
  <2>1. tree \in Handed(p) /\ (tree = r.pushed \/ tree = {})
    BY <1>1 DEF CloneOf, Base, IsTrialOf, Handed
  <2>2. status \in {"agent_ok", "agent_fail", "infra_error"} /\ reason \in Reasons
    <3>1. PICK reward : status = Classify(reward)
      BY <1>4
    <3>2. QED
      BY <3>1 DEF Classify, Reasons
  <2>3. status = "agent_ok" => tree \ {TestEdits, OldReward} = {p}
    BY <1>4, <2>1, WinIsWork
  <2>4. status = "agent_ok" => tree = r.pushed
    BY <2>1, <2>3
  <2>5. 2 \in Int /\ "recorded" \in Late
    BY DEF Late
  <2> HIDE DEF tree, reason
  <2>6. /\ t.step = "recorded" /\ t.status = status /\ t.graded = tree /\ t.pushed = r.pushed
        /\ t.child = r.child /\ t.late = r.late /\ t.reason = reason /\ t.tests = disk[TaskOf(p)]
    BY <1>1, Zenon DEF IsTrialOf, Recorded
  <2>7. IsTrialOf(p, t)
    BY <1>1, <2>1, <2>2, <2>5, <2>6, Zenon DEF IsTrialOf, Recorded
  <2>8. Becomes(p, t)
    BY <1>4 DEF reason, tree
  <2> HIDE DEF t
  <2>9. Good(p, t)
    BY <1>2, <2>2, <2>3, <2>4, <2>6, <2>7 DEF Good, Early, Late, reason
  <2>10. QED
    BY <1>1, <2>8, <2>9, OneTrial
<1>5. QED
  BY <1>3, <1>4 DEF Verify

\* A child that is alive is one whose trial is running or was interrupted.
LEMMA ChildRuns ==
  ASSUME NEW p, NEW r, Good(p, r), r.child \in {"working", "handing", "reporting"}
  PROVE  r.step \in {"running", "interrupted"} /\ r.status = "none"
  BY DEF Good, IsTrialOf, Early, Late

\* What such a trial's record is after a step of the child.
LEMMA ChildStep ==
  ASSUME NEW p, NEW r, Good(p, r), r.child \in {"working", "handing", "reporting"},
         NEW t, IsTrialOf(p, t), t.step = r.step, t.late = r.late, t.status = r.status
  PROVE  Good(p, t)
  BY ChildRuns DEF Good, Early, Late

LEMMA AgentKeeps ==
  ASSUME BenchInv, NEW p \in DOMAIN trial, NEW files \in {{}, {p}, {TestEdits, OldReward}}, AgentEnds(p, files)
  PROVE  BenchInv'
<1> DEFINE r == trial[p]  t == [r EXCEPT !.child = "handing"]
<1>1. Good(p, r) /\ IsTrialOf(p, r) /\ r.child = "working" /\ Becomes(p, t)
  BY DEF BenchInv, Good, AgentEnds
<1>2. /\ t.step = r.step /\ t.late = r.late /\ t.status = r.status /\ IsTrialOf(p, t)
  BY <1>1 DEF IsTrialOf
<1>3. Good(p, t)
  BY <1>1, <1>2, ChildStep
<1>4. work' = [work EXCEPT ![p] = @ \union files]
  BY OwnPlace DEF AgentEnds
<1>5. DOMAIN trial' = DOMAIN trial /\ trial'[p] = t /\ \A q \in DOMAIN trial : q # p => trial'[q] = trial[q]
  BY <1>1 DEF Becomes
<1>6. DOMAIN work' = DOMAIN work /\ \A q \in DOMAIN trial : work'[q] \subseteq Left(q)
  BY <1>4 DEF BenchInv, Left
<1>7. QED
  BY <1>3, <1>5, <1>6 DEF BenchInv, Good, IsTrialOf, Handed, Left

LEMMA HandsBackKeeps == ASSUME BenchInv, NEW p \in DOMAIN trial, HandsBack(p) PROVE BenchInv'
<1> DEFINE r == trial[p]
           files == work[p]
           t == [r EXCEPT !.child = "reporting"]
           u(pushed) == [t EXCEPT !.reported = files, !.pushed = pushed]
<1>1. Good(p, r) /\ IsTrialOf(p, r) /\ r.child = "handing" /\ UNCHANGED work
  BY DEF BenchInv, Good, HandsBack
<1>2. files \in Handed(p) /\ NoBranch \in Handed(p)
  BY DEF BenchInv, Handed
<1>3. Becomes(p, t) \/ \E pushed \in {files, NoBranch} : Becomes(p, u(pushed))
  BY OwnPlace DEF HandsBack
<1>4. Good(p, t)
  <2>1. t.step = r.step /\ t.late = r.late /\ t.status = r.status /\ IsTrialOf(p, t)
    BY <1>1 DEF IsTrialOf
  <2>2. QED
    BY <1>1, <2>1, ChildStep
<1>5. ASSUME NEW pushed \in {files, NoBranch}
      PROVE  Good(p, u(pushed))
  <2> DEFINE v == u(pushed)
  <2>1. pushed \in Handed(p)
    BY <1>2
  <2> HIDE DEF files
  <2>2. v.step = r.step /\ v.late = r.late /\ v.status = r.status /\ v.tests = r.tests
    BY <1>1, Zenon DEF IsTrialOf
  <2>3. IsTrialOf(p, v)
    BY <1>1, <1>2, <2>1, <2>2, Zenon DEF IsTrialOf
  <2> HIDE DEF v
  <2>4. Good(p, v)
    BY <1>1, <2>2, <2>3, ChildStep
  <2>5. QED
    BY <2>4 DEF v
<1> HIDE DEF t, u, files
<1>6. QED
  BY <1>1, <1>3, <1>4, <1>5, OneTrial

LEMMA LastStepKeeps ==
  ASSUME BenchInv, NEW p \in DOMAIN trial, Summarizes(p) \/ Dies(p)
  PROVE  BenchInv'
<1> DEFINE r == trial[p]
           t == [r EXCEPT !.child = "gone"]
           u(summary) == [r EXCEPT !.child = "gone", !.summary = summary]
<1>1. Good(p, r) /\ IsTrialOf(p, r) /\ r.child \in {"working", "handing", "reporting"} /\ UNCHANGED work
  BY DEF BenchInv, Good, Summarizes, Dies, Alive
<1>2. Becomes(p, t) \/ \E summary \in {"written", "unreadable"} : Becomes(p, u(summary))
  BY DEF Summarizes, Dies
<1>3. Good(p, t)
  <2>1. t.step = r.step /\ t.late = r.late /\ t.status = r.status /\ IsTrialOf(p, t)
    BY <1>1 DEF IsTrialOf
  <2>2. QED
    BY <1>1, <2>1, ChildStep
<1>4. ASSUME NEW summary \in {"written", "unreadable"}
      PROVE  Good(p, u(summary))
  <2> DEFINE v == u(summary)
  <2>1. v.step = r.step /\ v.late = r.late /\ v.status = r.status /\ v.tests = r.tests
    BY <1>1, Zenon DEF IsTrialOf
  <2>2. IsTrialOf(p, v)
    BY <1>1, <1>4, <2>1, Zenon DEF IsTrialOf
  <2> HIDE DEF v
  <2>3. Good(p, v)
    BY <1>1, <2>1, <2>2, ChildStep
  <2>4. QED
    BY <2>3 DEF v
<1> HIDE DEF t, u
<1>5. QED
  BY <1>1, <1>2, <1>3, <1>4, OneTrial

LEMMA EvaluateKeeps == ASSUME BenchInv, Evaluate PROVE BenchInv'
<1> DEFINE plan == SelectedItems \X (1 .. Trials)
<1>1. CASE UNCHANGED <<trial, work>>
  BY <1>1 DEF BenchInv, Good, IsTrialOf, Handed, Left
<1>2. CASE trial' = [p \in plan |-> NewTrial] /\ work' = [place \in plan \union {Shared} |-> Base]
  <2>1. \A p : Good(p, NewTrial)
    <3>1. NewTrial.tests \in {NewTrial.tests} /\ -1 \in Int
      OBVIOUS
    <3>2. ASSUME NEW p PROVE IsTrialOf(p, NewTrial)
      BY <3>1 DEF IsTrialOf, NewTrial, Handed, Early, Reasons, Unknown
    <3>3. QED
      BY <3>2 DEF Good, NewTrial, Early, Late
  <2> HIDE DEF plan
  <2>2. DOMAIN trial' = plan /\ DOMAIN work' = plan \union {Shared}
    BY <1>2
  <2>3. ASSUME NEW p \in plan PROVE Good(p, trial'[p]) /\ work'[p] = {}
    BY <1>2, <2>1 DEF Base
  <2>4. QED
    BY <2>2, <2>3 DEF BenchInv, Good, IsTrialOf, Handed, Left
<1>3. QED
  BY <1>1, <1>2 DEF Evaluate

LEMMA BenchStep == BenchInv /\ [BenchNext]_benchVars => BenchInv'
<1> SUFFICES ASSUME BenchInv, [BenchNext]_benchVars PROVE BenchInv'
  OBVIOUS
<1>1. CASE UNCHANGED <<trial, work>>
  BY <1>1 DEF BenchInv, Good, IsTrialOf, Handed, Left
<1>2. ASSUME NEW p \in DOMAIN trial, HarnessNext(p) PROVE BenchInv'
  BY <1>2, StartKeeps, SeedKeeps, LaunchKeeps, WaitKeeps, CollectKeeps, VerifyKeeps DEF HarnessNext
<1>3. ASSUME NEW p \in DOMAIN trial, ChildNext(p) PROVE BenchInv'
  BY <1>3, AgentKeeps, HandsBackKeeps, LastStepKeeps DEF ChildNext
<1>4. CASE Evaluate
  BY <1>4, EvaluateKeeps
<1>5. QED
  BY <1>1, <1>2, <1>3, <1>4 DEF BenchNext, benchVars, Edit, Sync, Summarize

\* Whatever the agents, their crashes and the wall clocks do: a win is the agent's own work
\* and a trial that was stopped is graded where it can be (trial.py:16-27).
THEOREM EvalsVerdicts == EvalsSpec => []VerdictIsFair
<1>1. EvalsInit => BenchInv
  BY DEF EvalsInit, BenchInit, BenchInv
<1>2. BenchInv /\ [EvalsNext]_evalsVars => BenchInv'
  BY BenchStep DEF EvalsNext, evalsVars, benchVars
<1>3. BenchInv => VerdictIsFair
  BY DEF BenchInv, Good, VerdictIsFair, GradeIsEarned, TimeoutIsGraded
<1>4. QED
  BY <1>1, <1>2, <1>3, PTL DEF EvalsSpec
-----------------------------------------------------------------------------
(* The regression cases *)

Phases == {"fixture", "asking", "answered", "ended"}
Parts == {"mode", "keys", "executor", "workspaces"}

\* While a case runs the process is whatever the case made of it, with one Workspace more.
CaseInv ==
    /\ "phase" \in DOMAIN turn /\ turn.phase \in Phases \union {"none"}
    /\ process = [x \in Parts |-> process[x]]
    /\ turn.phase = "none" => process = AtRest
    /\ turn.phase # "none" => process.workspaces = 1

\* A step of a case that runs, and that does not put the process back.
LEMMA CaseGoesOn ==
  ASSUME CaseInv, turn.phase # "none", "phase" \in DOMAIN turn', turn'.phase \in Phases,
         process' = process \/ process' = [process EXCEPT !.executor = "used"]
  PROVE  CaseInv'
<1>1. process' = [x \in Parts |-> process'[x]] /\ process'.workspaces = process.workspaces
  BY DEF CaseInv, Parts
<1>2. turn'.phase # "none"
  BY DEF Phases
<1>3. QED
  BY <1>1, <1>2 DEF CaseInv

LEMMA BeginKeeps == ASSUME CaseInv, Begin PROVE CaseInv'
<1>1. process = AtRest
  BY DEF CaseInv, Begin
<1>2. \E keys : process' = [mode |-> "none", keys |-> keys, executor |-> "none", workspaces |-> process.workspaces + 1]
  BY DEF Begin
<1>3. process.workspaces = 0
  BY <1>1 DEF AtRest
<1>4. process'.workspaces = 1 /\ process' = [x \in Parts |-> process'[x]]
  BY <1>2, <1>3 DEF Parts
<1>5. "phase" \in DOMAIN turn' /\ turn'.phase \in {"fixture", "ended"}
  BY Zenon DEF Begin, NoTurn
<1>6. QED
  BY <1>4, <1>5 DEF CaseInv, Phases

\* The steps of a case write no other phase than they name.
LEMMA AskedPhase ==
  ASSUME "phase" \in DOMAIN turn, NEW more, NEW phase
  PROVE  "phase" \in DOMAIN Asked(more, phase) /\ Asked(more, phase).phase = phase
  BY Zenon DEF Asked

LEMMA TurnKeeps ==
  ASSUME CaseInv, BuildFixture \/ CapStops \/ (\E reply \in Replies : Answers(reply) \/ Calls(reply)) \/ Breaks \/ WouldStop
  PROVE  CaseInv'
<1>1. "phase" \in DOMAIN turn
  BY DEF CaseInv
<1>2. CASE BuildFixture
  <2>1. turn.phase # "none" /\ process' = process
    BY <1>2 DEF BuildFixture, OnlyTurn
  <2>2. "phase" \in DOMAIN turn' /\ turn'.phase \in {"asking", "ended"}
    BY <1>1, <1>2, Zenon DEF BuildFixture
  <2>3. QED
    BY <2>1, <2>2, CaseGoesOn DEF Phases
<1>3. CASE CapStops \/ \E reply \in Replies : Answers(reply)
  <2>1. turn.phase # "none" /\ process' = process /\ \E more : turn' = Asked(more, "answered")
    BY <1>3 DEF CapStops, Answers, OnlyTurn
  <2>2. "phase" \in DOMAIN turn' /\ turn'.phase = "answered"
    BY <1>1, <2>1, AskedPhase, Zenon
  <2>3. QED
    BY <2>1, <2>2, CaseGoesOn DEF Phases
<1>4. ASSUME NEW reply \in Replies, Calls(reply) PROVE CaseInv'
  <2>1. turn.phase # "none"
    BY <1>4 DEF Calls
  <2>2. \/ \E more : turn' = Asked(more, "asking")
        \/ \E more, tree : turn' = [Asked(more, "asking") EXCEPT !.tree = tree]
        \/ \E more, tree : turn' = [Asked(more, "ended") EXCEPT !.tree = tree, !.error = TRUE]
    BY <1>4, Zenon DEF Calls
  <2>3. "phase" \in DOMAIN turn' /\ turn'.phase \in {"asking", "ended"}
    BY <1>1, <2>2, AskedPhase, Zenon
  <2>4. process' = process \/ process' = [process EXCEPT !.executor = "used"]
    <3>1. process' = process \/ process' = [process EXCEPT !.executor = IF reply.tool = "bash" THEN "used" ELSE process.executor]
      BY <1>4 DEF Calls
    <3>2. [process EXCEPT !.executor = process.executor] = process
      BY DEF CaseInv
    <3>3. QED
      BY <3>1, <3>2
  <2>5. QED
    BY <2>1, <2>3, <2>4, CaseGoesOn DEF Phases
<1>5. CASE Breaks \/ WouldStop
  <2>1. turn.phase # "none" /\ process' = process
    BY <1>5 DEF Breaks, WouldStop, OnlyTurn
  <2>2. "phase" \in DOMAIN turn' /\ turn'.phase = "ended"
    BY <1>1, <1>5, Zenon DEF Breaks, WouldStop
  <2>3. QED
    BY <2>1, <2>2, CaseGoesOn DEF Phases
<1>6. QED
  BY <1>2, <1>3, <1>4, <1>5

LEMMA EndKeeps == ASSUME CaseInv, End PROVE CaseInv'
<1>1. process' = Restored(process) /\ turn' = NoTurn /\ process.workspaces = 1
  BY DEF CaseInv, End
<1>2. process = [x \in Parts |-> process[x]]
  BY DEF CaseInv
<1>3. process' = AtRest
  <2>1. process' = [x \in Parts |-> process'[x]]
    BY <1>1, <1>2, Zenon DEF Restored
  <2>2. /\ process'.mode = "operator" /\ process'.keys = {} /\ process'.executor = "none"
        /\ process'.workspaces = process.workspaces - 1
    BY <1>1, <1>2, Zenon DEF Restored, Parts
  <2>3. process'.workspaces = 0
    BY <1>1, <2>2
  <2>4. QED
    BY <2>1, <2>2, <2>3 DEF AtRest, Parts
<1>4. QED
  BY <1>1, <1>3 DEF CaseInv, NoTurn, AtRest, Parts

\* However a case ends, by an answer, an error, a fixture that cannot be built or a setting
\* that is not known, the next one starts in the process as it was (regression.py:119-129).
THEOREM EvalsCasesApart == EvalsSpec => []CasesDontLeak
<1>1. EvalsInit => CaseInv
  BY DEF EvalsInit, RegInit, CaseInv, NoTurn, AtRest, Parts
<1>2. CaseInv /\ [EvalsNext]_evalsVars => CaseInv'
  <2> SUFFICES ASSUME CaseInv, [EvalsNext]_evalsVars PROVE CaseInv'
    OBVIOUS
  <2>1. CASE UNCHANGED <<process, turn>>
    BY <2>1 DEF CaseInv
  <2>2. CASE RegNext
    <3>1. CASE Run
      BY <3>1, <2>1, BeginKeeps, TurnKeeps, EndKeeps DEF Run, Finish, Exit, OnlyCommand
    <3>2. QED
      BY <2>1, <2>2, <3>1 DEF RegNext, EditCase, OtherSync, Give, OnlyCommand, Proceed, UpsertDataset, Select,
                              DeleteStale, InsertMissing, RunTests, ApiError
  <2>3. QED
    BY <2>1, <2>2 DEF EvalsNext, evalsVars, regVars
<1>3. CaseInv => CasesDontLeak
  BY DEF CaseInv, CasesDontLeak
<1>4. QED
  BY <1>1, <1>2, <1>3, PTL DEF EvalsSpec

-----------------------------------------------------------------------------
(* Sets in an order *)

Before(S, R, x) == {y \in S : <<y, x>> \in R}
Placed(S, R) == [i \in 1 .. Cardinality(S) |-> CHOOSE x \in S : Cardinality(Before(S, R, x)) = i - 1]

\* Of two members of an ordered finite set, fewer are before the one that comes before.
LEMMA FewerBefore ==
  ASSUME NEW S, IsFiniteSet(S), NEW R,
         \A x \in S : <<x, x>> \notin R,
         \A x, y, z \in S : <<x, y>> \in R /\ <<y, z>> \in R => <<x, z>> \in R,
         NEW x \in S, NEW y \in S, <<x, y>> \in R
  PROVE  Cardinality(Before(S, R, x)) < Cardinality(Before(S, R, y))
<1>1. Before(S, R, x) \subseteq Before(S, R, y) /\ Before(S, R, x) # Before(S, R, y)
  BY DEF Before
<1>2. IsFiniteSet(Before(S, R, x)) /\ IsFiniteSet(Before(S, R, y))
  BY FS_Subset DEF Before
<1>3. /\ Cardinality(Before(S, R, x)) \in Nat /\ Cardinality(Before(S, R, y)) \in Nat
      /\ Cardinality(Before(S, R, x)) <= Cardinality(Before(S, R, y))
      /\ Cardinality(Before(S, R, x)) # Cardinality(Before(S, R, y))
  BY <1>1, <1>2, FS_Subset, FS_CardinalityType
<1>4. QED
  BY <1>3

\* Each place of an ordered finite set is that of one member.
LEMMA PlacesOfOrder ==
  ASSUME NEW S, IsFiniteSet(S), NEW R,
         \A x \in S : <<x, x>> \notin R,
         \A x, y, z \in S : <<x, y>> \in R /\ <<y, z>> \in R => <<x, z>> \in R,
         \A x, y \in S : x # y => <<x, y>> \in R \/ <<y, x>> \in R
  PROVE  /\ \A i \in 1 .. Cardinality(S) : \E x \in S : Cardinality(Before(S, R, x)) = i - 1
         /\ \A x \in S : Cardinality(Before(S, R, x)) + 1 \in 1 .. Cardinality(S)
         /\ \A x, y \in S : Cardinality(Before(S, R, x)) = Cardinality(Before(S, R, y)) => x = y
<1> DEFINE n == Cardinality(S)
           place == [x \in S |-> Cardinality(Before(S, R, x)) + 1]
<1>1. \A x \in S : IsFiniteSet(Before(S, R, x)) /\ Cardinality(Before(S, R, x)) \in Nat
  BY FS_Subset, FS_CardinalityType DEF Before
<1>2. n \in Nat
  BY FS_CardinalityType
<1>3. ASSUME NEW x \in S PROVE Cardinality(Before(S, R, x)) < n
  <2>1. Before(S, R, x) \in SUBSET S /\ Before(S, R, x) # S
    BY DEF Before
  <2>2. Cardinality(Before(S, R, x)) <= n /\ Cardinality(Before(S, R, x)) # n
    BY <2>1, FS_Subset
  <2>3. QED
    BY <1>1, <1>2, <2>2
<1>4. ASSUME NEW x \in S, NEW y \in S, x # y
      PROVE  Cardinality(Before(S, R, x)) # Cardinality(Before(S, R, y))
  <2>1. CASE <<x, y>> \in R
    BY <1>1, <2>1, FewerBefore
  <2>2. CASE <<y, x>> \in R
    BY <1>1, <2>2, FewerBefore
  <2>3. QED
    BY <1>4, <2>1, <2>2
<1>5. \A x \in S : Cardinality(Before(S, R, x)) + 1 \in 1 .. n
  BY <1>1, <1>2, <1>3
<1>6. place \in [S -> 1 .. n]
  BY <1>5
<1>7. \A x, y \in S : place[x] = place[y] => x = y
  BY <1>1, <1>4
<1>8. place \in Injection(S, 1 .. n)
  BY <1>6, <1>7 DEF Injection, IsInjective
<1>9. IsFiniteSet(1 .. n) /\ Cardinality(1 .. n) = n
  BY <1>2, FS_Interval
<1>10. place \in Surjection(S, 1 .. n)
  BY <1>8, <1>9, FS_Injection
<1>11. \A i \in 1 .. n : \E x \in S : place[x] = i
  BY <1>10 DEF Surjection
<1>12. \A i \in 1 .. n : \E x \in S : Cardinality(Before(S, R, x)) = i - 1
  BY <1>1, <1>2, <1>11
<1>13. QED
  BY <1>4, <1>5, <1>12

LEMMA SameEnd == \A m, n \in Nat : 1 .. m = 1 .. n => m = n
<1> SUFFICES ASSUME NEW m \in Nat, NEW n \in Nat, 1 .. m = 1 .. n PROVE m = n
  OBVIOUS
<1>1. (m > 0 => m \in 1 .. n) /\ (n > 0 => n \in 1 .. m)
  OBVIOUS
<1>2. QED
  BY <1>1

\* A finite set taken in an order: each member once, and nothing else.
LEMMA OrderedSeq ==
  ASSUME NEW S, IsFiniteSet(S), NEW R,
         \A x \in S : <<x, x>> \notin R,
         \A x, y, z \in S : <<x, y>> \in R /\ <<y, z>> \in R => <<x, z>> \in R,
         \A x, y \in S : x # y => <<x, y>> \in R \/ <<y, x>> \in R
  PROVE  /\ Placed(S, R) \in Seq(S) /\ Len(Placed(S, R)) = Cardinality(S)
         /\ DOMAIN Placed(S, R) = 1 .. Cardinality(S)
         /\ ToSet(Placed(S, R)) = S
         /\ IsInjective(Placed(S, R))
<1> DEFINE n == Cardinality(S)
           s == Placed(S, R)
<1>1. n \in Nat
  BY FS_CardinalityType
<1>2. /\ \A i \in 1 .. n : \E x \in S : Cardinality(Before(S, R, x)) = i - 1
      /\ \A x \in S : Cardinality(Before(S, R, x)) + 1 \in 1 .. n
      /\ \A x, y \in S : Cardinality(Before(S, R, x)) = Cardinality(Before(S, R, y)) => x = y
  BY PlacesOfOrder, Zenon
<1>3. ASSUME NEW i \in 1 .. n
      PROVE  s[i] \in S /\ Cardinality(Before(S, R, s[i])) = i - 1
  <2>1. s[i] = CHOOSE x \in S : Cardinality(Before(S, R, x)) = i - 1
    BY DEF Placed
  <2>2. QED
    BY <1>2, <2>1
<1>4. s \in [1 .. n -> S] /\ DOMAIN s = 1 .. n
  BY <1>3 DEF Placed
<1> HIDE DEF s
<1>5. s \in Seq(S) /\ Len(s) = n
  <2>1. s \in UNION {[1 .. m -> S] : m \in Nat}
    BY <1>1, <1>4, Zenon
  <2>2. s \in Seq(S)
    BY <2>1, SeqDef, Zenon
  <2>3. DOMAIN s = 1 .. Len(s) /\ Len(s) \in Nat
    BY <2>2, LenProperties, Zenon
  <2>4. Len(s) = n
    BY <1>1, <1>4, <2>3, SameEnd, Zenon
  <2>5. QED
    BY <2>2, <2>4
<1>6. \A i, j \in 1 .. n : s[i] = s[j] => i = j
  <2>1. ASSUME NEW i \in 1 .. n, NEW j \in 1 .. n, s[i] = s[j] PROVE i = j
    <3>1. i - 1 = j - 1
      BY <1>3, <2>1
    <3>2. QED
      BY <1>1, <3>1
  <2>2. QED
    BY <2>1
<1>7. ASSUME NEW x \in S PROVE \E i \in 1 .. n : s[i] = x
  <2>1. PICK i \in 1 .. n : i = Cardinality(Before(S, R, x)) + 1
    BY <1>2
  <2>2. Cardinality(Before(S, R, x)) \in Nat
    BY FS_Subset, FS_CardinalityType DEF Before
  <2>3. Cardinality(Before(S, R, s[i])) = Cardinality(Before(S, R, x)) /\ s[i] \in S
    BY <1>3, <2>1, <2>2
  <2>4. QED
    BY <1>2, <2>3
<1>8. ToSet(s) = S
  BY <1>3, <1>4, <1>7 DEF ToSet
<1>9. QED
  BY <1>4, <1>5, <1>6, <1>8 DEF IsInjective, s

\* The turns of a thread by their clock: each trace once.
LEMMA TurnsInOrder ==
  ASSUME NEW T \in SUBSET Trace, IsFiniteSet(T), \A t, u \in T : t.id = u.id => t = u
  PROVE  /\ InOrder(T) \in Seq(T) /\ Len(InOrder(T)) = Cardinality(T)
         /\ DOMAIN InOrder(T) = 1 .. Cardinality(T)
         /\ ToSet(InOrder(T)) = T
<1> DEFINE R == {p \in T \X T : Earlier(p[1], p[2])}
<1>1. \A t \in T : t.start \in Nat /\ t.id \in Nat
  BY DEF Trace
<1>2. \A t, u \in T : <<t, u>> \in R <=> Earlier(t, u)
  OBVIOUS
<1>3. /\ \A t \in T : ~Earlier(t, t)
      /\ \A t, u, v \in T : Earlier(t, u) /\ Earlier(u, v) => Earlier(t, v)
      /\ \A t, u \in T : t # u => Earlier(t, u) \/ Earlier(u, t)
  BY <1>1 DEF Earlier
<1>4. \A t \in T : {u \in T : Earlier(u, t)} = Before(T, R, t)
  BY <1>2 DEF Before
<1> HIDE DEF R
<1>5. \A i : (CHOOSE t \in T : Cardinality({u \in T : Earlier(u, t)}) = i - 1)
           = CHOOSE t \in T : Cardinality(Before(T, R, t)) = i - 1
  <2> SUFFICES ASSUME NEW i
               PROVE  (CHOOSE t \in T : Cardinality({u \in T : Earlier(u, t)}) = i - 1)
                    = CHOOSE t \in T : Cardinality(Before(T, R, t)) = i - 1
    OBVIOUS
  <2>1. \A t : t \in T /\ Cardinality({u \in T : Earlier(u, t)}) = i - 1
                 <=> t \in T /\ Cardinality(Before(T, R, t)) = i - 1
    BY <1>4
  <2>2. QED
    BY <2>1, Zenon
<1>6. InOrder(T) = [i \in 1 .. Cardinality(T) |-> CHOOSE t \in T : Cardinality({u \in T : Earlier(u, t)}) = i - 1]
  BY DEF InOrder, Ranked
<1>7. InOrder(T) = Placed(T, R)
  BY <1>5, <1>6, Zenon DEF Placed
<1>8. /\ \A t \in T : <<t, t>> \notin R
      /\ \A t, u, v \in T : <<t, u>> \in R /\ <<u, v>> \in R => <<t, v>> \in R
      /\ \A t, u \in T : t # u => <<t, u>> \in R \/ <<u, t>> \in R
  BY <1>2, <1>3, Zenon
<1>9. QED
  BY <1>7, <1>8, OrderedSeq

\* The threads of an import, by their keys.
LEMMA KeysInOrder ==
  ASSUME NEW T \in SUBSET Int, IsFiniteSet(T)
  PROVE  /\ Ranked(T, <) \in Seq(T) /\ Len(Ranked(T, <)) = Cardinality(T)
         /\ DOMAIN Ranked(T, <) = 1 .. Cardinality(T)
         /\ ToSet(Ranked(T, <)) = T
         /\ IsInjective(Ranked(T, <))
<1> DEFINE R == {p \in T \X T : p[1] < p[2]}
<1>2. \A t, u \in T : <<t, u>> \in R <=> t < u
  OBVIOUS
<1>3. /\ \A t \in T : ~(t < t)
      /\ \A t, u, v \in T : t < u /\ u < v => t < v
      /\ \A t, u \in T : t # u => t < u \/ u < t
  OBVIOUS
<1>4. \A t \in T : {u \in T : u < t} = Before(T, R, t)
  BY <1>2 DEF Before
<1> HIDE DEF R
<1>5. \A i : (CHOOSE t \in T : Cardinality({u \in T : u < t}) = i - 1)
           = CHOOSE t \in T : Cardinality(Before(T, R, t)) = i - 1
  <2> SUFFICES ASSUME NEW i
               PROVE  (CHOOSE t \in T : Cardinality({u \in T : u < t}) = i - 1)
                    = CHOOSE t \in T : Cardinality(Before(T, R, t)) = i - 1
    OBVIOUS
  <2>1. \A t : t \in T /\ Cardinality({u \in T : u < t}) = i - 1
                 <=> t \in T /\ Cardinality(Before(T, R, t)) = i - 1
    BY <1>4
  <2>2. QED
    BY <2>1, Zenon
<1>6. Ranked(T, <) = [i \in 1 .. Cardinality(T) |-> CHOOSE t \in T : Cardinality({u \in T : u < t}) = i - 1]
  BY DEF Ranked
<1>7. Ranked(T, <) = Placed(T, R)
  BY <1>5, <1>6, Zenon DEF Placed
<1>8. /\ \A t \in T : <<t, t>> \notin R
      /\ \A t, u, v \in T : <<t, u>> \in R /\ <<u, v>> \in R => <<t, v>> \in R
      /\ \A t, u \in T : t # u => <<t, u>> \in R \/ <<u, t>> \in R
  BY <1>2, <1>3, Zenon
<1>9. /\ Placed(T, R) \in Seq(T) /\ Len(Placed(T, R)) = Cardinality(T)
      /\ DOMAIN Placed(T, R) = 1 .. Cardinality(T)
      /\ ToSet(Placed(T, R)) = T
      /\ IsInjective(Placed(T, R))
  BY <1>8, OrderedSeq
<1>10. QED
  BY <1>7, <1>9, Zenon

\* SetToSeq of a finite set holds each member once.
LEMMA SeqOfSet ==
  ASSUME NEW S, IsFiniteSet(S)
  PROVE  /\ SetToSeq(S) \in Seq(S) /\ Len(SetToSeq(S)) = Cardinality(S)
         /\ ToSet(SetToSeq(S)) = S
         /\ IsInjective(SetToSeq(S))
<1> DEFINE n == Cardinality(S)
<1>1. n \in Nat /\ ExistsBijection(1 .. n, S)
  BY FS_CardinalityType
<1>2. PICK g : g \in Bijection(1 .. n, S)
  BY <1>1 DEF ExistsBijection
<1>3. g \in [1 .. n -> S] /\ IsInjective(g)
  BY <1>2 DEF Bijection, Injection
<1> DEFINE s == SetToSeq(S)
<1>4. s \in [1 .. n -> S] /\ IsInjective(s)
  BY <1>3, Zenon DEF SetToSeq
<1> HIDE DEF s
<1>5. s \in Seq(S)
  <2>1. s \in UNION {[1 .. m -> S] : m \in Nat}
    BY <1>1, <1>4, Zenon
  <2>2. QED
    BY <2>1, SeqDef, Zenon
<1>6. DOMAIN s = 1 .. Len(s) /\ Len(s) \in Nat /\ DOMAIN s = 1 .. n
  BY <1>4, <1>5, LenProperties, Zenon
<1>7. Len(s) = n
  BY <1>1, <1>6, SameEnd, Zenon
<1>8. s \in Injection(1 .. n, S)
  BY <1>4, Zenon DEF Injection
<1>9. IsFiniteSet(1 .. n) /\ Cardinality(1 .. n) = n
  BY <1>1, FS_Interval
<1>10. s \in Surjection(1 .. n, S)
  BY <1>8, <1>9, FS_Injection
<1>11. \A x \in S : \E i \in 1 .. n : s[i] = x
  BY <1>10 DEF Surjection
<1>12. ToSet(s) = S
  BY <1>4, <1>11 DEF ToSet
<1>13. QED
  BY <1>4, <1>5, <1>7, <1>12 DEF s

-----------------------------------------------------------------------------
(* The command at hand *)

Fields == {"command", "pc", "left", "dry", "wait", "traces", "threads", "collected", "known", "outcomes",
           "trials", "add", "report", "given"}
\* Where each command may be.
Course(given) ==
    CASE given = "none" -> {"idle"}
      [] given = "bootstrap" -> {"get", "list", "create", "register", "unread", "done"}
      [] given = "import" -> {"resolve", "collect", "sessions", "thread", "waiting", "done"}
      [] given = "cohort" -> {"sessions", "cohort", "members", "version", "done"}
      [] given = "mine" -> {"done"}

ClientInv ==
    /\ DOMAIN client = Fields
    /\ client.command \in {"none", "bootstrap", "import", "cohort", "mine"}
    /\ client.pc \in Course(client.command)

\* A step of the command at hand that leaves all but the fields fs of the client as they were.
Keeps(fs) == DOMAIN client' = Fields /\ \A f \in Fields \ fs : client'[f] = client[f]

LEMMA IdleIs ==
  /\ DOMAIN Idle = Fields /\ Idle.command = "none" /\ Idle.pc = "idle" /\ Idle.left = <<>> /\ Idle.outcomes = <<>>
  /\ Idle.report = <<>>
  BY DEF Idle, Fields

LEMMA GoesIs ==
  ASSUME DOMAIN client = Fields, NEW pc, Goes(pc)
  PROVE  Keeps({"pc"}) /\ client'.pc = pc
  BY DEF Goes, Keeps, Fields

LEMMA FailsIs ==
  ASSUME Fails
  PROVE  DOMAIN client' = Fields /\ client'.command = "none" /\ client'.pc = "idle"
  BY IdleIs DEF Fails, Fields

LEMMA GivenIs ==
  ASSUME NEW given, NEW pc
  PROVE  /\ DOMAIN Given(given, pc) = Fields
         /\ Given(given, pc).command = given /\ Given(given, pc).pc = pc
         /\ Given(given, pc).outcomes = <<>>
  BY IdleIs DEF Given, Fields

LEMMA NextKindIs ==
  ASSUME DOMAIN client = Fields, NextKind
  PROVE  /\ Keeps({"pc", "left"}) /\ client'.left = Tail(client.left)
         /\ client'.pc = IF Len(client.left) = 1 THEN "done" ELSE "get"
  BY DEF NextKind, Keeps, Fields

LEMMA SaysIs ==
  ASSUME DOMAIN client = Fields, NEW key, NEW status, Says(key, status)
  PROVE  /\ Keeps({"pc", "left", "outcomes"}) /\ client'.left = Tail(client.left)
         /\ client'.pc = IF Len(client.left) = 1 THEN "done" ELSE "thread"
         /\ client'.outcomes = [k \in DOMAIN client.outcomes \union {key} |->
                                   IF k = key THEN status ELSE client.outcomes[k]]
  BY DEF Says, Keeps, Fields

LEMMA SaysOfHead ==
  ASSUME DOMAIN client = Fields, NEW status, Says(Head(client.left), status)
  PROVE  /\ Keeps({"pc", "left", "outcomes"}) /\ client'.left = Tail(client.left)
         /\ client'.pc = IF Len(client.left) = 1 THEN "done" ELSE "thread"
         /\ client'.outcomes = [k \in DOMAIN client.outcomes \union {Head(client.left)} |->
                                   IF k = Head(client.left) THEN status ELSE client.outcomes[k]]
<1> PICK k0 : k0 = Head(client.left)
  OBVIOUS
<1>1. Says(k0, status)
  OBVIOUS
<1> QED
  BY <1>1, SaysIs

\* A command that is given, or none, starts with nothing of the one before.
LEMMA BlankIs ==
  /\ Idle.threads = {} /\ Idle.traces = {} /\ DOMAIN Idle.collected = {} /\ Idle.known = 0 /\ DOMAIN Idle.outcomes = {}
  /\ Idle.trials = {} /\ Idle.add = {} /\ DOMAIN Idle.report = {} /\ Idle.collected = <<>> /\ Idle.wait = FALSE
BY DEF Idle

LEMMA GivenRest ==
  ASSUME NEW given, NEW pc
  PROVE  \A f \in Fields \ {"command", "pc", "given"} : Given(given, pc)[f] = Idle[f]
BY IdleIs DEF Given, Fields

LEMMA FailsRest == Fails => \A f \in Fields \ {"given"} : client'[f] = Idle[f]
BY IdleIs DEF Fails, Fields
\* A step of an import or a freeze stays with its command, or ends it.
LEMMA CommandKept ==
  ASSUME DOMAIN client = Fields,
         Resolve \/ CollectThreads \/ ListSessions \/ SkipThread \/ FileThread \/ Settled \/ ResolveSessions
            \/ EnsureCohort \/ ReadMembers \/ CreateVersion
  PROVE  client'.command \in {"none", client.command}
<1>1. ASSUME Fails PROVE client'.command = "none"
  BY <1>1, FailsIs
<1>2. ASSUME NEW fs \in SUBSET (Fields \ {"command"}), Keeps(fs) PROVE client'.command = client.command
  BY <1>2 DEF Keeps, Fields
<1>3. ASSUME NEW pc, Goes(pc) PROVE client'.command = client.command
  BY <1>2, <1>3, GoesIs DEF Fields
<1>4. ASSUME NEW key, NEW status, Says(key, status) PROVE client'.command = client.command
  BY <1>2, <1>4, SaysIs DEF Fields
<1>5. CASE CollectThreads
  <2>1. Fails \/ \E all, pc : client' = [client EXCEPT !.collected = all, !.pc = pc]
    BY <1>5, Zenon DEF CollectThreads
  <2>2. ASSUME NEW all, NEW pc, client' = [client EXCEPT !.collected = all, !.pc = pc]
        PROVE  client'.command = client.command
    BY <2>2 DEF Fields
  <2>3. QED
    BY <1>1, <2>1, <2>2
<1>6. CASE ListSessions
  <2>1. Fails \/ \E known, left : client' = [client EXCEPT !.known = known, !.pc = "thread", !.left = left]
    BY <1>6, Zenon DEF ListSessions
  <2>2. ASSUME NEW known, NEW left, client' = [client EXCEPT !.known = known, !.pc = "thread", !.left = left]
        PROVE  client'.command = client.command
    BY <2>2 DEF Fields
  <2>3. QED
    BY <1>1, <2>1, <2>2
<1>7. CASE ResolveSessions \/ ReadMembers
  <2>1. Fails \/ \E more, pc : client' = [client EXCEPT !.add = more, !.pc = pc]
    BY <1>7, Zenon DEF ResolveSessions, ReadMembers
  <2>2. ASSUME NEW more, NEW pc, client' = [client EXCEPT !.add = more, !.pc = pc]
        PROVE  client'.command = client.command
    BY <2>2 DEF Fields
  <2>3. QED
    BY <1>1, <2>1, <2>2
<1>8. CASE Resolve
  BY <1>1, <1>3, <1>8 DEF Resolve
<1>9. CASE SkipThread \/ FileThread \/ Settled
  BY <1>1, <1>3, <1>4, <1>9 DEF SkipThread, FileThread, Settled
<1>10. CASE EnsureCohort \/ CreateVersion
  BY <1>1, <1>3, <1>10 DEF EnsureCohort, CreateVersion
<1>11. QED
  BY <1>5, <1>6, <1>7, <1>8, <1>9, <1>10

LEMMA ClientStep == ClientInv /\ [KitaruNext]_kitaruVars => ClientInv'
<1> SUFFICES ASSUME ClientInv, [KitaruNext]_kitaruVars PROVE ClientInv'
  OBVIOUS
<1>1. DOMAIN client = Fields /\ client.pc \in Course(client.command)
      /\ client.command \in {"none", "bootstrap", "import", "cohort", "mine"}
  BY DEF ClientInv
<1>2. CASE UNCHANGED client
  BY <1>2 DEF ClientInv, Course
<1>3. ASSUME Fails PROVE ClientInv'
  BY <1>3, FailsIs DEF ClientInv, Course
<1>4. ASSUME NEW fs \in SUBSET (Fields \ {"command"}), Keeps(fs), client'.pc \in Course(client.command)
      PROVE  ClientInv'
  <2>1. client'.command = client.command /\ DOMAIN client' = Fields
    BY <1>4 DEF Keeps, Fields
  <2>2. QED
    BY <1>1, <1>4, <2>1 DEF ClientInv
<1>5. ASSUME NEW pc, Goes(pc), pc \in Course(client.command) PROVE ClientInv'
  BY <1>1, <1>4, <1>5, GoesIs DEF Fields
<1>6. ASSUME NextKind, client.command = "bootstrap" PROVE ClientInv'
  <2>1. client'.pc \in Course(client.command)
    BY <1>1, <1>6, NextKindIs DEF Course
  <2>2. QED
    BY <1>1, <1>4, <1>6, <2>1, NextKindIs DEF Fields
<1>7. ASSUME NEW key, NEW status, Says(key, status), client.command = "import" PROVE ClientInv'
  <2>1. client'.pc \in Course(client.command)
    BY <1>1, <1>7, SaysIs DEF Course
  <2>2. QED
    BY <1>1, <1>4, <1>7, <2>1, SaysIs DEF Fields
<1>8. ASSUME NEW dry \in BOOLEAN, Bootstrap(dry) PROVE ClientInv'
  <2>1. DOMAIN client' = Fields /\ client'.command = "bootstrap" /\ client'.pc = "get"
    BY <1>8, GivenIs DEF Bootstrap, Fields
  <2>2. QED
    BY <2>1 DEF ClientInv, Course
<1>9. ASSUME NEW request \in Requests, Import(request) PROVE ClientInv'
  <2>1. DOMAIN client' = Fields /\ client'.command = "import" /\ client'.pc = "resolve"
    BY <1>9, GivenIs DEF Import, Fields
  <2>2. QED
    BY <2>1 DEF ClientInv, Course
<1>10. ASSUME NEW experiment \in Experiments, Freeze(experiment) PROVE ClientInv'
  <2>1. \/ DOMAIN client' = Fields /\ client'.command = "cohort" /\ client'.pc = "sessions"
        \/ DOMAIN client' = Fields /\ client'.command = "none" /\ client'.pc = "idle"
    BY <1>10, GivenIs, IdleIs DEF Freeze, Fields
  <2>2. QED
    BY <2>1 DEF ClientInv, Course
<1>11. ASSUME NEW presets, Mine(presets) PROVE ClientInv'
  <2>1. DOMAIN client' = Fields /\ client'.command = "mine" /\ client'.pc = "done"
    BY <1>11, GivenIs DEF Mine, Fields
  <2>2. QED
    BY <2>1 DEF ClientInv, Course
<1>12. CASE GetResource \/ ListVersions \/ Register
  <2>1. client.command = "bootstrap"
    BY <1>1, <1>12 DEF GetResource, ListVersions, Register, At, Course
  <2>2. {"create", "list", "register", "unread"} \subseteq Course(client.command)
    BY <2>1 DEF Course
  <2>3. QED
    BY <1>3, <1>5, <1>6, <1>12, <2>1, <2>2 DEF GetResource, ListVersions, Register
<1>13. CASE Resolve \/ CollectThreads
  <2>1. client.command = "import"
    BY <1>1, <1>13 DEF Resolve, CollectThreads, At, Course
  <2>2. CASE Resolve
    BY <1>3, <1>5, <2>1, <2>2 DEF Resolve, Course
  <2>3. CASE CollectThreads
    <3>1. \/ Fails
          \/ \E all : client' = [client EXCEPT !.collected = all, !.pc = IF DOMAIN all = {} THEN "done" ELSE "sessions"]
      BY <2>3, Zenon DEF CollectThreads
    <3>2. ASSUME NEW all, client' = [client EXCEPT !.collected = all, !.pc = IF DOMAIN all = {} THEN "done" ELSE "sessions"]
          PROVE  Keeps({"collected", "pc"}) /\ client'.pc \in {"done", "sessions"}
      BY <1>1, <3>2 DEF Keeps, Fields
    <3>3. QED
      BY <1>3, <1>4, <2>1, <3>1, <3>2 DEF Course, Fields
  <2>4. QED
    BY <1>13, <2>2, <2>3
<1>14. CASE ListSessions
  <2>1. \/ Fails
        \/ \E left : client' = [client EXCEPT !.known = Len(sessions), !.pc = "thread", !.left = left]
    BY <1>14, Zenon DEF ListSessions
  <2>2. ASSUME NEW left, client' = [client EXCEPT !.known = Len(sessions), !.pc = "thread", !.left = left]
        PROVE  Keeps({"known", "pc", "left"}) /\ client'.pc = "thread"
    BY <1>1, <2>2 DEF Keeps, Fields
  <2>3. client.command = "import"
    BY <1>14 DEF ListSessions
  <2>4. QED
    BY <1>3, <1>4, <2>1, <2>2, <2>3 DEF Course, Fields
<1>15. CASE SkipThread \/ FileThread \/ Settled
  <2>1. client.command = "import"
    BY <1>1, <1>15 DEF SkipThread, FileThread, Settled, At, Course
  <2>2. "waiting" \in Course(client.command)
    BY <2>1 DEF Course
  <2>3. QED
    BY <1>3, <1>5, <1>7, <1>15, <2>1, <2>2 DEF SkipThread, FileThread, Settled
<1>16. CASE ResolveSessions
  <2>1. \/ Fails
        \/ \E found : client' = [client EXCEPT !.add = found, !.pc = "cohort"]
    BY <1>16, Zenon DEF ResolveSessions
  <2>2. ASSUME NEW found, client' = [client EXCEPT !.add = found, !.pc = "cohort"]
        PROVE  Keeps({"add", "pc"}) /\ client'.pc = "cohort"
    BY <1>1, <2>2 DEF Keeps, Fields
  <2>3. client.command = "cohort"
    BY <1>16 DEF ResolveSessions
  <2>4. QED
    BY <1>3, <1>4, <2>1, <2>2, <2>3 DEF Course, Fields
<1>17. CASE EnsureCohort \/ CreateVersion
  <2>1. client.command = "cohort"
    BY <1>1, <1>17 DEF EnsureCohort, CreateVersion, At, Course
  <2>2. {"members", "done"} \subseteq Course(client.command)
    BY <2>1 DEF Course
  <2>3. QED
    BY <1>3, <1>5, <1>17, <2>2 DEF EnsureCohort, CreateVersion
<1>18. CASE ReadMembers
  <2>1. \/ Fails
        \/ \E more : client' = [client EXCEPT !.add = more, !.pc = IF more = {} THEN "done" ELSE "version"]
    BY <1>18, Zenon DEF ReadMembers
  <2>2. ASSUME NEW more, client' = [client EXCEPT !.add = more, !.pc = IF more = {} THEN "done" ELSE "version"]
        PROVE  Keeps({"add", "pc"}) /\ client'.pc \in {"done", "version"}
    BY <1>1, <2>2 DEF Keeps, Fields
  <2>3. client.command = "cohort"
    BY <1>1, <1>18 DEF ReadMembers, At, Course
  <2>4. QED
    BY <1>3, <1>4, <2>1, <2>2, <2>3 DEF Course, Fields
<1>19. CASE Reported
  BY <1>3, <1>19 DEF Reported
<1>20. CASE Steps
  BY <1>12, <1>13, <1>14, <1>15, <1>16, <1>17, <1>18, <1>19, <1>20 DEF Steps
<1>21. CASE (\E k \in Edited : EditScript(k)) \/ (\E trace \in Growth : Grow(trace)) \/ (\E j \in DOMAIN jobs : Work(j))
  BY <1>2, <1>21 DEF EditScript, Grow, Work
<1>22. QED
  BY <1>2, <1>8, <1>9, <1>10, <1>11, <1>20, <1>21 DEF KitaruNext, kitaruVars

-----------------------------------------------------------------------------
(* What is registered *)

KindSet == ToSet(Kinds)

\* A version is repeated at the given places only.
OnceBut(versions, places) ==
    \A i, j \in DOMAIN versions : i < j /\ versions[i] = versions[j] => j \in places

RegistryInv ==
    /\ ClientInv
    /\ registry \in [KindSet -> Seq({0, 1})] /\ script \in [KindSet -> {0, 1}]
    /\ unread \in [KindSet -> SUBSET Nat] /\ \A k \in KindSet : OnceBut(registry[k], unread[k])
    /\ client.command = "bootstrap" =>
          /\ client.dry \in BOOLEAN /\ client.left \in Seq(KindSet)
          /\ IF client.pc = "done" THEN client.left = <<>> ELSE client.left # <<>>
          /\ client.pc = "register" => script[Head(client.left)] \notin ToSet(registry[Head(client.left)])
          /\ ~client.dry => \A k \in KindSet \ ToSet(client.left) : script[k] \in ToSet(registry[k])

LEMMA KindsIs == Kinds \in Seq(KindSet) /\ Kinds # <<>> /\ ToSet(Kinds) = KindSet
  <1>1. Kinds[1] \in KindSet /\ Kinds[2] \in KindSet /\ Kinds[3] \in KindSet
    BY DEF KindSet, ToSet, Kinds
  <1>2. QED
    BY <1>1 DEF KindSet, Kinds

\* The head of a list of keys, and what is left behind it.
LEMMA HeadAndTail ==
  ASSUME NEW S, NEW left \in Seq(S), left # <<>>
  PROVE  /\ Head(left) \in S /\ Tail(left) \in Seq(S)
         /\ ToSet(left) = {Head(left)} \union ToSet(Tail(left))
         /\ Tail(left) = <<>> <=> Len(left) = 1
<1>1. /\ Len(left) \in Nat \ {0} /\ Head(left) = left[1] /\ DOMAIN left = 1 .. Len(left)
      /\ Tail(left) \in Seq(S) /\ Len(Tail(left)) = Len(left) - 1
      /\ \A i \in 1 .. Len(Tail(left)) : Tail(left)[i] = left[i + 1]
  OBVIOUS
<1>2. left[1] \in S
  BY <1>1
<1>3. PICK rest : rest = Tail(left)
  OBVIOUS
<1>4. /\ rest \in Seq(S) /\ Len(rest) = Len(left) - 1 /\ DOMAIN rest = 1 .. (Len(left) - 1)
      /\ \A i \in 1 .. (Len(left) - 1) : rest[i] = left[i + 1]
  BY <1>1, <1>3
<1>5. ASSUME NEW x \in ToSet(left) PROVE x \in {left[1]} \union ToSet(rest)
  <2>1. PICK i \in 1 .. Len(left) : x = left[i]
    BY <1>1 DEF ToSet
  <2>2. CASE i = 1
    BY <2>1, <2>2
  <2>3. CASE i # 1
    <3>1. i - 1 \in 1 .. (Len(left) - 1) /\ (i - 1) + 1 = i
      BY <1>1, <2>3
    <3>2. rest[i - 1] = left[i]
      BY <1>4, <3>1
    <3>3. QED
      BY <1>4, <2>1, <3>1, <3>2 DEF ToSet
  <2>4. QED
    BY <2>2, <2>3
<1>6. ASSUME NEW x \in ToSet(rest) PROVE x \in ToSet(left)
  <2>1. PICK i \in 1 .. (Len(left) - 1) : x = rest[i]
    BY <1>4 DEF ToSet
  <2>2. x = left[i + 1] /\ i + 1 \in 1 .. Len(left)
    BY <1>1, <1>4, <2>1
  <2>3. QED
    BY <1>1, <2>2 DEF ToSet
<1>7. left[1] \in ToSet(left)
  BY <1>1 DEF ToSet
<1>8. ToSet(left) = {left[1]} \union ToSet(rest)
  BY <1>5, <1>6, <1>7
<1>9. rest = <<>> <=> Len(left) = 1
  BY <1>1, <1>4
<1>10. QED
  BY <1>1, <1>2, <1>3, <1>4, <1>8, <1>9

\* What is new at the end of a list is there, and nothing else is.
LEMMA AddedOnce ==
  ASSUME NEW S, NEW v \in Seq(S), NEW x \in S
  PROVE  /\ Append(v, x) \in Seq(S) /\ ToSet(Append(v, x)) = ToSet(v) \union {x}
         /\ \A places, more : OnceBut(v, places) /\ places \subseteq more /\ (x \notin ToSet(v) \/ Len(v) + 1 \in more)
                                 => OnceBut(Append(v, x), more)
<1>1. PICK w : w = Append(v, x)
  OBVIOUS
<1>2. /\ Len(v) \in Nat /\ DOMAIN v = 1 .. Len(v)
      /\ w \in Seq(S) /\ Len(w) = Len(v) + 1 /\ DOMAIN w = 1 .. (Len(v) + 1)
      /\ w[Len(v) + 1] = x /\ \A i \in 1 .. Len(v) : w[i] = v[i]
  BY <1>1
<1>3. ToSet(w) = ToSet(v) \union {x}
  <2>1. \A i \in 1 .. (Len(v) + 1) : w[i] \in ToSet(v) \union {x}
    BY <1>2 DEF ToSet
  <2>2. \A i \in 1 .. Len(v) : i \in 1 .. (Len(v) + 1)
    BY <1>2
  <2>3. Len(v) + 1 \in 1 .. (Len(v) + 1)
    BY <1>2
  <2>4. QED
    BY <1>2, <2>1, <2>2, <2>3 DEF ToSet
<1>4. ASSUME NEW places, NEW more, OnceBut(v, places), places \subseteq more,
             x \notin ToSet(v) \/ Len(v) + 1 \in more,
             NEW i \in 1 .. (Len(v) + 1), NEW j \in 1 .. (Len(v) + 1), i < j, w[i] = w[j]
      PROVE  j \in more
  <2>1. i \in 1 .. Len(v) /\ w[i] = v[i]
    BY <1>2, <1>4
  <2>2. CASE j \in 1 .. Len(v)
    <3>1. v[i] = v[j]
      BY <1>2, <1>4, <2>1, <2>2
    <3>2. j \in places
      BY <1>2, <1>4, <2>1, <2>2, <3>1 DEF OnceBut
    <3>3. QED
      BY <1>4, <3>2
  <2>3. CASE j = Len(v) + 1
    <3>1. v[i] = x
      BY <1>2, <1>4, <2>1, <2>3
    <3>2. x \in ToSet(v)
      BY <1>2, <2>1, <3>1 DEF ToSet
    <3>3. QED
      BY <1>4, <2>3, <3>2
  <2>4. QED
    BY <1>2, <2>2, <2>3
<1>5. ASSUME NEW places, NEW more, OnceBut(v, places), places \subseteq more, x \notin ToSet(v) \/ Len(v) + 1 \in more
      PROVE  OnceBut(w, more)
  BY <1>2, <1>4, <1>5 DEF OnceBut
<1>6. QED
  BY <1>1, <1>2, <1>3, <1>5

\* A step of another command, or none, leaves what is registered alone.
LEMMA RegKept ==
  ASSUME RegistryInv, ClientInv', registry' = registry, unread' = unread, script' = script, client'.command # "bootstrap"
  PROVE  RegistryInv'
BY DEF RegistryInv

\* The run of the bootstrap goes on with the same kind.
LEMMA SameKind ==
  ASSUME RegistryInv, ClientInv', registry' = registry, unread' = unread, script' = script, client.command = "bootstrap",
         client.pc # "done", NEW pc \in {"create", "list"}, Goes(pc)
  PROVE  RegistryInv'
<1>1. Keeps({"pc"}) /\ client'.pc = pc
  BY GoesIs DEF RegistryInv, ClientInv
<1>2. client'.command = client.command /\ client'.dry = client.dry /\ client'.left = client.left
  BY <1>1 DEF Keeps, Fields
<1>3. QED
  BY <1>1, <1>2 DEF RegistryInv

\* The kind at hand is registered, or need not be: on to the next one.
LEMMA KindDone ==
  ASSUME RegistryInv, ClientInv', client.command = "bootstrap", client.pc # "done", NextKind, script' = script,
         registry' \in [KindSet -> Seq({0, 1})], unread' \in [KindSet -> SUBSET Nat],
         \A k \in KindSet : OnceBut(registry'[k], unread'[k]),
         \A k \in KindSet : ToSet(registry[k]) \subseteq ToSet(registry'[k]),
         client.dry \/ script[Head(client.left)] \in ToSet(registry'[Head(client.left)])
  PROVE  RegistryInv'
<1>1. /\ Keeps({"pc", "left"}) /\ client'.left = Tail(client.left)
      /\ client'.pc = IF Len(client.left) = 1 THEN "done" ELSE "get"
  BY NextKindIs DEF RegistryInv, ClientInv
<1>2. client'.command = client.command /\ client'.dry = client.dry
  BY <1>1 DEF Keeps, Fields
<1>3. client.left \in Seq(KindSet) /\ client.left # <<>>
  BY DEF RegistryInv
<1>4. /\ Tail(client.left) \in Seq(KindSet)
      /\ ToSet(client.left) = {Head(client.left)} \union ToSet(Tail(client.left))
      /\ Tail(client.left) = <<>> <=> Len(client.left) = 1
  BY <1>3, HeadAndTail
<1>5. ASSUME ~client.dry, NEW k \in KindSet \ ToSet(Tail(client.left))
      PROVE  script[k] \in ToSet(registry'[k])
  <2>1. CASE k = Head(client.left)
    BY <1>5, <2>1
  <2>2. CASE k # Head(client.left)
    <3>1. k \in KindSet \ ToSet(client.left)
      BY <1>4, <2>2
    <3>2. script[k] \in ToSet(registry[k])
      BY <1>5, <3>1 DEF RegistryInv
    <3>3. QED
      BY <3>2
  <2>3. QED
    BY <2>1, <2>2
<1>6. client'.pc # "register"
  BY <1>1
<1>7. IF client'.pc = "done" THEN client'.left = <<>> ELSE client'.left # <<>>
  BY <1>1, <1>4
<1>8. client'.dry \in BOOLEAN /\ client'.left \in Seq(KindSet)
  BY <1>1, <1>2, <1>4 DEF RegistryInv
<1>9. ~client'.dry => \A k \in KindSet \ ToSet(client'.left) : script'[k] \in ToSet(registry'[k])
  BY <1>1, <1>2, <1>5
<1>10. script' \in [KindSet -> {0, 1}]
  BY DEF RegistryInv
<1>11. QED
  BY <1>6, <1>7, <1>8, <1>9, <1>10 DEF RegistryInv

\* The version at hand is not there, or the list was not read: it will be registered.
LEMMA ListKeeps == ASSUME RegistryInv, ClientInv', ListVersions PROVE RegistryInv'
<1>1. client.command = "bootstrap" /\ client.pc = "list" /\ DOMAIN client = Fields
  BY DEF RegistryInv, ClientInv, ListVersions, At, Course
<1>2. registry' = registry /\ unread' = unread /\ script' = script
  BY DEF ListVersions, OnlyClient
<1>3. \/ Matching(registry[Head(client.left)], Head(client.left)) /\ NextKind
      \/ ~Matching(registry[Head(client.left)], Head(client.left)) /\ Goes("register")
      \/ Goes("unread")
  BY DEF ListVersions
<1>4. CASE Matching(registry[Head(client.left)], Head(client.left)) /\ NextKind
  <2>1. script[Head(client.left)] \in ToSet(registry'[Head(client.left)])
    BY <1>2, <1>4 DEF Matching
  <2>2. /\ registry' \in [KindSet -> Seq({0, 1})] /\ unread' \in [KindSet -> SUBSET Nat]
        /\ \A k \in KindSet : OnceBut(registry'[k], unread'[k])
        /\ \A k \in KindSet : ToSet(registry[k]) \subseteq ToSet(registry'[k])
    BY <1>2 DEF RegistryInv
  <2>3. QED
    BY <1>1, <1>2, <1>4, <2>1, <2>2, KindDone
<1>5. CASE ~Matching(registry[Head(client.left)], Head(client.left)) /\ Goes("register")
  <2>1. Keeps({"pc"}) /\ client'.pc = "register"
    BY <1>1, <1>5, GoesIs
  <2>2. client'.command = client.command /\ client'.dry = client.dry /\ client'.left = client.left
    BY <2>1 DEF Keeps, Fields
  <2>3. script[Head(client.left)] \notin ToSet(registry[Head(client.left)])
    BY <1>5 DEF Matching
  <2>4. QED
    BY <1>1, <1>2, <2>1, <2>2, <2>3 DEF RegistryInv
<1>6. CASE Goes("unread")
  <2>1. Keeps({"pc"}) /\ client'.pc = "unread"
    BY <1>1, <1>6, GoesIs
  <2>2. client'.command = client.command /\ client'.dry = client.dry /\ client'.left = client.left
    BY <2>1 DEF Keeps, Fields
  <2>3. QED
    BY <1>1, <1>2, <2>1, <2>2 DEF RegistryInv
<1>7. QED
  BY <1>3, <1>4, <1>5, <1>6

LEMMA RegisterKeeps == ASSUME RegistryInv, ClientInv', Register PROVE RegistryInv'
<1> DEFINE k == Head(client.left)
<1>1. client.command = "bootstrap" /\ client.pc \in {"create", "register", "unread"}
  BY DEF RegistryInv, ClientInv, Register, Course
<1>2. script' = script
  BY DEF Register
<1>3. client.left \in Seq(KindSet) /\ client.left # <<>> /\ client.dry \in BOOLEAN
  BY <1>1 DEF RegistryInv
<1>4. k \in KindSet
  BY <1>3, HeadAndTail
<1>5. registry[k] \in Seq({0, 1}) /\ script[k] \in {0, 1} /\ unread[k] \in SUBSET Nat
      /\ OnceBut(registry[k], unread[k]) /\ Len(registry[k]) + 1 \in Nat
  BY <1>4 DEF RegistryInv
<1>6. CASE client.dry /\ NextKind /\ UNCHANGED <<registry, unread>>
  <2>1. /\ registry' \in [KindSet -> Seq({0, 1})] /\ unread' \in [KindSet -> SUBSET Nat]
        /\ \A x \in KindSet : OnceBut(registry'[x], unread'[x])
        /\ \A x \in KindSet : ToSet(registry[x]) \subseteq ToSet(registry'[x])
    BY <1>6 DEF RegistryInv
  <2>2. QED
    BY <1>1, <1>2, <1>6, <2>1, KindDone
<1>7. CASE /\ ~client.dry /\ (~At("create") \/ registry[k] = <<>>) /\ NextKind
           /\ registry' = [registry EXCEPT ![k] = Append(@, script[k])]
           /\ unread' = [unread EXCEPT ![k] = IF At("unread") THEN @ \union {Len(registry[k]) + 1} ELSE @]
  <2>a. PICK more : more = IF At("unread") THEN unread[k] \union {Len(registry[k]) + 1} ELSE unread[k]
    OBVIOUS
  <2>1. script[k] \notin ToSet(registry[k]) \/ Len(registry[k]) + 1 \in more
    <3>1. CASE registry[k] = <<>>
      <4>1. DOMAIN registry[k] = {}
        BY <3>1
      <4>2. QED
        BY <4>1 DEF ToSet
    <3>2. CASE At("register")
      BY <1>1, <3>2 DEF RegistryInv, At
    <3>3. CASE At("unread")
      BY <2>a, <3>3
    <3>4. QED
      BY <1>1, <1>7, <3>1, <3>2, <3>3 DEF At
  <2>2. unread[k] \subseteq more /\ more \in SUBSET Nat
    BY <1>5, <2>a
  <2>3. /\ Append(registry[k], script[k]) \in Seq({0, 1})
        /\ ToSet(Append(registry[k], script[k])) = ToSet(registry[k]) \union {script[k]}
        /\ OnceBut(Append(registry[k], script[k]), more)
    BY <1>5, <2>1, <2>2, AddedOnce
  <2>4. /\ registry' \in [KindSet -> Seq({0, 1})] /\ registry'[k] = Append(registry[k], script[k])
        /\ \A x \in KindSet : x # k => registry'[x] = registry[x]
    BY <1>4, <1>7, <2>3 DEF RegistryInv
  <2>5. /\ unread' \in [KindSet -> SUBSET Nat] /\ unread'[k] = more
        /\ \A x \in KindSet : x # k => unread'[x] = unread[x]
    BY <1>4, <1>7, <2>a, <2>2 DEF RegistryInv
  <2>6. \A x \in KindSet : OnceBut(registry'[x], unread'[x]) /\ ToSet(registry[x]) \subseteq ToSet(registry'[x])
    BY <2>3, <2>4, <2>5 DEF RegistryInv
  <2>7. script[k] \in ToSet(registry'[k])
    BY <2>3, <2>4
  <2>8. QED
    BY <1>1, <1>2, <1>7, <2>4, <2>5, <2>6, <2>7, KindDone
<1>8. CASE Fails /\ UNCHANGED <<registry, unread>>
  BY <1>2, <1>8, FailsIs, RegKept
<1>9. QED
  BY <1>6, <1>7, <1>8 DEF Register

\* The other commands.
LEMMA OtherGiven ==
  ASSUME \/ \E request \in Requests : Import(request)
         \/ \E experiment \in Experiments : Freeze(experiment)
         \/ \E presets \in {Presets} \union {{p} : p \in Presets} : Mine(presets)
  PROVE  client'.command \in {"none", "import", "cohort", "mine"}
<1>1. ASSUME NEW request \in Requests, Import(request) PROVE client'.command = "import"
  <2>1. \E wait, traces, threads :
          client' = [Given("import", "resolve") EXCEPT !.wait = wait, !.traces = traces, !.threads = threads]
    BY <1>1, Zenon DEF Import
  <2>2. QED
    BY <2>1, GivenIs DEF Fields
<1>2. ASSUME NEW experiment \in Experiments, Freeze(experiment) PROVE client'.command \in {"none", "cohort"}
  <2>1. \/ \E trials : client' = [Given("cohort", "sessions") EXCEPT !.trials = trials]
        \/ \E given : client' = [Idle EXCEPT !.given = given]
    BY <1>2, Zenon DEF Freeze
  <2>2. QED
    BY <2>1, GivenIs, IdleIs DEF Fields
<1>3. ASSUME NEW presets, Mine(presets) PROVE client'.command = "mine"
  <2>1. \E report : client' = [Given("mine", "done") EXCEPT !.report = report]
    BY <1>3, Zenon DEF Mine
  <2>2. QED
    BY <2>1, GivenIs DEF Fields
<1>4. QED
  BY <1>1, <1>2, <1>3

LEMMA RegistryStep == RegistryInv /\ [KitaruNext]_kitaruVars => RegistryInv'
<1> SUFFICES ASSUME RegistryInv, [KitaruNext]_kitaruVars PROVE RegistryInv'
  OBVIOUS
<1>1. ClientInv'
  BY ClientStep DEF RegistryInv
<1>2. DOMAIN client = Fields /\ client.pc \in Course(client.command)
      /\ client.command \in {"none", "bootstrap", "import", "cohort", "mine"}
  BY DEF RegistryInv, ClientInv
<1>3. CASE UNCHANGED <<registry, unread, script, client>>
  BY <1>3 DEF RegistryInv, ClientInv
<1>4. ASSUME NEW k \in Edited, EditScript(k) PROVE RegistryInv'
  <2>1. script' = [script EXCEPT ![k] = 1 - @] /\ k \in KindSet /\ UNCHANGED <<registry, unread, client>>
    BY <1>4, KitaruAssumption DEF EditScript, KindSet
  <2>2. \A b \in {0, 1} : 1 - b \in {0, 1}
    OBVIOUS
  <2>3. script' \in [KindSet -> {0, 1}]
    BY <2>1, <2>2 DEF RegistryInv
  <2>4. client.command # "bootstrap"
    BY <1>2, <1>4 DEF EditScript, At, Course
  <2>5. QED
    BY <1>1, <2>1, <2>3, <2>4 DEF RegistryInv
<1>5. ASSUME NEW dry \in BOOLEAN, Bootstrap(dry) PROVE RegistryInv'
  <2>1. client' = [Given("bootstrap", "get") EXCEPT !.left = Kinds, !.dry = dry]
        /\ registry' = registry /\ unread' = unread /\ script' = script
    BY <1>5 DEF Bootstrap, OnlyClient
  <2>2. client'.left = Kinds /\ client'.dry = dry /\ client'.pc = "get" /\ client'.command = "bootstrap"
    BY <2>1, GivenIs DEF Fields
  <2>3. client'.left \in Seq(KindSet) /\ client'.left # <<>> /\ ToSet(client'.left) = KindSet
    BY <2>2, KindsIs
  <2>4. QED
    BY <1>1, <2>1, <2>2, <2>3 DEF RegistryInv
<1>6. ASSUME UNCHANGED <<registry, unread, script>>, client'.command # "bootstrap" PROVE RegistryInv'
  BY <1>1, <1>6, RegKept
<1>7. CASE GetResource
  <2>1. client.command = "bootstrap" /\ client.pc = "get" /\ registry' = registry /\ unread' = unread /\ script' = script
    BY <1>2, <1>7 DEF GetResource, At, Course, OnlyClient
  <2>2. \E pc \in {"create", "list"} : Goes(pc)
    BY <1>7 DEF GetResource
  <2>3. QED
    BY <1>1, <2>1, <2>2, SameKind
<1>8. CASE ListVersions
  BY <1>1, <1>8, ListKeeps
<1>9. CASE Register
  BY <1>1, <1>9, RegisterKeeps
<1>10. CASE \/ \E request \in Requests : Import(request)
            \/ \E experiment \in Experiments : Freeze(experiment)
            \/ \E presets \in {Presets} \union {{p} : p \in Presets} : Mine(presets)
  <2>1. UNCHANGED <<registry, unread, script>>
    BY <1>10 DEF Import, Freeze, Mine, OnlyClient
  <2>2. client'.command # "bootstrap"
    BY <1>10, OtherGiven
  <2>3. QED
    BY <1>6, <2>1, <2>2
<1>11. CASE Resolve \/ CollectThreads \/ ListSessions \/ SkipThread \/ FileThread \/ Settled \/ ResolveSessions
            \/ EnsureCohort \/ ReadMembers \/ CreateVersion \/ Reported
  <2>1. UNCHANGED <<registry, unread, script>>
    BY <1>11 DEF Resolve, CollectThreads, ListSessions, SkipThread, FileThread, Settled, ResolveSessions,
                 EnsureCohort, ReadMembers, CreateVersion, Reported, OnlyClient
  <2>2. CASE Reported
    <3>1. client'.command = "none"
      BY <2>2, FailsIs DEF Reported
    <3>2. QED
      BY <1>6, <2>1, <3>1
  <2>3. CASE ~Reported
    <3>1. client.command \in {"import", "cohort"}
      BY <1>2, <1>11, <2>3 DEF Resolve, CollectThreads, ListSessions, SkipThread, FileThread, Settled, ResolveSessions,
                 EnsureCohort, ReadMembers, CreateVersion, At, Course
    <3>2. client'.command \in {"none", client.command}
      BY <1>2, <1>11, <2>3, CommandKept
    <3>3. QED
      BY <1>6, <2>1, <3>1, <3>2
  <2>4. QED
    BY <2>2, <2>3
<1>12. CASE (\E trace \in Growth : Grow(trace)) \/ (\E j \in DOMAIN jobs : Work(j))
  BY <1>3, <1>12 DEF Grow, Work
<1>13. CASE Steps
  BY <1>7, <1>8, <1>9, <1>11, <1>13 DEF Steps
<1>14. CASE UNCHANGED kitaruVars
  BY <1>3, <1>14 DEF kitaruVars
<1>15. QED
  BY <1>4, <1>5, <1>10, <1>12, <1>13, <1>14 DEF KitaruNext

LEMMA RegistryInit ==
  ASSUME KitaruInit, RegisteredAtFirst
  PROVE  RegistryInv
<1>1. registry \in Registries /\ script = [k \in ToSet(Kinds) |-> 0] /\ client = Idle
  BY DEF KitaruInit
<1>2. registry \in [KindSet -> Seq({0, 1})]
  BY <1>1, KitaruAssumption DEF KindSet
<1>3. script \in [KindSet -> {0, 1}]
  BY <1>1 DEF KindSet
<1>4. unread \in [KindSet -> SUBSET Nat] /\ \A k \in KindSet : OnceBut(registry[k], unread[k])
  <2>1. unread = [k \in KindSet |-> {}]
    BY DEF KitaruInit, KindSet
  <2>2. ASSUME NEW k \in KindSet PROVE OnceBut(registry[k], unread[k])
    <3>1. IsInjective(registry[k])
      BY <1>1 DEF RegisteredAtFirst, KindSet
    <3>2. DOMAIN registry[k] \subseteq Nat
      BY <1>2
    <3>3. \A i, j \in DOMAIN registry[k] : registry[k][i] = registry[k][j] => i = j
      BY <3>1 DEF IsInjective
    <3>4. QED
      BY <3>2, <3>3 DEF OnceBut
  <2>3. QED
    BY <2>1, <2>2
<1>5. ClientInv /\ client.command # "bootstrap"
  BY <1>1, IdleIs DEF ClientInv, Course
<1>6. QED
  BY <1>2, <1>3, <1>4, <1>5 DEF RegistryInv

LEMMA RegistryHolds == RegistryInv => RegisteredOnce
<1> SUFFICES ASSUME RegistryInv, NEW k \in KindSet
             PROVE  /\ OnceBut(registry[k], unread[k])
                    /\ client.command = "bootstrap" /\ At("done") /\ ~client.dry => script[k] \in ToSet(registry[k])
  BY DEF RegisteredOnce, KindSet, OnceBut
<1>1. ASSUME client.command = "bootstrap", At("done"), ~client.dry PROVE script[k] \in ToSet(registry[k])
  <2>1. client.left = <<>>
    BY <1>1 DEF RegistryInv, At
  <2>2. DOMAIN client.left = {}
    BY <2>1
  <2>3. k \in KindSet \ ToSet(client.left)
    BY <2>2 DEF ToSet
  <2>4. QED
    BY <1>1, <2>3 DEF RegistryInv
<1>2. QED
  BY <1>1 DEF RegistryInv

-----------------------------------------------------------------------------
(* The traces, and what is made of them *)

\* Some of the traces there are: those of one thread.
ThreadOf(key, traces) ==
    /\ traces \subseteq opik /\ traces # {} /\ IsFiniteSet(traces)
    /\ \A t \in traces : ThreadKey(t) = key
Job == [key : Nat, traces : SUBSET Trace, state : {"queued", "created", "skipped", "failure"}]

\* A Session of the server: one it may hold, or one that a job made.
AnySession == KitaruSession \union [name : {"agent_run"}, key : Nat, turns : Seq(Nat)]

WorldInv ==
    /\ opik \subseteq Trace /\ IsFiniteSet(opik)
    /\ \A t, u \in opik : t.id = u.id => t = u
    /\ \E project \in Projects : opik \subseteq project \union Growth
CollectedInv ==
    /\ client.threads \subseteq Nat /\ IsFiniteSet(client.threads)
    /\ DOMAIN client.collected \subseteq Nat /\ IsFiniteSet(DOMAIN client.collected)
    /\ \A key \in DOMAIN client.collected : ThreadOf(key, client.collected[key])
JobsInv == jobs \in Seq(Job) /\ \A j \in DOMAIN jobs : ThreadOf(jobs[j].key, jobs[j].traces)
TracesInv == ClientInv /\ WorldInv /\ CollectedInv /\ JobsInv /\ sessions \in Seq(AnySession)

\* What is read off each of finitely many things is finite.
LEMMA FiniteImage ==
  ASSUME NEW S, IsFiniteSet(S), NEW f, DOMAIN f = S
  PROVE  IsFiniteSet({f[x] : x \in S})
<1> DEFINE T == {f[x] : x \in S}
           g == [x \in S |-> f[x]]
<1>1. g \in [S -> T]
  OBVIOUS
<1>2. \A y \in T : \E x \in S : g[x] = y
  OBVIOUS
<1>3. g \in Surjection(S, T)
  BY <1>1, <1>2 DEF Surjection
<1>4. QED
  BY <1>3, FS_Surjection

LEMMA ColumnKey ==
  ASSUME NEW t \in Trace
  PROVE  /\ ThreadKey(t) \in Nat /\ t.thread \in Nat
         /\ t.thread # 0 => ThreadKey(t) = t.thread
BY DEF Trace, ThreadKey, ThreadColumn

\* What is found for a thread is of the thread.
LEMMA FoundIs ==
  ASSUME WorldInv, NEW key, ThreadTraces(key) # {}
  PROVE  ThreadOf(key, ThreadTraces(key))
<1>1. \A t \in ThreadTraces(key) : t \in opik /\ t.thread = key /\ key # 0
  BY DEF ThreadTraces
<1>2. \A t \in ThreadTraces(key) : ThreadKey(t) = key
  BY <1>1, ColumnKey DEF WorldInv
<1>3. IsFiniteSet(ThreadTraces(key))
  BY <1>1, FS_Subset DEF WorldInv
<1>4. QED
  BY <1>1, <1>2, <1>3 DEF ThreadOf

LEMMA CollectedIs ==
  ASSUME WorldInv, NEW asked \in SUBSET opik, NEW threads \in SUBSET Nat, IsFiniteSet(threads),
         \A key \in threads : ThreadTraces(key) # {} \/ \E t \in asked : ThreadKey(t) = key,
         NEW first \in Firsts(asked)
  PROVE  /\ DOMAIN Collected(asked, threads, first) \subseteq Nat
         /\ IsFiniteSet(DOMAIN Collected(asked, threads, first))
         /\ \A key \in DOMAIN Collected(asked, threads, first) : ThreadOf(key, Collected(asked, threads, first)[key])
<1>1. asked \subseteq Trace /\ IsFiniteSet(asked)
  BY FS_Subset DEF WorldInv
<1>a. PICK keys : keys = {ThreadKey(t) : t \in asked}
  OBVIOUS
<1>b. PICK f : f = [t \in asked |-> ThreadKey(t)]
  OBVIOUS
<1>c. PICK all : all = Collected(asked, threads, first)
  OBVIOUS
<1>2. all = [key \in keys \union threads |->
                IF ThreadTraces(key) # {} THEN ThreadTraces(key) ELSE {first[key]}]
  BY <1>a, <1>c, Zenon DEF Collected
<1>3. keys \subseteq Nat
  BY <1>1, <1>a, ColumnKey
<1>4. IsFiniteSet(keys)
  <2>1. keys = {f[t] : t \in asked} /\ DOMAIN f = asked
    BY <1>a, <1>b
  <2>2. IsFiniteSet({f[t] : t \in asked})
    BY <1>1, <2>1, FiniteImage
  <2>3. QED
    BY <2>1, <2>2
<1>5. DOMAIN all = keys \union threads
  BY <1>2
<1>6. DOMAIN all \subseteq Nat /\ IsFiniteSet(DOMAIN all)
  <2>1. IsFiniteSet(keys \union threads)
    BY <1>4, FS_Union
  <2>2. QED
    BY <1>3, <1>5, <2>1
<1>7. ASSUME NEW key \in DOMAIN all PROVE ThreadOf(key, all[key])
  <2>1. CASE ThreadTraces(key) # {}
    <3>1. all[key] = ThreadTraces(key)
      BY <1>2, <1>5, <1>7, <2>1
    <3>2. QED
      BY <2>1, <3>1, FoundIs
  <2>2. CASE ThreadTraces(key) = {}
    <3>1. all[key] = {first[key]}
      BY <1>2, <1>5, <1>7, <2>2
    <3>2. key \in keys
      BY <1>a, <1>5, <1>7, <2>2
    <3>3. first[key] \in asked /\ ThreadKey(first[key]) = key
      BY <1>a, <3>2 DEF Firsts
    <3>4. QED
      BY <3>1, <3>3, FS_Singleton DEF ThreadOf
  <2>3. QED
    BY <2>1, <2>2
<1>8. QED
  BY <1>6, <1>7, <1>c

\* The Session a job's traces make, if they can be read.
Made(one) ==
    [name |-> "agent_run", key |-> one.key,
     turns |-> [i \in DOMAIN InOrder(one.traces) |-> InOrder(one.traces)[i].id]]
Known(key) == \E i \in DOMAIN sessions : sessions[i].key = key

LEMMA ParsedIs ==
  ASSUME NEW key, NEW traces, traces # {}, \A t \in traces : ThreadKey(t) = key
  PROVE  LET parsed == UNION {Parse(traces)[k] : k \in Groups(traces)}
         IN  parsed = {} \/ parsed = {Session(key, InOrder(traces))}
<1>1. Groups(traces) = {key}
  BY DEF Groups
<1>2. {t \in traces : ThreadKey(t) = key} = traces
  OBVIOUS
<1>3. Parse(traces)[key] = {} \/ Parse(traces)[key] = {Session(key, InOrder(traces))}
  BY <1>1, <1>2 DEF Parse
<1>4. {Parse(traces)[k] : k \in Groups(traces)} = {Parse(traces)[key]}
  BY <1>1
<1>5. UNION {Parse(traces)[k] : k \in Groups(traces)} = Parse(traces)[key]
  BY <1>4
<1>6. QED
  BY <1>3, <1>5

\* The Session is of the key, and its turns are the traces.
LEMMA MadeIs ==
  ASSUME NEW one \in Job, one.traces \subseteq Trace, IsFiniteSet(one.traces),
         \A t, u \in one.traces : t.id = u.id => t = u
  PROVE  /\ Made(one) \in AnySession /\ Made(one).key = one.key
         /\ ToSet(Made(one).turns) = {t.id : t \in one.traces}
         /\ LET s == Session(one.key, InOrder(one.traces))
            IN  s.key = one.key /\ [name |-> "agent_run", key |-> s.key, turns |-> s.turns] = Made(one)
<1>1. PICK T : T = one.traces
  OBVIOUS
<1>2. PICK q : q = InOrder(T)
  OBVIOUS
<1>3. q \in Seq(T) /\ ToSet(q) = T
  BY <1>1, <1>2, TurnsInOrder
<1>4. Len(q) \in Nat /\ DOMAIN q = 1 .. Len(q) /\ \A i \in 1 .. Len(q) : q[i] \in T
  BY <1>3
<1>5. PICK ids : ids = [i \in DOMAIN q |-> q[i].id]
  OBVIOUS
<1>6. \A t \in T : t.id \in Nat
  BY <1>1 DEF Trace
<1>7. ids \in Seq(Nat)
  <2>1. ids \in [1 .. Len(q) -> Nat]
    BY <1>4, <1>5, <1>6
  <2>2. QED
    BY <1>4, <2>1
<1>8. ToSet(ids) = {t.id : t \in T}
  <2>1. ToSet(q) = {q[i] : i \in DOMAIN q}
    BY DEF ToSet
  <2>2. ToSet(ids) = {q[i].id : i \in DOMAIN q}
    BY <1>5 DEF ToSet
  <2>3. QED
    BY <1>3, <2>1, <2>2
<1>9. Made(one) = [name |-> "agent_run", key |-> one.key, turns |-> ids]
  BY <1>1, <1>2, <1>5 DEF Made
<1>10. Session(one.key, q).key = one.key /\ Session(one.key, q).turns = ids
  BY <1>5 DEF Session
<1>11. one.key \in Nat
  BY DEF Job
<1>12. Made(one) \in AnySession
  BY <1>7, <1>9, <1>11 DEF AnySession
<1>13. Made(one).key = one.key /\ Made(one).turns = ids
  BY <1>9
<1>14. ToSet(Made(one).turns) = {t.id : t \in one.traces}
  BY <1>1, <1>8, <1>13
<1>15. PICK s : s = Session(one.key, InOrder(one.traces))
  OBVIOUS
<1>16. s.key = one.key /\ s.turns = ids
  BY <1>1, <1>2, <1>10, <1>15
<1>17. [name |-> "agent_run", key |-> s.key, turns |-> s.turns] = Made(one)
  BY <1>9, <1>16
<1>18. QED
  BY <1>12, <1>13, <1>14, <1>15, <1>16, <1>17

LEMMA SessionIs ==
  ASSUME NEW s \in AnySession
  PROVE  s.key \in Nat /\ s.turns \in Seq(Nat)
BY DEF AnySession, KitaruSession

\* A job that is worked adds the Session it makes, unless its thread is known by then.
LEMMA WorkIs ==
  ASSUME TracesInv, NEW j \in DOMAIN jobs, Work(j)
  PROVE  /\ jobs[j].state = "queued"
         /\ \/ /\ ~Known(jobs[j].key) /\ sessions' = Append(sessions, Made(jobs[j]))
               /\ jobs' = [jobs EXCEPT ![j].state = "created"]
            \/ /\ Known(jobs[j].key) /\ sessions' = sessions
               /\ jobs' = [jobs EXCEPT ![j].state = "skipped"]
            \/ /\ sessions' = sessions /\ jobs' = [jobs EXCEPT ![j].state = "failure"]
<1>1. PICK one : one = jobs[j]
  OBVIOUS
<1>2. one \in Job /\ ThreadOf(one.key, one.traces)
  BY <1>1 DEF TracesInv, JobsInv
<1>3. /\ one.traces \subseteq opik /\ one.traces # {} /\ IsFiniteSet(one.traces)
      /\ \A t \in one.traces : ThreadKey(t) = one.key
  BY <1>2 DEF ThreadOf
<1>4. /\ one.traces \subseteq Trace /\ \A t, u \in one.traces : t.id = u.id => t = u
  BY <1>3 DEF TracesInv, WorldInv
<1>5. PICK s : s = Session(one.key, InOrder(one.traces))
  OBVIOUS
<1>6. PICK m : m = Made(one)
  OBVIOUS
<1>7. s.key = one.key /\ [name |-> "agent_run", key |-> s.key, turns |-> s.turns] = m
  BY <1>2, <1>3, <1>4, <1>5, <1>6, MadeIs
<1>8. PICK parsed : parsed = UNION {Parse(jobs[j].traces)[key] : key \in Groups(jobs[j].traces)}
  OBVIOUS
<1>9. parsed = {} \/ parsed = {s}
  BY <1>1, <1>3, <1>5, <1>8, ParsedIs
<1>10. PICK new : new = {x \in parsed : \A i \in DOMAIN sessions : sessions[i].key # x.key}
  OBVIOUS
<1>11. PICK added : added = {[name |-> "agent_run", key |-> x.key, turns |-> x.turns] : x \in new}
  OBVIOUS
<1>12. /\ jobs[j].state = "queued"
       /\ sessions' = sessions \o SetToSeq(added)
       /\ jobs' = [jobs EXCEPT ![j].state = IF new # {} THEN "created" ELSE IF parsed # {} THEN "skipped" ELSE "failure"]
  BY <1>8, <1>10, <1>11 DEF Work
<1>13. sessions \in Seq(AnySession)
  BY DEF TracesInv
<1>14. ASSUME new = {} PROVE sessions' = sessions
  <2>1. added = {} /\ Cardinality(added) = 0
    BY <1>11, <1>14, FS_EmptySet
  <2>2. IsFiniteSet(added)
    BY <2>1, FS_EmptySet
  <2>3. SetToSeq(added) \in Seq(added) /\ Len(SetToSeq(added)) = 0
    BY <2>1, <2>2, SeqOfSet
  <2>4. SetToSeq(added) = <<>>
    BY <2>3
  <2>5. QED
    BY <1>12, <1>13, <2>4
<1>15. ASSUME new = {s} PROVE sessions' = Append(sessions, m)
  <2>1. added = {m}
    BY <1>7, <1>11, <1>15
  <2>2. IsFiniteSet(added) /\ Cardinality(added) = 1
    BY <2>1, FS_Singleton
  <2>3. PICK q : q = SetToSeq(added)
    OBVIOUS
  <2>4. q \in Seq(added) /\ Len(q) = 1
    BY <2>2, <2>3, SeqOfSet
  <2>5. q = <<m>>
    BY <2>1, <2>4
  <2>6. sessions \o <<m>> = Append(sessions, m)
    BY <1>13
  <2>7. QED
    BY <1>12, <2>3, <2>5, <2>6
<1>16. CASE parsed = {}
  <2>1. new = {}
    BY <1>10, <1>16
  <2>2. QED
    BY <1>1, <1>12, <1>14, <1>16, <2>1
<1>17. CASE parsed = {s} /\ Known(one.key)
  <2>1. new = {}
    BY <1>7, <1>10, <1>17 DEF Known
  <2>2. QED
    BY <1>1, <1>12, <1>14, <1>17, <2>1
<1>18. CASE parsed = {s} /\ ~Known(one.key)
  <2>1. new = {s}
    BY <1>7, <1>10, <1>18 DEF Known
  <2>2. QED
    BY <1>1, <1>6, <1>12, <1>15, <1>18, <2>1
<1>19. QED
  BY <1>9, <1>16, <1>17, <1>18

\* The other steps leave what is asked for and collected alone, or start anew.
AsksAnew == client'.threads = {} /\ client'.collected = <<>>
AsksAsBefore == client'.threads = client.threads /\ client'.collected = client.collected

LEMMA AsksKept ==
  ASSUME ClientInv, [KitaruNext]_kitaruVars
  PROVE  \/ AsksAnew \/ AsksAsBefore
         \/ CollectThreads \/ \E request \in Requests : Import(request)
<1>1. DOMAIN client = Fields
  BY DEF ClientInv
<1>2. ASSUME Fails PROVE AsksAnew
  BY <1>2, FailsRest, BlankIs DEF AsksAnew, Fields
<1>3. ASSUME NEW fs \in SUBSET (Fields \ {"threads", "collected"}), Keeps(fs) PROVE AsksAsBefore
  BY <1>3 DEF Keeps, Fields, AsksAsBefore
<1>4. ASSUME NEW pc, Goes(pc) PROVE AsksAsBefore
  BY <1>1, <1>3, <1>4, GoesIs DEF Fields
<1>5. ASSUME NextKind PROVE AsksAsBefore
  BY <1>1, <1>3, <1>5, NextKindIs DEF Fields
<1>6. ASSUME NEW key, NEW status, Says(key, status) PROVE AsksAsBefore
  BY <1>1, <1>3, <1>6, SaysIs DEF Fields
<1>7. ASSUME NEW dry \in BOOLEAN, Bootstrap(dry) PROVE AsksAnew
  <2>1. client' = [Given("bootstrap", "get") EXCEPT !.left = Kinds, !.dry = dry]
    BY <1>7 DEF Bootstrap
  <2>2. QED
    BY <2>1, GivenRest, GivenIs, BlankIs DEF Fields, AsksAnew
<1>8. ASSUME NEW experiment \in Experiments, Freeze(experiment) PROVE AsksAnew
  <2>1. \/ \E trials : client' = [Given("cohort", "sessions") EXCEPT !.trials = trials]
        \/ \E given : client' = [Idle EXCEPT !.given = given]
    BY <1>8, Zenon DEF Freeze
  <2>2. QED
    BY <2>1, GivenRest, GivenIs, IdleIs, BlankIs DEF Fields, AsksAnew
<1>9. ASSUME NEW presets, Mine(presets) PROVE AsksAnew
  <2>1. \E report : client' = [Given("mine", "done") EXCEPT !.report = report]
    BY <1>9, Zenon DEF Mine
  <2>2. QED
    BY <2>1, GivenRest, GivenIs, BlankIs DEF Fields, AsksAnew
<1>10. CASE ListSessions
  <2>1. \/ Fails
        \/ \E left, known : client' = [client EXCEPT !.known = known, !.pc = "thread", !.left = left]
    BY <1>10, Zenon DEF ListSessions
  <2>2. ASSUME NEW left, NEW known, client' = [client EXCEPT !.known = known, !.pc = "thread", !.left = left]
        PROVE  AsksAsBefore
    BY <1>1, <2>2 DEF Fields, AsksAsBefore
  <2>3. QED
    BY <1>2, <2>1, <2>2
<1>11. CASE ResolveSessions \/ ReadMembers
  <2>1. Fails \/ \E more, pc : client' = [client EXCEPT !.add = more, !.pc = pc]
    BY <1>11, Zenon DEF ResolveSessions, ReadMembers
  <2>2. ASSUME NEW more, NEW pc, client' = [client EXCEPT !.add = more, !.pc = pc] PROVE AsksAsBefore
    BY <1>1, <2>2 DEF Fields, AsksAsBefore
  <2>3. QED
    BY <1>2, <2>1, <2>2
<1>12. CASE GetResource \/ ListVersions \/ Register
  BY <1>2, <1>4, <1>5, <1>12 DEF GetResource, ListVersions, Register
<1>13. CASE Resolve \/ SkipThread \/ FileThread \/ Settled
  BY <1>2, <1>4, <1>6, <1>13 DEF Resolve, SkipThread, FileThread, Settled
<1>14. CASE EnsureCohort \/ CreateVersion \/ Reported
  BY <1>2, <1>4, <1>14 DEF EnsureCohort, CreateVersion, Reported
<1>15. CASE UNCHANGED client
  BY <1>15 DEF AsksAsBefore
<1>16. CASE (\E k \in Edited : EditScript(k)) \/ (\E trace \in Growth : Grow(trace)) \/ (\E j \in DOMAIN jobs : Work(j))
  BY <1>15, <1>16 DEF EditScript, Grow, Work
<1>17. CASE Steps
  BY <1>10, <1>11, <1>12, <1>13, <1>14, <1>17 DEF Steps
<1>18. QED
  BY <1>7, <1>8, <1>9, <1>15, <1>16, <1>17 DEF KitaruNext, kitaruVars

LEMMA WorldStep ==
  ASSUME WorldInv, [KitaruNext]_kitaruVars, OneTraceAnId
  PROVE  WorldInv' /\ opik \subseteq opik'
<1>1. CASE opik' = opik
  BY <1>1 DEF WorldInv
<1>2. ASSUME NEW trace \in Growth, Grow(trace) PROVE WorldInv' /\ opik \subseteq opik'
  <2>1. opik' = opik \union {trace} /\ trace \in Trace
    BY <1>2, KitaruAssumption DEF Grow
  <2>2. PICK project \in Projects : opik \subseteq project \union Growth
    BY DEF WorldInv
  <2>3. opik' \subseteq project \union Growth
    BY <2>1, <2>2
  <2>4. \A t, u \in opik' : t.id = u.id => t = u
    BY <2>3 DEF OneTraceAnId
  <2>5. IsFiniteSet(opik')
    BY <2>1, FS_AddElement DEF WorldInv
  <2>6. opik' \subseteq Trace
    BY <2>1 DEF WorldInv
  <2>7. QED
    BY <2>1, <2>3, <2>4, <2>5, <2>6 DEF WorldInv
<1>3. CASE Steps
  BY <1>1, <1>3 DEF Steps, GetResource, ListVersions, Register, Resolve, CollectThreads, ListSessions, SkipThread,
     FileThread, Settled, ResolveSessions, EnsureCohort, ReadMembers, CreateVersion, Reported, OnlyClient
<1>4. CASE \/ \E k \in Edited : EditScript(k)
           \/ \E dry \in BOOLEAN : Bootstrap(dry)
           \/ \E request \in Requests : Import(request)
           \/ \E experiment \in Experiments : Freeze(experiment)
           \/ \E presets \in {Presets} \union {{p} : p \in Presets} : Mine(presets)
           \/ \E j \in DOMAIN jobs : Work(j)
  BY <1>1, <1>4 DEF EditScript, Bootstrap, Import, Freeze, Mine, Work, OnlyClient
<1>5. CASE UNCHANGED kitaruVars
  BY <1>1, <1>5 DEF kitaruVars
<1>6. QED
  BY <1>2, <1>3, <1>4, <1>5 DEF KitaruNext

LEMMA CollectedStep ==
  ASSUME ClientInv, WorldInv, CollectedInv, [KitaruNext]_kitaruVars, opik \subseteq opik'
  PROVE  CollectedInv'
<1>1. ASSUME NEW key, NEW traces, ThreadOf(key, traces) PROVE ThreadOf(key, traces)'
  BY <1>1 DEF ThreadOf
<1>2. CASE AsksAnew
  <2>1. DOMAIN client'.collected = {}
    BY <1>2 DEF AsksAnew
  <2>2. QED
    BY <1>2, <2>1, FS_EmptySet DEF AsksAnew, CollectedInv
<1>3. CASE AsksAsBefore
  BY <1>1, <1>3 DEF AsksAsBefore, CollectedInv, ThreadOf
<1>4. ASSUME NEW request \in Requests, Import(request) PROVE CollectedInv'
  <2>1. PICK every \in SUBSET Nat : every = {t.thread : t \in opik} \ {0}
    <3>1. \A t \in opik : t.thread \in Nat
      BY ColumnKey DEF WorldInv
    <3>2. QED
      BY <3>1
  <2>2. \E wait, traces :
          client' = [Given("import", "resolve") EXCEPT !.wait = wait, !.traces = traces,
                       !.threads = IF request.traces = {} /\ request.threads = {} THEN every ELSE request.threads]
    BY <1>4, <2>1, Zenon DEF Import
  <2>3. client'.threads \in {every, request.threads} /\ client'.collected = <<>>
    BY <2>2, GivenIs, GivenRest, BlankIs DEF Fields
  <2>4. IsFiniteSet(every)
    <3>1. PICK f : f = [t \in opik |-> t.thread]
      OBVIOUS
    <3>2. {f[t] : t \in opik} = {t.thread : t \in opik} /\ DOMAIN f = opik
      BY <3>1
    <3>3. IsFiniteSet({f[t] : t \in opik})
      BY <3>2, FiniteImage DEF WorldInv
    <3>4. QED
      BY <2>1, <3>2, <3>3, FS_Difference
  <2>5. request.threads \subseteq Nat /\ IsFiniteSet(request.threads)
    BY KitaruAssumption
  <2>6. DOMAIN client'.collected = {}
    BY <2>3
  <2>7. QED
    BY <2>1, <2>3, <2>4, <2>5, <2>6, FS_EmptySet DEF CollectedInv
<1>5. CASE CollectThreads
  <2>1. PICK asked : asked = {t \in opik : t.id \in client.traces}
    OBVIOUS
  <2>2. asked \in SUBSET opik /\ client.threads \in SUBSET Nat /\ IsFiniteSet(client.threads)
    BY <2>1 DEF CollectedInv
  <2>4. \/ Fails
        \/ /\ \A key \in client.threads : ThreadTraces(key) # {} \/ \E t \in asked : ThreadKey(t) = key
           /\ \E first \in Firsts(asked) : \E all :
                 /\ all = Collected(asked, client.threads, first)
                 /\ client' = [client EXCEPT !.collected = all, !.pc = IF DOMAIN all = {} THEN "done" ELSE "sessions"]
    BY <1>5, <2>1 DEF CollectThreads
  <2>5. CASE Fails
    <3>1. AsksAnew
      BY <2>5, FailsRest, BlankIs DEF Fields, AsksAnew
    <3>2. QED
      BY <1>2, <3>1
  <2>6. CASE ~Fails
    <3>a. PICK first \in Firsts(asked) : \E all :
                 /\ all = Collected(asked, client.threads, first)
                 /\ client' = [client EXCEPT !.collected = all, !.pc = IF DOMAIN all = {} THEN "done" ELSE "sessions"]
      BY <2>4, <2>6
    <3>0. PICK all : /\ all = Collected(asked, client.threads, first)
                     /\ client' = [client EXCEPT !.collected = all, !.pc = IF DOMAIN all = {} THEN "done" ELSE "sessions"]
      BY <3>a
    <3>1. /\ DOMAIN all \subseteq Nat /\ IsFiniteSet(DOMAIN all)
          /\ \A key \in DOMAIN all : ThreadOf(key, all[key])
      <4>1. \A key \in client.threads : ThreadTraces(key) # {} \/ \E t \in asked : ThreadKey(t) = key
        BY <2>4, <2>6
      <4>2. all = Collected(asked, client.threads, first)
        BY <3>0
      <4>3. QED
        BY <2>2, <3>0, <4>1, <4>2, CollectedIs
    <3>2. client'.collected = all /\ client'.threads = client.threads
      BY <3>0 DEF ClientInv, Fields
    <3>3. QED
      BY <1>1, <3>1, <3>2 DEF CollectedInv, ThreadOf
  <2>7. QED
    BY <2>5, <2>6
<1>6. QED
  BY <1>2, <1>3, <1>4, <1>5, AsksKept

\* Only the Worker writes Sessions; jobs are filed by an import and settled by the Worker.
LEMMA ServerSteps ==
  ASSUME [KitaruNext]_kitaruVars
  PROVE  \/ sessions' = sessions /\ jobs' = jobs
         \/ FileThread /\ sessions' = sessions
         \/ \E j \in DOMAIN jobs : Work(j)
<1>1. CASE Resolve \/ CollectThreads \/ ListSessions \/ SkipThread \/ Settled \/ ResolveSessions \/ EnsureCohort
           \/ ReadMembers \/ CreateVersion \/ Reported \/ GetResource \/ ListVersions \/ Register
  BY <1>1 DEF Resolve, CollectThreads, ListSessions, SkipThread, Settled, ResolveSessions, EnsureCohort, ReadMembers,
     CreateVersion, Reported, GetResource, ListVersions, Register, OnlyClient
<1>2. CASE FileThread
  BY <1>2 DEF FileThread
<1>3. CASE \/ \E k \in Edited : EditScript(k)
           \/ \E trace \in Growth : Grow(trace)
           \/ \E dry \in BOOLEAN : Bootstrap(dry)
           \/ \E request \in Requests : Import(request)
           \/ \E experiment \in Experiments : Freeze(experiment)
           \/ \E presets \in {Presets} \union {{p} : p \in Presets} : Mine(presets)
  BY <1>3 DEF EditScript, Grow, Bootstrap, Import, Freeze, Mine, OnlyClient
<1>4. CASE UNCHANGED kitaruVars
  BY <1>4 DEF kitaruVars
<1>5. QED
  BY <1>1, <1>2, <1>3, <1>4 DEF KitaruNext, Steps

\* The job that is filed is of the thread at hand.
Filed(key) == [key |-> key, traces |-> client.collected[key], state |-> "queued"]

LEMMA SettledJob ==
  ASSUME jobs \in Seq(Job), NEW j \in DOMAIN jobs, NEW state \in {"created", "skipped", "failure"},
         jobs' = [jobs EXCEPT ![j].state = state]
  PROVE  /\ jobs' \in Seq(Job) /\ DOMAIN jobs' = DOMAIN jobs /\ Len(jobs') = Len(jobs)
         /\ jobs'[j].state = state /\ \A i \in DOMAIN jobs : i # j => jobs'[i] = jobs[i]
         /\ \A i \in DOMAIN jobs : jobs'[i].key = jobs[i].key /\ jobs'[i].traces = jobs[i].traces
<1>1. DOMAIN jobs = 1 .. Len(jobs) /\ Len(jobs) \in Nat /\ \A i \in DOMAIN jobs : jobs[i] \in Job
  OBVIOUS
<1>2. PICK one : one = [jobs[j] EXCEPT !.state = state]
  OBVIOUS
<1>3. one \in Job /\ one.key = jobs[j].key /\ one.traces = jobs[j].traces /\ one.state = state
  BY <1>1, <1>2 DEF Job
<1>4. jobs' = [jobs EXCEPT ![j] = one]
  BY <1>2
<1>5. jobs' \in Seq(Job) /\ DOMAIN jobs' = DOMAIN jobs /\ Len(jobs') = Len(jobs) /\ jobs'[j] = one
      /\ \A i \in DOMAIN jobs : i # j => jobs'[i] = jobs[i]
  BY <1>1, <1>3, <1>4
<1>6. QED
  BY <1>3, <1>5

LEMMA JobsStep ==
  ASSUME TracesInv, [KitaruNext]_kitaruVars, opik \subseteq opik',
         FileThread => Head(client.left) \in DOMAIN client.collected
  PROVE  JobsInv' /\ sessions' \in Seq(AnySession)
<1>1. ASSUME NEW key, NEW traces, ThreadOf(key, traces) PROVE ThreadOf(key, traces)'
  BY <1>1 DEF ThreadOf
<1>2. jobs \in Seq(Job) /\ (\A j \in DOMAIN jobs : ThreadOf(jobs[j].key, jobs[j].traces)) /\ sessions \in Seq(AnySession)
  BY DEF TracesInv, JobsInv
<1>3. CASE sessions' = sessions /\ jobs' = jobs
  BY <1>2, <1>3 DEF JobsInv, ThreadOf
<1>4. CASE FileThread /\ sessions' = sessions
  <2>1. PICK key : key = Head(client.left)
    OBVIOUS
  <2>2. key \in Nat /\ ThreadOf(key, client.collected[key])
    BY <1>4, <2>1 DEF TracesInv, CollectedInv
  <2>3. PICK one : one = Filed(key)
    OBVIOUS
  <2>4. one \in Job /\ one.key = key /\ one.traces = client.collected[key]
    <3>1. client.collected[key] \subseteq Trace
      BY <2>2 DEF ThreadOf, TracesInv, WorldInv
    <3>2. QED
      BY <2>2, <2>3, <3>1 DEF Filed, Job
  <2>5. jobs' = jobs \/ jobs' = Append(jobs, one)
    BY <1>4, <2>1, <2>3 DEF FileThread, Filed
  <2>6. CASE jobs' = Append(jobs, one)
    <3>1. /\ jobs' \in Seq(Job) /\ DOMAIN jobs' = 1 .. (Len(jobs) + 1)
          /\ \A j \in 1 .. Len(jobs) : jobs'[j] = jobs[j]
          /\ jobs'[Len(jobs) + 1] = one /\ Len(jobs) \in Nat
      BY <1>2, <2>4, <2>6
    <3>2. \A j \in DOMAIN jobs' : ThreadOf(jobs'[j].key, jobs'[j].traces)
      BY <1>2, <2>2, <2>4, <3>1
    <3>3. QED
      BY <1>1, <1>2, <1>4, <3>1, <3>2 DEF JobsInv, ThreadOf
  <2>7. CASE jobs' = jobs
    BY <1>3, <1>4, <2>7
  <2>8. QED
    BY <2>5, <2>6, <2>7
<1>5. ASSUME NEW j \in DOMAIN jobs, Work(j) PROVE JobsInv' /\ sessions' \in Seq(AnySession)
  <2>1. PICK state \in {"created", "skipped", "failure"} : jobs' = [jobs EXCEPT ![j].state = state]
    BY <1>5, WorkIs
  <2>2. jobs' \in Seq(Job) /\ DOMAIN jobs' = DOMAIN jobs
        /\ \A i \in DOMAIN jobs : jobs'[i].key = jobs[i].key /\ jobs'[i].traces = jobs[i].traces
    BY <1>2, <2>1, SettledJob
  <2>3. JobsInv'
    BY <1>2, <2>2 DEF JobsInv, ThreadOf
  <2>4. jobs[j] \in Job /\ ThreadOf(jobs[j].key, jobs[j].traces)
    BY <1>2
  <2>5. Made(jobs[j]) \in AnySession
    <3>1. PICK one \in Job : one = jobs[j]
      BY <2>4
    <3>2. one.traces \subseteq Trace /\ IsFiniteSet(one.traces) /\ \A t, u \in one.traces : t.id = u.id => t = u
      BY <2>4, <3>1 DEF ThreadOf, TracesInv, WorldInv
    <3>3. QED
      BY <3>1, <3>2, MadeIs
  <2>6. sessions' \in Seq(AnySession)
    <3>1. sessions' = sessions \/ sessions' = Append(sessions, Made(jobs[j]))
      BY <1>5, WorkIs
    <3>2. QED
      BY <1>2, <2>5, <3>1, AppendProperties
  <2>7. QED
    BY <2>3, <2>6
<1>6. QED
  BY <1>3, <1>4, <1>5, ServerSteps

LEMMA TracesInit ==
  ASSUME KitaruInit, OneTraceAnId
  PROVE  TracesInv
<1>1. opik \in Projects /\ sessions \in Held /\ jobs = <<>> /\ client = Idle
  BY DEF KitaruInit
<1>2. ClientInv
  BY <1>1, IdleIs DEF ClientInv, Course
<1>3. WorldInv
  BY <1>1, KitaruAssumption DEF WorldInv, OneTraceAnId
<1>4. CollectedInv
  BY <1>1, BlankIs, FS_EmptySet DEF CollectedInv
<1>5. JobsInv
  BY <1>1 DEF JobsInv
<1>6. sessions \in Seq(AnySession)
  <2>1. sessions \in Seq(KitaruSession)
    BY <1>1, KitaruAssumption
  <2>2. \A s \in KitaruSession : s \in AnySession
    BY DEF AnySession
  <2>3. QED
    BY <2>1, <2>2
<1>7. QED
  BY <1>2, <1>3, <1>4, <1>5, <1>6 DEF TracesInv

-----------------------------------------------------------------------------
(* An import, line by line *)

\* Each thread that was collected has its line or is still to come; the one that is waited
\* for is the job filed last.
LineInv == client.command = "import" =>
    /\ client.pc \in {"resolve", "collect", "sessions"} => DOMAIN client.outcomes = {}
    /\ client.pc = "sessions" => DOMAIN client.collected # {}
    /\ client.pc \in {"thread", "waiting"} =>
          /\ client.left \in Seq(Nat) /\ client.left # <<>>
          /\ DOMAIN client.outcomes \union ToSet(client.left) = DOMAIN client.collected
          /\ client.known \in 0 .. Len(sessions)
    /\ client.pc = "waiting" =>
          /\ jobs # <<>> /\ Last(jobs).key = Head(client.left)
          /\ Last(jobs).traces = client.collected[Head(client.left)]
    /\ client.pc = "done" => DOMAIN client.outcomes = DOMAIN client.collected

LEMMA ImportSteps ==
  ASSUME ClientInv, [KitaruNext]_kitaruVars, client'.command = "import"
  PROVE  \/ \E request \in Requests : Import(request)
         \/ /\ client.command = "import"
            /\ UNCHANGED client \/ Resolve \/ CollectThreads \/ ListSessions \/ SkipThread \/ FileThread \/ Settled
<1>1. DOMAIN client = Fields /\ client.pc \in Course(client.command)
      /\ client.command \in {"none", "bootstrap", "import", "cohort", "mine"}
  BY DEF ClientInv
<1>2. CASE UNCHANGED client
  BY <1>2
<1>3. ASSUME NEW dry \in BOOLEAN, Bootstrap(dry) PROVE FALSE
  <2>1. client' = [Given("bootstrap", "get") EXCEPT !.left = Kinds, !.dry = dry]
    BY <1>3 DEF Bootstrap
  <2>2. client'.command = "bootstrap"
    BY <2>1, GivenIs DEF Fields
  <2>3. QED
    BY <2>2
<1>4. ASSUME NEW experiment \in Experiments, Freeze(experiment) PROVE FALSE
  <2>1. \/ \E trials : client' = [Given("cohort", "sessions") EXCEPT !.trials = trials]
        \/ \E given : client' = [Idle EXCEPT !.given = given]
    BY <1>4, Zenon DEF Freeze
  <2>2. QED
    BY <2>1, GivenIs, IdleIs DEF Fields
<1>5. ASSUME NEW presets, Mine(presets) PROVE FALSE
  <2>1. \E report : client' = [Given("mine", "done") EXCEPT !.report = report]
    BY <1>5, Zenon DEF Mine
  <2>2. QED
    BY <2>1, GivenIs DEF Fields
<1>6. CASE GetResource \/ ListVersions \/ Register
  <2>1. client.command = "bootstrap"
    BY <1>1, <1>6 DEF GetResource, ListVersions, Register, At, Course
  <2>2. client'.command \in {"none", client.command}
    <3>1. ASSUME NEW pc, Goes(pc) PROVE client'.command = client.command
      BY <1>1, <3>1, GoesIs DEF Keeps, Fields
    <3>2. ASSUME NextKind PROVE client'.command = client.command
      BY <1>1, <3>2, NextKindIs DEF Keeps, Fields
    <3>3. ASSUME Fails PROVE client'.command = "none"
      BY <3>3, FailsIs
    <3>4. QED
      BY <1>6, <3>1, <3>2, <3>3 DEF GetResource, ListVersions, Register
  <2>3. QED
    BY <2>1, <2>2
<1>7. CASE Reported
  BY <1>7, FailsIs DEF Reported
<1>8. CASE ResolveSessions \/ EnsureCohort \/ ReadMembers \/ CreateVersion
  <2>1. client.command = "cohort"
    BY <1>1, <1>8 DEF ResolveSessions, EnsureCohort, ReadMembers, CreateVersion, At, Course
  <2>2. client'.command \in {"none", client.command}
    BY <1>1, <1>8, CommandKept
  <2>3. QED
    BY <2>1, <2>2
<1>9. CASE Resolve \/ CollectThreads \/ ListSessions \/ SkipThread \/ FileThread \/ Settled
  <2>1. client'.command \in {"none", client.command}
    BY <1>1, <1>9, CommandKept
  <2>2. QED
    BY <1>9, <2>1
<1>10. CASE (\E k \in Edited : EditScript(k)) \/ (\E trace \in Growth : Grow(trace)) \/ (\E j \in DOMAIN jobs : Work(j))
  BY <1>2, <1>10 DEF EditScript, Grow, Work
<1>11. QED
  BY <1>2, <1>3, <1>4, <1>5, <1>6, <1>7, <1>8, <1>9, <1>10 DEF KitaruNext, Steps, kitaruVars

\* The thread at hand gets its line.
LEMMA LineSays ==
  ASSUME ClientInv, LineInv, client.command = "import", client.pc \in {"thread", "waiting"},
         NEW status, Says(Head(client.left), status),
         client.known <= Len(sessions'), Len(sessions') \in Nat
  PROVE  LineInv'
<1> DEFINE key == Head(client.left)
<1>1. /\ Keeps({"pc", "left", "outcomes"}) /\ client'.left = Tail(client.left)
      /\ client'.pc = IF Len(client.left) = 1 THEN "done" ELSE "thread"
      /\ client'.outcomes = [k \in DOMAIN client.outcomes \union {key} |-> IF k = key THEN status ELSE client.outcomes[k]]
  BY SaysOfHead DEF ClientInv
<1>2. client'.command = "import" /\ client'.collected = client.collected /\ client'.known = client.known
  BY <1>1 DEF Keeps, Fields
<1>3. /\ client.left \in Seq(Nat) /\ client.left # <<>>
      /\ DOMAIN client.outcomes \union ToSet(client.left) = DOMAIN client.collected
      /\ client.known \in 0 .. Len(sessions)
  BY DEF LineInv
<1>4. /\ Tail(client.left) \in Seq(Nat) /\ ToSet(client.left) = {key} \union ToSet(Tail(client.left))
      /\ Tail(client.left) = <<>> <=> Len(client.left) = 1
  BY <1>3, HeadAndTail
<1>5. DOMAIN client'.outcomes = DOMAIN client.outcomes \union {key}
  BY <1>1
<1>6. DOMAIN client'.outcomes \union ToSet(client'.left) = DOMAIN client'.collected
  BY <1>1, <1>2, <1>3, <1>4, <1>5
<1>7. CASE Len(client.left) = 1
  <2>1. client'.left = <<>> /\ client'.pc = "done"
    BY <1>1, <1>4, <1>7
  <2>2. ToSet(client'.left) = {}
    <3>1. ToSet(<<>>) = {}
      BY DEF ToSet
    <3>2. QED
      BY <2>1, <3>1
  <2>3. QED
    BY <1>6, <2>1, <2>2 DEF LineInv
<1>8. CASE Len(client.left) # 1
  <2>1. client'.left # <<>> /\ client'.pc = "thread" /\ client'.left \in Seq(Nat)
    BY <1>1, <1>4, <1>8
  <2>2. client'.known \in 0 .. Len(sessions')
    BY <1>2, <1>3
  <2>3. QED
    BY <1>6, <2>1, <2>2 DEF LineInv
<1>9. QED
  BY <1>7, <1>8

LEMMA MadeHolds ==
  ASSUME TracesInv, NEW j \in DOMAIN jobs
  PROVE  /\ Made(jobs[j]) \in AnySession /\ Made(jobs[j]).key = jobs[j].key
         /\ ToSet(Made(jobs[j]).turns) = {t.id : t \in jobs[j].traces}
<1>1. jobs[j] \in Job /\ ThreadOf(jobs[j].key, jobs[j].traces)
  BY DEF TracesInv, JobsInv
<1>2. PICK one \in Job : one = jobs[j]
  BY <1>1
<1>3. one.traces \subseteq Trace /\ IsFiniteSet(one.traces) /\ \A t, u \in one.traces : t.id = u.id => t = u
  BY <1>1, <1>2 DEF ThreadOf, TracesInv, WorldInv
<1>4. QED
  BY <1>2, <1>3, MadeIs

\* The Sessions there are stay, and one more may come: of a thread that has none, and of
\* all the traces of its job.
LEMMA SessionsGrow ==
  ASSUME TracesInv, [KitaruNext]_kitaruVars
  PROVE  \/ sessions' = sessions
         \/ \E j \in DOMAIN jobs : sessions' = Append(sessions, Made(jobs[j])) /\ ~Known(jobs[j].key)
BY ServerSteps, WorkIs

LEMMA AddedSession ==
  ASSUME sessions \in Seq(AnySession), NEW m \in AnySession, sessions' = Append(sessions, m)
  PROVE  /\ sessions' \in Seq(AnySession) /\ Len(sessions) \in Nat /\ Len(sessions') = Len(sessions) + 1
         /\ DOMAIN sessions = 1 .. Len(sessions) /\ DOMAIN sessions' = 1 .. (Len(sessions) + 1)
         /\ \A i \in DOMAIN sessions : sessions'[i] = sessions[i]
         /\ sessions'[Len(sessions) + 1] = m
         /\ DOMAIN sessions \subseteq DOMAIN sessions'
         /\ \A i \in DOMAIN sessions' : i \in DOMAIN sessions \/ i = Len(sessions) + 1
  OBVIOUS

LEMMA MoreSessions ==
  ASSUME TracesInv, [KitaruNext]_kitaruVars
  PROVE  Len(sessions) \in Nat /\ Len(sessions') \in Nat /\ Len(sessions) <= Len(sessions')
<1>1. sessions \in Seq(AnySession) /\ Len(sessions) \in Nat
  BY DEF TracesInv
<1>2. CASE sessions' = sessions
  BY <1>1, <1>2
<1>3. ASSUME NEW j \in DOMAIN jobs, sessions' = Append(sessions, Made(jobs[j]))
      PROVE  Len(sessions') \in Nat /\ Len(sessions) <= Len(sessions')
  <2>1. Made(jobs[j]) \in AnySession
    BY MadeHolds
  <2>2. QED
    BY <1>1, <1>3, <2>1, AddedSession
<1>4. QED
  BY <1>1, <1>2, <1>3, SessionsGrow

\* The line of a command that is not at a thread of its own.
LEMMA LineStays ==
  ASSUME LineInv, client' = client, jobs' = jobs, Len(sessions) \in Nat, Len(sessions') \in Nat,
         Len(sessions) <= Len(sessions')
  PROVE  LineInv'
BY DEF LineInv

LEMMA ListSessionsLine ==
  ASSUME TracesInv, LineInv, client.command = "import", ListSessions, client'.command = "import"
  PROVE  LineInv'
<1>1. PICK left : left = Ranked(DOMAIN client.collected, <)
  OBVIOUS
<1>2. ~Fails
  BY FailsIs
<1>3. client' = [client EXCEPT !.known = Len(sessions), !.pc = "thread", !.left = left]
  BY <1>1, <1>2, Zenon DEF ListSessions
<1>4. /\ client'.known = Len(sessions) /\ client'.pc = "thread" /\ client'.left = left
      /\ client'.outcomes = client.outcomes /\ client'.collected = client.collected
  BY <1>3 DEF TracesInv, ClientInv, Fields
<1>5. sessions' = sessions /\ Len(sessions) \in Nat
  BY DEF ListSessions, OnlyClient, TracesInv
<1>6. client.pc = "sessions"
  BY DEF ListSessions, At
<1>7. DOMAIN client.outcomes = {} /\ DOMAIN client.collected # {}
  BY <1>6 DEF LineInv
<1>8. DOMAIN client.collected \in SUBSET Int /\ DOMAIN client.collected \in SUBSET Nat /\ IsFiniteSet(DOMAIN client.collected)
  BY DEF TracesInv, CollectedInv
<1>9. left \in Seq(DOMAIN client.collected) /\ ToSet(left) = DOMAIN client.collected
  BY <1>1, <1>8, KeysInOrder
<1>10. left # <<>>
  <2>1. ToSet(<<>>) = {}
    BY DEF ToSet
  <2>2. QED
    BY <1>7, <1>9, <2>1
<1>11. left \in Seq(Nat)
  BY <1>8, <1>9
<1>12. client'.known \in 0 .. Len(sessions')
  BY <1>4, <1>5
<1>13. DOMAIN client'.outcomes \union ToSet(client'.left) = DOMAIN client'.collected
  BY <1>4, <1>7, <1>9
<1>14. QED
  BY <1>4, <1>10, <1>11, <1>12, <1>13 DEF LineInv

LEMMA FileThreadLine ==
  ASSUME TracesInv, LineInv, client.command = "import", FileThread
  PROVE  LineInv'
<1>1. DOMAIN client = Fields /\ client.pc = "thread" /\ sessions' = sessions /\ Len(sessions) \in Nat
      /\ jobs \in Seq(Job)
  BY DEF TracesInv, ClientInv, FileThread, At, JobsInv
<1>2. PICK key : key = Head(client.left)
  OBVIOUS
<1>3. PICK one : one = Filed(key)
  OBVIOUS
<1>4. \/ jobs' = Append(jobs, one) /\ Goes("waiting")
      \/ \E status : Says(key, status)
  BY <1>2, <1>3 DEF FileThread, Filed
<1>5. CASE jobs' = Append(jobs, one) /\ Goes("waiting")
  <2>1. Keeps({"pc"}) /\ client'.pc = "waiting"
    BY <1>1, <1>5, GoesIs
  <2>2. /\ client'.command = "import" /\ client'.left = client.left /\ client'.outcomes = client.outcomes
        /\ client'.collected = client.collected /\ client'.known = client.known
    BY <2>1 DEF Keeps, Fields
  <2>3. /\ client.left \in Seq(Nat) /\ client.left # <<>>
        /\ DOMAIN client.outcomes \union ToSet(client.left) = DOMAIN client.collected
        /\ client.known \in 0 .. Len(sessions)
    BY <1>1 DEF LineInv
  <2>4. key \in DOMAIN client.collected /\ key \in Nat
    BY <1>2, <2>3, HeadAndTail
  <2>5. one.key = key /\ one.traces = client.collected[key] /\ one \in Job
    <3>1. client.collected[key] \subseteq Trace
      BY <2>4 DEF TracesInv, CollectedInv, ThreadOf, WorldInv
    <3>2. QED
      BY <1>3, <2>4, <3>1 DEF Filed, Job
  <2>6. jobs' # <<>> /\ Last(jobs') = one
    BY <1>1, <1>5, <2>5 DEF Last
  <2>7. QED
    BY <1>1, <1>2, <2>1, <2>2, <2>3, <2>5, <2>6 DEF LineInv
<1>6. ASSUME NEW status, Says(key, status) PROVE LineInv'
  <2>1. client.known <= Len(sessions') /\ Len(sessions') \in Nat
    BY <1>1 DEF LineInv
  <2>2. QED
    BY <1>1, <1>2, <1>6, <2>1, LineSays DEF TracesInv
<1>7. QED
  BY <1>4, <1>5, <1>6

LEMMA WorkLine ==
  ASSUME TracesInv, LineInv, NEW j \in DOMAIN jobs, Work(j), Len(sessions) <= Len(sessions'), Len(sessions') \in Nat
  PROVE  LineInv'
<1>1. PICK state \in {"created", "skipped", "failure"} : jobs' = [jobs EXCEPT ![j].state = state]
  BY WorkIs
<1>2. jobs \in Seq(Job) /\ client' = client /\ Len(sessions) \in Nat
  BY DEF TracesInv, JobsInv, Work
<1>3. /\ jobs' \in Seq(Job) /\ DOMAIN jobs' = DOMAIN jobs /\ Len(jobs') = Len(jobs)
      /\ \A i \in DOMAIN jobs : jobs'[i].key = jobs[i].key /\ jobs'[i].traces = jobs[i].traces
  BY <1>1, <1>2, SettledJob
<1>4. jobs # <<>> => jobs' # <<>> /\ Last(jobs').key = Last(jobs).key /\ Last(jobs').traces = Last(jobs).traces
  <2>1. ASSUME jobs # <<>> PROVE Len(jobs) \in DOMAIN jobs /\ Len(jobs) # 0
    BY <1>2, <2>1
  <2>2. QED
    BY <1>2, <1>3, <2>1 DEF Last
<1>5. QED
  BY <1>2, <1>4 DEF LineInv

LEMMA LineStep ==
  ASSUME TracesInv, LineInv, [KitaruNext]_kitaruVars
  PROVE  LineInv'
<1> SUFFICES ASSUME client'.command = "import" PROVE LineInv'
  BY DEF LineInv
<1>1. Len(sessions) \in Nat /\ Len(sessions') \in Nat /\ Len(sessions) <= Len(sessions')
  BY MoreSessions
<1>2. ClientInv /\ DOMAIN client = Fields
  BY DEF TracesInv, ClientInv
<1>3. ~Fails
  BY FailsIs
<1>4. ASSUME NEW request \in Requests, Import(request) PROVE LineInv'
  <2>1. \E wait, traces, threads :
          client' = [Given("import", "resolve") EXCEPT !.wait = wait, !.traces = traces, !.threads = threads]
    BY <1>4, Zenon DEF Import
  <2>2. client'.pc = "resolve" /\ DOMAIN client'.outcomes = {}
    BY <2>1, GivenIs, GivenRest, BlankIs DEF Fields
  <2>3. QED
    BY <2>2 DEF LineInv
<1>5. CASE client.command = "import" /\ Resolve
  <2>1. Goes("collect") /\ client.pc = "resolve"
    BY <1>3, <1>5 DEF Resolve, At
  <2>2. client'.pc = "collect" /\ client'.outcomes = client.outcomes
    BY <1>2, <2>1, GoesIs DEF Keeps, Fields
  <2>3. QED
    BY <1>5, <2>1, <2>2 DEF LineInv
<1>6. CASE client.command = "import" /\ CollectThreads
  <2>1. \E all : client' = [client EXCEPT !.collected = all, !.pc = IF DOMAIN all = {} THEN "done" ELSE "sessions"]
    BY <1>3, <1>6, Zenon DEF CollectThreads
  <2>2. client.pc = "collect"
    BY <1>6 DEF CollectThreads, At
  <2>3. /\ client'.outcomes = client.outcomes
        /\ client'.pc = IF DOMAIN client'.collected = {} THEN "done" ELSE "sessions"
    BY <1>2, <2>1 DEF Fields
  <2>4. DOMAIN client'.outcomes = {}
    BY <1>6, <2>2, <2>3 DEF LineInv
  <2>5. QED
    BY <2>3, <2>4 DEF LineInv
<1>7. CASE client.command = "import" /\ ListSessions
  BY <1>7, ListSessionsLine
<1>8. CASE client.command = "import" /\ FileThread
  BY <1>8, FileThreadLine
<1>9. ASSUME client.command = "import", client.pc \in {"thread", "waiting"},
             NEW status, Says(Head(client.left), status)
      PROVE  LineInv'
  <2>1. client.known <= Len(sessions')
    BY <1>1, <1>9 DEF LineInv
  <2>2. QED
    BY <1>1, <1>2, <1>9, <2>1, LineSays
<1>10. CASE client.command = "import" /\ (SkipThread \/ Settled)
  <2>1. client.pc \in {"thread", "waiting"}
    BY <1>10 DEF SkipThread, Settled, At
  <2>2. \E status : Says(Head(client.left), status)
    BY <1>3, <1>10 DEF SkipThread, Settled
  <2>3. QED
    BY <1>9, <1>10, <2>1, <2>2
<1>11. CASE client.command = "import" /\ UNCHANGED client
  <2>1. CASE sessions' = sessions /\ jobs' = jobs
    BY <1>1, <1>11, <2>1, LineStays
  <2>2. CASE FileThread
    BY <1>8, <1>11, <2>2
  <2>3. ASSUME NEW j \in DOMAIN jobs, Work(j) PROVE LineInv'
    BY <1>1, <2>3, WorkLine
  <2>4. QED
    BY <2>1, <2>2, <2>3, ServerSteps
<1>12. QED
  BY <1>2, <1>4, <1>5, <1>6, <1>7, <1>8, <1>10, <1>11, ImportSteps

\* What is filed is a thread that was collected.
LEMMA FilesCollected ==
  ASSUME ClientInv, LineInv, FileThread
  PROVE  Head(client.left) \in DOMAIN client.collected
<1>1. client.command = "import" /\ client.pc = "thread"
  BY DEF ClientInv, FileThread, At, Course
<1>2. client.left \in Seq(Nat) /\ client.left # <<>> /\ ToSet(client.left) \subseteq DOMAIN client.collected
  BY <1>1 DEF LineInv
<1>3. QED
  BY <1>2, HeadAndTail

ImportInv == TracesInv /\ LineInv

LEMMA ImportStep ==
  ASSUME ImportInv, [KitaruNext]_kitaruVars, OneTraceAnId
  PROVE  ImportInv' /\ opik \subseteq opik'
<1>1. TracesInv /\ LineInv /\ ClientInv /\ WorldInv /\ CollectedInv
  BY DEF ImportInv, TracesInv
<1>2. LineInv'
  BY <1>1, LineStep
<1>3. WorldInv' /\ opik \subseteq opik'
  BY <1>1, WorldStep
<1>4. CollectedInv'
  BY <1>1, <1>3, CollectedStep
<1>5. JobsInv' /\ sessions' \in Seq(AnySession)
  BY <1>1, <1>3, FilesCollected, JobsStep
<1>6. ClientInv'
  BY <1>1, ClientStep
<1>7. QED
  BY <1>2, <1>3, <1>4, <1>5, <1>6 DEF ImportInv, TracesInv

LEMMA ImportInit ==
  ASSUME KitaruInit, OneTraceAnId
  PROVE  ImportInv
<1>1. client.command # "import"
  BY IdleIs DEF KitaruInit
<1>2. QED
  BY <1>1, TracesInit DEF ImportInv, LineInv

-----------------------------------------------------------------------------
(* A cohort *)

\* A Session of a trial that failed.
OfFailure(i) == \E e \in Experiments : \E t \in e.trials :
    /\ i \in DOMAIN sessions /\ t.score # 1 /\ t.status = "agent_fail"
    /\ t.kitaru = i \/ t.session = sessions[i].name
Cohort == [there : BOOLEAN, versions : Seq(SUBSET Int)]

CohortInv ==
    /\ cohort \in Cohort
    /\ \A t \in client.trials : \E e \in Experiments : t \in FailedTrials(e.trials)
    /\ \A i \in client.add : OfFailure(i)
    /\ \A v \in DOMAIN cohort.versions : \A i \in cohort.versions[v] : OfFailure(i)
    /\ \A v \in 2 .. Len(cohort.versions) :
          cohort.versions[v - 1] # cohort.versions[v] /\ cohort.versions[v - 1] \subseteq cohort.versions[v]
    /\ client.pc = "version" => client.add # {} /\ client.add \intersect Members = {}

AddsAnew == client'.trials = {} /\ client'.add = {} /\ client'.pc # "version"
AddsAsBefore == client'.trials = client.trials /\ client'.add = client.add
                /\ (client'.pc # "version" \/ client'.pc = client.pc)

LEMMA AddsKept ==
  ASSUME ClientInv, [KitaruNext]_kitaruVars
  PROVE  \/ AddsAnew \/ AddsAsBefore
         \/ ResolveSessions \/ ReadMembers \/ \E experiment \in Experiments : Freeze(experiment)
<1>1. DOMAIN client = Fields
  BY DEF ClientInv
<1>2. ASSUME Fails PROVE AddsAnew
  BY <1>2, FailsRest, FailsIs, BlankIs DEF AddsAnew, Fields
<1>3. ASSUME NEW fs \in SUBSET (Fields \ {"trials", "add"}), Keeps(fs), client'.pc # "version" PROVE AddsAsBefore
  BY <1>3 DEF Keeps, Fields, AddsAsBefore
<1>4. ASSUME NEW pc, Goes(pc), pc # "version" PROVE AddsAsBefore
  BY <1>1, <1>3, <1>4, GoesIs DEF Fields
<1>5. ASSUME NextKind PROVE AddsAsBefore
  BY <1>1, <1>3, <1>5, NextKindIs DEF Fields
<1>6. ASSUME NEW key, NEW status, Says(key, status) PROVE AddsAsBefore
  BY <1>1, <1>3, <1>6, SaysIs DEF Fields
<1>7. ASSUME NEW dry \in BOOLEAN, Bootstrap(dry) PROVE AddsAnew
  <2>1. client' = [Given("bootstrap", "get") EXCEPT !.left = Kinds, !.dry = dry]
    BY <1>7 DEF Bootstrap
  <2>2. QED
    BY <2>1, GivenRest, GivenIs, BlankIs DEF Fields, AddsAnew
<1>8. ASSUME NEW request \in Requests, Import(request) PROVE AddsAnew
  <2>1. \E wait, traces, threads :
          client' = [Given("import", "resolve") EXCEPT !.wait = wait, !.traces = traces, !.threads = threads]
    BY <1>8, Zenon DEF Import
  <2>2. QED
    BY <2>1, GivenRest, GivenIs, BlankIs DEF Fields, AddsAnew
<1>9. ASSUME NEW presets, Mine(presets) PROVE AddsAnew
  <2>1. \E report : client' = [Given("mine", "done") EXCEPT !.report = report]
    BY <1>9, Zenon DEF Mine
  <2>2. QED
    BY <2>1, GivenRest, GivenIs, BlankIs DEF Fields, AddsAnew
<1>10. CASE ListSessions
  <2>1. \/ Fails
        \/ \E left, known : client' = [client EXCEPT !.known = known, !.pc = "thread", !.left = left]
    BY <1>10, Zenon DEF ListSessions
  <2>2. ASSUME NEW left, NEW known, client' = [client EXCEPT !.known = known, !.pc = "thread", !.left = left]
        PROVE  AddsAsBefore
    BY <1>1, <2>2 DEF Fields, AddsAsBefore
  <2>3. QED
    BY <1>2, <2>1, <2>2
<1>11. CASE CollectThreads
  <2>1. \/ Fails
        \/ \E all : client' = [client EXCEPT !.collected = all, !.pc = IF DOMAIN all = {} THEN "done" ELSE "sessions"]
    BY <1>11, Zenon DEF CollectThreads
  <2>2. ASSUME NEW all, client' = [client EXCEPT !.collected = all, !.pc = IF DOMAIN all = {} THEN "done" ELSE "sessions"]
        PROVE  AddsAsBefore
    BY <1>1, <2>2 DEF Fields, AddsAsBefore
  <2>3. QED
    BY <1>2, <2>1, <2>2
<1>12. CASE GetResource \/ ListVersions \/ Register
  <2>1. "create" # "version" /\ "list" # "version" /\ "register" # "version" /\ "unread" # "version"
    OBVIOUS
  <2>2. QED
    BY <1>2, <1>4, <1>5, <1>12, <2>1 DEF GetResource, ListVersions, Register
<1>13. CASE Resolve \/ SkipThread \/ FileThread \/ Settled
  BY <1>2, <1>4, <1>6, <1>13 DEF Resolve, SkipThread, FileThread, Settled
<1>14. CASE EnsureCohort \/ CreateVersion \/ Reported
  BY <1>2, <1>4, <1>14 DEF EnsureCohort, CreateVersion, Reported
<1>15. CASE UNCHANGED client
  BY <1>15 DEF AddsAsBefore
<1>16. CASE (\E k \in Edited : EditScript(k)) \/ (\E trace \in Growth : Grow(trace)) \/ (\E j \in DOMAIN jobs : Work(j))
  BY <1>15, <1>16 DEF EditScript, Grow, Work
<1>17. CASE Steps
  BY <1>10, <1>11, <1>12, <1>13, <1>14, <1>17 DEF Steps
<1>18. QED
  BY <1>7, <1>8, <1>9, <1>15, <1>16, <1>17 DEF KitaruNext, kitaruVars

LEMMA FailureStays ==
  ASSUME TracesInv, [KitaruNext]_kitaruVars, NEW i, OfFailure(i)
  PROVE  OfFailure(i)'
<1>1. CASE sessions' = sessions
  BY <1>1 DEF OfFailure
<1>2. ASSUME NEW m \in AnySession, sessions' = Append(sessions, m) PROVE OfFailure(i)'
  <2>1. i \in DOMAIN sessions
    BY DEF OfFailure
  <2>2. i \in DOMAIN sessions' /\ sessions'[i] = sessions[i]
    BY <1>2, <2>1, AddedSession DEF TracesInv
  <2>3. QED
    BY <2>2 DEF OfFailure
<1>3. QED
  BY <1>1, <1>2, SessionsGrow, MadeHolds

\* A trial that was graded nought was the agent's own failure.
LEMMA FailedIs ==
  ASSUME GradesAgree, NEW e \in Experiments, NEW t \in FailedTrials(e.trials)
  PROVE  t \in e.trials /\ t.score # 1 /\ t.status = "agent_fail"
<1>1. t \in e.trials /\ t.status # "infra_error" /\ ItemReward(t) = 0
  BY DEF FailedTrials
<1>2. t.status \in {"agent_ok", "agent_fail", "infra_error"}
  BY <1>1, KitaruAssumption DEF ExperimentTrial
<1>3. t.score # 1
  BY <1>1 DEF ItemReward, None
<1>4. t.status # "agent_ok"
  <2>1. ASSUME t.status = "agent_ok" PROVE FALSE
    <3>1. t.reward = 1 /\ t.score \in {None, 1}
      BY <1>1, <2>1 DEF GradesAgree
    <3>2. QED
      BY <1>1, <3>1 DEF ItemReward, None
  <2>2. QED
    BY <2>1
<1>5. QED
  BY <1>1, <1>2, <1>3, <1>4

LEMMA ResolvedIs ==
  ASSUME NEW t, NEW i \in Resolved(t)
  PROVE  i \in DOMAIN sessions /\ (t.kitaru = i \/ t.session = sessions[i].name)
BY DEF Resolved

LEMMA ResolveKeeps ==
  ASSUME TracesInv, CohortInv, GradesAgree, ResolveSessions
  PROVE  CohortInv'
<1>1. DOMAIN client = Fields /\ cohort' = cohort /\ sessions' = sessions
  BY DEF TracesInv, ClientInv, ResolveSessions, OnlyClient
<1>2. PICK found : found = UNION {Resolved(t) : t \in client.trials}
  OBVIOUS
<1>3. Fails \/ client' = [client EXCEPT !.add = found, !.pc = "cohort"]
  BY <1>2, Zenon DEF ResolveSessions
<1>4. CASE Fails
  <2>1. client'.trials = {} /\ client'.add = {} /\ client'.pc # "version"
    BY <1>4, FailsRest, FailsIs, BlankIs DEF Fields
  <2>2. QED
    BY <1>1, <2>1 DEF CohortInv, OfFailure
<1>5. CASE client' = [client EXCEPT !.add = found, !.pc = "cohort"]
  <2>1. client'.trials = client.trials /\ client'.add = found /\ client'.pc # "version"
    BY <1>1, <1>5 DEF Fields
  <2>2. ASSUME NEW i \in found PROVE OfFailure(i)
    <3>1. PICK t \in client.trials : i \in Resolved(t)
      BY <1>2, <2>2
    <3>2. PICK e \in Experiments : t \in FailedTrials(e.trials)
      BY <3>1 DEF CohortInv
    <3>3. t \in e.trials /\ t.score # 1 /\ t.status = "agent_fail"
      BY <3>2, FailedIs
    <3>4. QED
      BY <3>1, <3>3, ResolvedIs DEF OfFailure
  <2>3. \A i \in client'.add : OfFailure(i)'
    BY <1>1, <2>1, <2>2 DEF OfFailure
  <2>4. QED
    BY <1>1, <2>1, <2>3 DEF CohortInv, OfFailure
<1>6. QED
  BY <1>3, <1>4, <1>5

LEMMA ReadKeeps ==
  ASSUME TracesInv, CohortInv, ReadMembers
  PROVE  CohortInv'
<1>1. DOMAIN client = Fields /\ cohort' = cohort /\ sessions' = sessions
  BY DEF TracesInv, ClientInv, ReadMembers, OnlyClient
<1>2. PICK more : more = client.add \ Members
  OBVIOUS
<1>3. Fails \/ client' = [client EXCEPT !.add = more, !.pc = IF more = {} THEN "done" ELSE "version"]
  BY <1>2, Zenon DEF ReadMembers, Additions
<1>4. CASE Fails
  <2>1. client'.trials = {} /\ client'.add = {} /\ client'.pc # "version"
    BY <1>4, FailsRest, FailsIs, BlankIs DEF Fields
  <2>2. QED
    BY <1>1, <2>1 DEF CohortInv, OfFailure
<1>5. CASE client' = [client EXCEPT !.add = more, !.pc = IF more = {} THEN "done" ELSE "version"]
  <2>1. client'.trials = client.trials /\ client'.add = more /\ (client'.pc = "version" => more # {})
    BY <1>1, <1>5 DEF Fields
  <2>2. more \intersect Members = {} /\ Members' = Members
    BY <1>1, <1>2 DEF Members
  <2>3. \A i \in more : OfFailure(i)
    BY <1>2 DEF CohortInv
  <2>4. QED
    BY <1>1, <2>1, <2>2, <2>3 DEF CohortInv, OfFailure
<1>6. QED
  BY <1>3, <1>4, <1>5

LEMMA FreezeKeeps ==
  ASSUME TracesInv, CohortInv, NEW experiment \in Experiments, Freeze(experiment)
  PROVE  CohortInv'
<1>1. cohort' = cohort /\ sessions' = sessions
  BY DEF Freeze, OnlyClient
<1>2. \/ client' = [Given("cohort", "sessions") EXCEPT !.trials = FailedTrials(experiment.trials)]
      \/ \E given : client' = [Idle EXCEPT !.given = given]
  BY Zenon DEF Freeze
<1>3. /\ client'.add = {} /\ client'.pc # "version"
      /\ client'.trials = FailedTrials(experiment.trials) \/ client'.trials = {}
  BY <1>2, GivenIs, GivenRest, IdleIs, BlankIs DEF Fields
<1>4. \A t \in client'.trials : \E e \in Experiments : t \in FailedTrials(e.trials)
  BY <1>3
<1>5. QED
  BY <1>1, <1>3, <1>4 DEF CohortInv, OfFailure

LEMMA VersionKeeps ==
  ASSUME TracesInv, CohortInv, CreateVersion, AddsAnew \/ AddsAsBefore
  PROVE  CohortInv'
<1>1. sessions' = sessions /\ client.pc = "version"
  BY DEF CreateVersion, At
<1>2. client'.pc # "version"
  <2>1. Goes("done") \/ Fails
    BY DEF CreateVersion
  <2>2. QED
    BY <2>1, GoesIs, FailsIs DEF TracesInv, ClientInv
<1>3. /\ \A t \in client'.trials : \E e \in Experiments : t \in FailedTrials(e.trials)
      /\ \A i \in client'.add : OfFailure(i)
  BY DEF AddsAnew, AddsAsBefore, CohortInv
<1>4. CASE cohort' = cohort
  BY <1>1, <1>2, <1>3, <1>4 DEF CohortInv, OfFailure
<1>5. PICK old : old = cohort.versions
  OBVIOUS
<1>6. PICK new : new = Members \union client.add
  OBVIOUS
<1>7. CASE cohort' = [cohort EXCEPT !.versions = Append(@, new)]
  <2>1. old \in Seq(SUBSET Int) /\ cohort \in Cohort /\ Len(old) \in Nat
    BY <1>5 DEF CohortInv, Cohort
  <2>2. client.add # {} /\ client.add \intersect Members = {} /\ \A i \in client.add : OfFailure(i)
    BY <1>1 DEF CohortInv
  <2>3. /\ old = <<>> => Members = {}
        /\ old # <<>> => Members = old[Len(old)] /\ Len(old) \in DOMAIN old
    BY <1>5, <2>1 DEF Members, Last
  <2>4. \A i \in Members : OfFailure(i)
    BY <1>5, <2>3 DEF CohortInv
  <2>5. \A i \in new : OfFailure(i)
    BY <1>6, <2>2, <2>4
  <2>6. new \in SUBSET Int
    <3>1. \A i \in new : i \in DOMAIN sessions
      BY <2>5 DEF OfFailure
    <3>2. DOMAIN sessions = 1 .. Len(sessions) /\ Len(sessions) \in Nat
      BY DEF TracesInv
    <3>3. QED
      BY <3>1, <3>2
  <2>7. PICK more : more = Append(old, new)
    OBVIOUS
  <2>8. /\ more \in Seq(SUBSET Int) /\ Len(more) = Len(old) + 1 /\ more[Len(old) + 1] = new
        /\ \A v \in 1 .. Len(old) : more[v] = old[v]
        /\ DOMAIN more = 1 .. (Len(old) + 1) /\ DOMAIN old = 1 .. Len(old)
    BY <2>1, <2>6, <2>7
  <2>9. cohort' \in Cohort /\ cohort'.versions = more
    BY <1>5, <1>7, <2>1, <2>7, <2>8 DEF Cohort
  <2>10. \A v \in DOMAIN more : \A i \in more[v] : OfFailure(i)
    <3>1. \A v \in DOMAIN old : \A i \in old[v] : OfFailure(i)
      BY <1>5 DEF CohortInv
    <3>2. \A v \in DOMAIN more : v \in DOMAIN old \/ v = Len(old) + 1
      BY <2>1, <2>8
    <3>3. QED
      BY <2>5, <2>8, <3>1, <3>2
  <2>11. ASSUME NEW v \in 2 .. Len(more) PROVE more[v - 1] # more[v] /\ more[v - 1] \subseteq more[v]
    <3>1. CASE v \in 2 .. Len(old)
      <4>1. old[v - 1] # old[v] /\ old[v - 1] \subseteq old[v]
        BY <1>5, <3>1 DEF CohortInv
      <4>2. v \in 1 .. Len(old) /\ v - 1 \in 1 .. Len(old)
        BY <2>1, <3>1
      <4>3. QED
        BY <2>8, <4>1, <4>2
    <3>2. CASE v = Len(old) + 1
      <4>1. v - 1 = Len(old) /\ Len(old) \in 1 .. Len(old) /\ old # <<>>
        BY <2>1, <3>2
      <4>2. more[v - 1] = Members /\ more[v] = new
        BY <2>3, <2>8, <3>2, <4>1
      <4>3. Members # new /\ Members \subseteq new
        BY <1>6, <2>2
      <4>4. QED
        BY <4>2, <4>3
    <3>3. QED
      BY <2>1, <2>8, <3>1, <3>2
  <2>12. QED
    BY <1>1, <1>2, <1>3, <2>9, <2>10, <2>11 DEF CohortInv, OfFailure
<1>8. QED
  BY <1>4, <1>6, <1>7 DEF CreateVersion

LEMMA CohortStep ==
  ASSUME TracesInv, CohortInv, GradesAgree, [KitaruNext]_kitaruVars
  PROVE  CohortInv'
<1>1. ClientInv
  BY DEF TracesInv
<1>2. CASE ResolveSessions
  BY <1>2, ResolveKeeps
<1>3. CASE ReadMembers
  BY <1>3, ReadKeeps
<1>4. CASE \E experiment \in Experiments : Freeze(experiment)
  BY <1>4, FreezeKeeps
<1>5. CASE CreateVersion /\ (AddsAnew \/ AddsAsBefore)
  BY <1>5, VersionKeeps
<1>6. CASE (AddsAnew \/ AddsAsBefore) /\ ~CreateVersion
  <2>1. cohort' \in Cohort /\ cohort'.versions = cohort.versions
    <3>1. CASE EnsureCohort
      BY <3>1 DEF EnsureCohort, CohortInv, Cohort
    <3>2. CASE UNCHANGED cohort
      BY <3>2 DEF CohortInv
    <3>3. CASE Steps
      BY <1>6, <3>1, <3>2, <3>3 DEF Steps, Resolve, CollectThreads, ListSessions, SkipThread, Settled,
         ResolveSessions, FileThread, ReadMembers, Reported, GetResource, ListVersions, Register, OnlyClient
    <3>4. CASE \/ \E k \in Edited : EditScript(k)
               \/ \E trace \in Growth : Grow(trace)
               \/ \E dry \in BOOLEAN : Bootstrap(dry)
               \/ \E request \in Requests : Import(request)
               \/ \E experiment \in Experiments : Freeze(experiment)
               \/ \E presets \in {Presets} \union {{p} : p \in Presets} : Mine(presets)
               \/ \E j \in DOMAIN jobs : Work(j)
      BY <3>2, <3>4 DEF EditScript, Grow, Bootstrap, Import, Freeze, Mine, Work, OnlyClient
    <3>5. CASE UNCHANGED kitaruVars
      BY <3>2, <3>5 DEF kitaruVars
    <3>6. QED
      BY <3>3, <3>4, <3>5 DEF KitaruNext
  <2>2. \A i : OfFailure(i) => OfFailure(i)'
    BY FailureStays
  <2>3. Members' = Members
    BY <2>1 DEF Members
  <2>4. /\ \A t \in client'.trials : \E e \in Experiments : t \in FailedTrials(e.trials)
        /\ \A i \in client'.add : OfFailure(i)'
    BY <1>6, <2>2 DEF AddsAnew, AddsAsBefore, CohortInv
  <2>5. client'.pc = "version" => client'.add # {} /\ client'.add \intersect Members' = {}
    BY <1>6, <2>3 DEF AddsAnew, AddsAsBefore, CohortInv
  <2>6. \A v \in DOMAIN cohort'.versions : \A i \in cohort'.versions[v] : OfFailure(i)'
    BY <2>1, <2>2 DEF CohortInv
  <2>7. \A v \in 2 .. Len(cohort'.versions) :
          cohort'.versions[v - 1] # cohort'.versions[v] /\ cohort'.versions[v - 1] \subseteq cohort'.versions[v]
    BY <2>1 DEF CohortInv
  <2>8. QED
    BY <2>1, <2>4, <2>5, <2>6, <2>7 DEF CohortInv
<1>7. QED
  BY <1>1, <1>2, <1>3, <1>4, <1>5, <1>6, AddsKept

LEMMA CohortInit ==
  ASSUME KitaruInit
  PROVE  CohortInv
<1>1. client = Idle /\ cohort = [there |-> FALSE, versions |-> <<>>]
  BY DEF KitaruInit
<1>2. client.trials = {} /\ client.add = {} /\ client.pc # "version"
  BY <1>1, BlankIs, IdleIs
<1>3. cohort \in Cohort /\ cohort.versions = <<>>
  BY <1>1 DEF Cohort
<1>4. QED
  BY <1>2, <1>3 DEF CohortInv

LEMMA CohortHolds == CohortInv => CohortIsFailures
<1> SUFFICES ASSUME CohortInv PROVE CohortIsFailures
  OBVIOUS
<1>1. cohort.versions \in Seq(SUBSET Int)
  BY DEF CohortInv, Cohort
<1>2. ASSUME NEW v \in DOMAIN cohort.versions, v > 1 PROVE v \in 2 .. Len(cohort.versions)
  BY <1>1, <1>2
<1>3. ASSUME NEW v \in DOMAIN cohort.versions, NEW i \in cohort.versions[v]
      PROVE  \E e \in Experiments : \E t \in e.trials :
                i \in DOMAIN sessions /\ t.score # 1 /\ t.status = "agent_fail"
                /\ (t.kitaru = i \/ t.session = sessions[i].name)
  BY <1>3 DEF CohortInv, OfFailure
<1>4. At("version") => client.add \intersect Members = {}
  BY DEF At, CohortInv
<1>5. \A v \in DOMAIN cohort.versions : v > 1 =>
        cohort.versions[v - 1] # cohort.versions[v] /\ cohort.versions[v - 1] \subseteq cohort.versions[v]
  BY <1>2 DEF CohortInv
<1>6. QED
  BY <1>3, <1>4, <1>5 DEF CohortIsFailures

-----------------------------------------------------------------------------
(* What an import says *)

WholeOf(key, traces) ==
    /\ Known(key)
    /\ \A i \in DOMAIN sessions : sessions[i].key = key => ToSet(sessions[i].turns) = {t.id : t \in traces}
JobTold(one) ==
    /\ one.state = "created" => WholeOf(one.key, one.traces)
    /\ one.state = "skipped" => Known(one.key)
LineTold(key, status, traces) ==
    /\ status \in {"imported", "skipped", "duplicate"} => Known(key)
    /\ status = "imported" => WholeOf(key, traces)
TurnsOf(traces) == \A i \in DOMAIN sessions : \A t \in traces :
    t.id \in ToSet(sessions[i].turns) => ThreadKey(t) = sessions[i].key

JobsTold == \A j \in DOMAIN jobs : JobTold(jobs[j])
LinesTold == client.command = "import" =>
    \A key \in DOMAIN client.outcomes : LineTold(key, client.outcomes[key], client.collected[key])
ApartInv ==
    /\ \A i, j \in DOMAIN sessions : i # j => ToSet(sessions[i].turns) \intersect ToSet(sessions[j].turns) = {}
    /\ \E project \in Projects : opik \subseteq project \union Growth /\ TurnsOf(project \union Growth)

\* A thread that is there, or is there with all its traces, stays so.
LEMMA ToldStays ==
  ASSUME TracesInv, [KitaruNext]_kitaruVars
  PROVE  /\ \A key : Known(key) => Known(key)'
         /\ \A key, traces : WholeOf(key, traces) => WholeOf(key, traces)'
         /\ \A one : JobTold(one) => JobTold(one)'
         /\ \A key, status, traces : LineTold(key, status, traces) => LineTold(key, status, traces)'
<1>1. CASE sessions' = sessions
  BY <1>1 DEF Known, WholeOf, JobTold, LineTold
<1>2. ASSUME NEW m \in AnySession, sessions' = Append(sessions, m), ~Known(m.key)
      PROVE  /\ \A key : Known(key) => Known(key)'
             /\ \A key, traces : WholeOf(key, traces) => WholeOf(key, traces)'
  <2>1. /\ DOMAIN sessions \subseteq DOMAIN sessions' /\ \A i \in DOMAIN sessions : sessions'[i] = sessions[i]
        /\ sessions'[Len(sessions) + 1] = m
        /\ \A i \in DOMAIN sessions' : i \in DOMAIN sessions \/ i = Len(sessions) + 1
    BY <1>2, AddedSession DEF TracesInv
  <2>2. \A key : Known(key) => Known(key)'
    BY <2>1 DEF Known
  <2>3. ASSUME NEW key, NEW traces, WholeOf(key, traces) PROVE WholeOf(key, traces)'
    <3>1. Known(key) /\ key # m.key
      BY <1>2, <2>3 DEF WholeOf
    <3>2. \A i \in DOMAIN sessions' : sessions'[i].key = key => i \in DOMAIN sessions
      BY <2>1, <3>1
    <3>3. QED
      BY <2>1, <2>2, <2>3, <3>1, <3>2 DEF WholeOf
  <2>4. QED
    BY <2>2, <2>3
<1>3. /\ \A key : Known(key) => Known(key)'
      /\ \A key, traces : WholeOf(key, traces) => WholeOf(key, traces)'
  <2>1. ASSUME NEW j \in DOMAIN jobs, sessions' = Append(sessions, Made(jobs[j])), ~Known(jobs[j].key)
        PROVE  /\ \A key : Known(key) => Known(key)'
               /\ \A key, traces : WholeOf(key, traces) => WholeOf(key, traces)'
    BY <1>2, <2>1, MadeHolds
  <2>2. CASE sessions' = sessions
    BY <2>2 DEF Known, WholeOf
  <2>3. QED
    BY <2>1, <2>2, SessionsGrow
<1>4. QED
  BY <1>3 DEF JobTold, LineTold

\* A job that makes a Session makes it of all its traces.
LEMMA WorkTold ==
  ASSUME TracesInv, JobsTold, [KitaruNext]_kitaruVars, NEW j \in DOMAIN jobs, Work(j)
  PROVE  JobsTold'
<1>1. PICK state \in {"created", "skipped", "failure"} :
        /\ jobs' = [jobs EXCEPT ![j].state = state]
        /\ \/ state = "failure"
           \/ state = "skipped" /\ Known(jobs[j].key)
           \/ state = "created" /\ ~Known(jobs[j].key) /\ sessions' = Append(sessions, Made(jobs[j]))
  BY WorkIs
<1>2. /\ DOMAIN jobs' = DOMAIN jobs /\ jobs'[j].state = state
      /\ \A i \in DOMAIN jobs : i # j => jobs'[i] = jobs[i]
      /\ \A i \in DOMAIN jobs : jobs'[i].key = jobs[i].key /\ jobs'[i].traces = jobs[i].traces
  BY <1>1, SettledJob DEF TracesInv, JobsInv
<1>4. ASSUME state = "created" PROVE WholeOf(jobs[j].key, jobs[j].traces)'
  <2>1. ~Known(jobs[j].key) /\ sessions' = Append(sessions, Made(jobs[j]))
    BY <1>1, <1>4
  <2>2. PICK m \in AnySession :
          m = Made(jobs[j]) /\ m.key = jobs[j].key /\ ToSet(m.turns) = {t.id : t \in jobs[j].traces}
    BY MadeHolds
  <2>3. sessions' = Append(sessions, m)
    BY <2>1, <2>2
  <2>4. /\ DOMAIN sessions' = 1 .. (Len(sessions) + 1) /\ Len(sessions) \in Nat
        /\ \A i \in DOMAIN sessions : sessions'[i] = sessions[i]
        /\ sessions'[Len(sessions) + 1] = m
        /\ \A i \in DOMAIN sessions' : i \in DOMAIN sessions \/ i = Len(sessions) + 1
    BY <2>3, AddedSession DEF TracesInv
  <2>5. Len(sessions) + 1 \in DOMAIN sessions'
    BY <2>4
  <2>6. PICK key, ids : key = jobs[j].key /\ ids = {t.id : t \in jobs[j].traces}
    OBVIOUS
  <2>7. Known(key)'
    BY <2>2, <2>4, <2>5, <2>6 DEF Known
  <2>8. ASSUME NEW i \in DOMAIN sessions', sessions'[i].key = key PROVE ToSet(sessions'[i].turns) = ids
    <3>1. i \notin DOMAIN sessions
      BY <2>1, <2>4, <2>6, <2>8 DEF Known
    <3>2. sessions'[i] = m
      BY <2>4, <3>1
    <3>3. QED
      BY <2>2, <2>6, <3>2
  <2>9. jobs'[j].key = key /\ {t.id : t \in jobs'[j].traces} = ids
    BY <1>2, <2>6
  <2>10. QED
    BY <2>7, <2>8, <2>9 DEF WholeOf
<1>5. PICK key, traces : key = jobs[j].key /\ traces = jobs[j].traces
  OBVIOUS
<1>6. Known(key) => Known(key)'
  BY ToldStays
<1>7. state = "created" => WholeOf(key, traces)'
  BY <1>2, <1>4, <1>5 DEF WholeOf, Known
<1>8. JobTold(jobs[j])'
  BY <1>1, <1>2, <1>5, <1>6, <1>7 DEF JobTold, WholeOf, Known
<1>9. ASSUME NEW i \in DOMAIN jobs, i # j PROVE JobTold(jobs[i])'
  <2>1. PICK one : one = jobs[i]
    OBVIOUS
  <2>2. JobTold(one)'
    BY <2>1, ToldStays DEF JobsTold
  <2>3. QED
    BY <1>2, <1>9, <2>1, <2>2 DEF JobTold, WholeOf, Known
<1>10. QED
  BY <1>2, <1>8, <1>9 DEF JobsTold

LEMMA FiledTold ==
  ASSUME TracesInv, JobsTold, FileThread
  PROVE  JobsTold'
<1>1. sessions' = sessions /\ jobs \in Seq(Job)
  BY DEF FileThread, TracesInv, JobsInv
<1>2. \/ jobs' = jobs
      \/ jobs' = Append(jobs, Filed(Head(client.left)))
  BY DEF FileThread, Filed
<1>3. CASE jobs' = jobs
  BY <1>1, <1>3 DEF JobsTold, JobTold, WholeOf, Known
<1>4. PICK one : one = Filed(Head(client.left))
  OBVIOUS
<1>5. one.state = "queued"
  BY <1>4 DEF Filed
<1>6. CASE jobs' = Append(jobs, one)
  <2>1. /\ DOMAIN jobs = 1 .. Len(jobs) /\ Len(jobs) \in Nat /\ DOMAIN jobs' = 1 .. (Len(jobs) + 1)
        /\ \A j \in DOMAIN jobs : jobs'[j] = jobs[j]
        /\ jobs'[Len(jobs) + 1] = one
        /\ \A j \in DOMAIN jobs' : j \in DOMAIN jobs \/ j = Len(jobs) + 1
    BY <1>1, <1>6
  <2>2. ASSUME NEW j \in DOMAIN jobs' PROVE JobTold(jobs[j])'
    <3>1. CASE j \in DOMAIN jobs
      BY <1>1, <2>1, <3>1 DEF JobsTold, JobTold, WholeOf, Known
    <3>2. CASE j = Len(jobs) + 1
      BY <1>5, <2>1, <3>2 DEF JobTold
    <3>3. QED
      BY <2>1, <2>2, <3>1, <3>2
  <2>3. QED
    BY <2>2 DEF JobsTold
<1>7. QED
  BY <1>2, <1>3, <1>4, <1>6

LEMMA JobsToldStep ==
  ASSUME TracesInv, JobsTold, [KitaruNext]_kitaruVars
  PROVE  JobsTold'
<1>1. CASE sessions' = sessions /\ jobs' = jobs
  BY <1>1 DEF JobsTold, JobTold, WholeOf, Known
<1>2. QED
  BY <1>1, FiledTold, WorkTold, ServerSteps

\* A line that is true joins those that are.
LEMMA SaysTold ==
  ASSUME ClientInv, LinesTold, client.command = "import", sessions' = sessions,
         NEW key, NEW status, Says(key, status), LineTold(key, status, client.collected[key])
  PROVE  LinesTold'
<1>1. /\ Keeps({"pc", "left", "outcomes"})
      /\ client'.outcomes = [k \in DOMAIN client.outcomes \union {key} |-> IF k = key THEN status ELSE client.outcomes[k]]
  BY SaysIs DEF ClientInv
<1>2. client'.collected = client.collected
  BY <1>1 DEF Keeps, Fields
<1>3. PICK lines, all : lines = client'.outcomes /\ all = client.collected
  OBVIOUS
<1>4. ASSUME NEW k \in DOMAIN lines PROVE LineTold(k, lines[k], all[k])
  <2>1. CASE k = key
    BY <1>1, <1>3, <2>1
  <2>2. CASE k # key
    <3>1. k \in DOMAIN client.outcomes /\ lines[k] = client.outcomes[k]
      BY <1>1, <1>3, <1>4, <2>2
    <3>2. QED
      BY <1>3, <3>1 DEF LinesTold
  <2>3. QED
    BY <2>1, <2>2
<1>5. ASSUME NEW k \in DOMAIN lines PROVE LineTold(k, lines[k], all[k])'
  BY <1>4, <1>5 DEF LineTold, WholeOf, Known
<1>6. QED
  BY <1>2, <1>3, <1>5 DEF LinesTold, LineTold, WholeOf, Known

LEMMA SettledTold ==
  ASSUME TracesInv, LineInv, JobsTold, LinesTold, client.command = "import", Settled, client'.command = "import"
  PROVE  LinesTold'
<1>1. PICK key, one : key = Head(client.left) /\ one = Last(jobs)
  OBVIOUS
<1>2. client.pc = "waiting" /\ sessions' = sessions /\ ~Fails
  BY FailsIs DEF Settled, At, OnlyClient
<1>3. jobs # <<>> /\ one.key = key /\ one.traces = client.collected[key]
  BY <1>1, <1>2 DEF LineInv
<1>4. JobTold(one)
  <2>1. jobs \in Seq(Job) /\ Len(jobs) \in DOMAIN jobs
    BY <1>3 DEF TracesInv, JobsInv
  <2>2. QED
    BY <1>1, <2>1 DEF JobsTold, Last
<1>5. \/ Says(key, "failed")
      \/ one.state = "skipped" /\ Says(key, "duplicate")
      \/ one.state = "created" /\ Says(key, "imported")
  BY <1>1, <1>2 DEF Settled
<1>6. /\ LineTold(key, "failed", client.collected[key])
      /\ one.state = "skipped" => LineTold(key, "duplicate", client.collected[key])
      /\ one.state = "created" => LineTold(key, "imported", client.collected[key])
  BY <1>3, <1>4 DEF LineTold, JobTold, WholeOf
<1>7. QED
  BY <1>2, <1>5, <1>6, SaysTold DEF TracesInv

LEMMA LinesToldStep ==
  ASSUME TracesInv, LineInv, JobsTold, LinesTold, [KitaruNext]_kitaruVars
  PROVE  LinesTold'
<1> SUFFICES ASSUME client'.command = "import" PROVE LinesTold'
  BY DEF LinesTold
<1>1. ClientInv /\ DOMAIN client = Fields
  BY DEF TracesInv, ClientInv
<1>2. ASSUME DOMAIN client'.outcomes = {} PROVE LinesTold'
  BY <1>2 DEF LinesTold
<1>3. ASSUME client.command = "import", client'.outcomes = client.outcomes, client'.collected = client.collected
      PROVE  LinesTold'
  <2>1. PICK lines, all : lines = client.outcomes /\ all = client.collected
    OBVIOUS
  <2>2. \A k \in DOMAIN lines : LineTold(k, lines[k], all[k])
    BY <1>3, <2>1 DEF LinesTold
  <2>3. ASSUME NEW k \in DOMAIN lines PROVE LineTold(k, lines[k], all[k])'
    <3>1. PICK status, traces : status = lines[k] /\ traces = all[k]
      OBVIOUS
    <3>2. LineTold(k, status, traces)'
      BY <2>2, <3>1, ToldStays
    <3>3. QED
      BY <3>1, <3>2
  <2>4. QED
    BY <1>3, <2>1, <2>3 DEF LinesTold, LineTold, WholeOf, Known
<1>4. ASSUME NEW request \in Requests, Import(request) PROVE LinesTold'
  <2>1. \E wait, traces, threads :
          client' = [Given("import", "resolve") EXCEPT !.wait = wait, !.traces = traces, !.threads = threads]
    BY <1>4, Zenon DEF Import
  <2>2. DOMAIN client'.outcomes = {}
    BY <2>1, GivenIs, GivenRest, BlankIs DEF Fields
  <2>3. QED
    BY <1>2, <2>2
<1>5. CASE client.command = "import" /\ UNCHANGED client
  BY <1>3, <1>5
<1>6. CASE client.command = "import" /\ Resolve
  <2>1. Goes("collect")
    BY <1>6, FailsIs DEF Resolve
  <2>2. QED
    BY <1>1, <1>3, <1>6, <2>1, GoesIs DEF Keeps, Fields
<1>7. CASE client.command = "import" /\ CollectThreads
  <2>1. \E all : client' = [client EXCEPT !.collected = all, !.pc = IF DOMAIN all = {} THEN "done" ELSE "sessions"]
    <3>1. ~Fails
      BY FailsIs
    <3>2. QED
      BY <1>7, <3>1, Zenon DEF CollectThreads
  <2>2. client.pc = "collect" /\ client'.outcomes = client.outcomes
    BY <1>1, <1>7, <2>1 DEF CollectThreads, At, Fields
  <2>3. QED
    BY <1>2, <1>7, <2>2 DEF LineInv
<1>8. CASE client.command = "import" /\ ListSessions
  <2>1. \E known, left : client' = [client EXCEPT !.known = known, !.pc = "thread", !.left = left]
    <3>1. ~Fails
      BY FailsIs
    <3>2. QED
      BY <1>8, <3>1, Zenon DEF ListSessions
  <2>2. client'.outcomes = client.outcomes /\ client'.collected = client.collected
    BY <1>1, <2>1 DEF Fields
  <2>3. QED
    BY <1>3, <1>8, <2>2
<1>9. CASE client.command = "import" /\ SkipThread
  <2>1. PICK key : key = Head(client.left)
    OBVIOUS
  <2>2. Says(key, "skipped") /\ Existing(key) /\ sessions' = sessions /\ client.pc = "thread"
    BY <1>9, <2>1 DEF SkipThread, OnlyClient, At
  <2>3. client.known \in 0 .. Len(sessions) /\ Len(sessions) \in Nat /\ DOMAIN sessions = 1 .. Len(sessions)
    BY <1>9, <2>2 DEF LineInv, TracesInv
  <2>4. Known(key)
    BY <2>2, <2>3 DEF Existing, Known
  <2>5. QED
    BY <1>1, <1>9, <2>2, <2>4, SaysTold DEF LineTold
<1>10. CASE client.command = "import" /\ FileThread
  <2>1. PICK key : key = Head(client.left)
    OBVIOUS
  <2>2. /\ sessions' = sessions
        /\ Goes("waiting") \/ Says(key, "queued") \/ Says(key, "failed")
    BY <1>10, <2>1 DEF FileThread
  <2>3. CASE Goes("waiting")
    BY <1>1, <1>3, <1>10, <2>3, GoesIs DEF Keeps, Fields
  <2>4. CASE Says(key, "queued") \/ Says(key, "failed")
    BY <1>1, <1>10, <2>2, <2>4, SaysTold DEF LineTold
  <2>5. QED
    BY <2>2, <2>3, <2>4
<1>11. CASE client.command = "import" /\ Settled
  BY <1>11, SettledTold
<1>12. QED
  BY <1>1, <1>4, <1>5, <1>6, <1>7, <1>8, <1>9, <1>10, <1>11, ImportSteps

LEMMA MadeApart ==
  ASSUME TracesInv, ApartInv, OneTraceAnId, NEW j \in DOMAIN jobs, ~Known(jobs[j].key),
         sessions' = Append(sessions, Made(jobs[j])), opik' \subseteq opik
  PROVE  ApartInv'
<1>1. PICK m \in AnySession :
        m = Made(jobs[j]) /\ m.key = jobs[j].key /\ ToSet(m.turns) = {t.id : t \in jobs[j].traces}
  BY MadeHolds
<1>2. PICK project \in Projects : opik \subseteq project \union Growth /\ TurnsOf(project \union Growth)
  BY DEF ApartInv
<1>3. PICK traces : traces = jobs[j].traces
  OBVIOUS
<1>4. traces \subseteq project \union Growth /\ \A t \in traces : ThreadKey(t) = m.key
  BY <1>1, <1>2, <1>3 DEF TracesInv, JobsInv, ThreadOf
<1>5. ToSet(m.turns) = {t.id : t \in traces}
  BY <1>1, <1>3
<1>6. ASSUME NEW t \in project \union Growth, t.id \in ToSet(m.turns) PROVE ThreadKey(t) = m.key
  <2>1. PICK u \in traces : u.id = t.id
    BY <1>5, <1>6
  <2>2. u = t
    BY <1>4, <2>1 DEF OneTraceAnId
  <2>3. QED
    BY <1>4, <2>1, <2>2
<1>7. \A i \in DOMAIN sessions : sessions[i].key # m.key
  BY <1>1 DEF Known
<1>8. ASSUME NEW i \in DOMAIN sessions PROVE ToSet(sessions[i].turns) \intersect ToSet(m.turns) = {}
  <2>1. ASSUME NEW n \in ToSet(sessions[i].turns), n \in ToSet(m.turns) PROVE FALSE
    <3>1. PICK t \in traces : t.id = n
      BY <1>5, <2>1
    <3>2. ThreadKey(t) = sessions[i].key
      BY <1>2, <1>4, <2>1, <3>1 DEF TurnsOf
    <3>3. QED
      BY <1>4, <1>7, <3>1, <3>2
  <2>2. QED
    BY <2>1
<1>9. /\ \A i \in DOMAIN sessions : sessions'[i] = sessions[i]
      /\ sessions'[Len(sessions) + 1] = m
      /\ \A i \in DOMAIN sessions' : i \in DOMAIN sessions \/ i = Len(sessions) + 1
  BY <1>1, AddedSession DEF TracesInv
<1>10. ASSUME NEW i \in DOMAIN sessions', NEW k \in DOMAIN sessions', i # k
       PROVE  ToSet(sessions'[i].turns) \intersect ToSet(sessions'[k].turns) = {}
  <2>1. CASE i \in DOMAIN sessions /\ k \in DOMAIN sessions
    BY <1>9, <1>10, <2>1 DEF ApartInv
  <2>2. CASE i \notin DOMAIN sessions
    <3>1. sessions'[i] = m /\ k \in DOMAIN sessions
      BY <1>9, <1>10, <2>2
    <3>2. QED
      BY <1>8, <1>9, <3>1
  <2>3. CASE k \notin DOMAIN sessions
    <3>1. sessions'[k] = m /\ i \in DOMAIN sessions
      BY <1>9, <1>10, <2>3
    <3>2. QED
      BY <1>8, <1>9, <3>1
  <2>4. QED
    BY <2>1, <2>2, <2>3
<1>11. PICK world : world = project \union Growth
  OBVIOUS
<1>12. TurnsOf(world)'
  <2>1. ASSUME NEW i \in DOMAIN sessions', NEW t \in world, t.id \in ToSet(sessions'[i].turns)
        PROVE  ThreadKey(t) = sessions'[i].key
    <3>1. CASE i \in DOMAIN sessions
      BY <1>2, <1>9, <1>11, <2>1, <3>1 DEF TurnsOf
    <3>2. CASE i \notin DOMAIN sessions
      BY <1>6, <1>9, <1>11, <2>1, <3>2
    <3>3. QED
      BY <3>1, <3>2
  <2>2. QED
    BY <2>1 DEF TurnsOf
<1>13. opik' \subseteq world
  BY <1>2, <1>11
<1>14. QED
  BY <1>10, <1>11, <1>12, <1>13 DEF ApartInv

LEMMA ApartStep ==
  ASSUME TracesInv, ApartInv, OneTraceAnId, [KitaruNext]_kitaruVars
  PROVE  ApartInv'
<1>1. opik' \subseteq opik \union Growth
  <2>1. CASE Steps
    BY <2>1 DEF Steps, GetResource, ListVersions, Register, Resolve, CollectThreads, ListSessions, SkipThread,
       FileThread, Settled, ResolveSessions, EnsureCohort, ReadMembers, CreateVersion, Reported, OnlyClient
  <2>2. CASE \E trace \in Growth : Grow(trace)
    BY <2>2 DEF Grow
  <2>3. CASE \/ \E k \in Edited : EditScript(k)
             \/ \E dry \in BOOLEAN : Bootstrap(dry)
             \/ \E request \in Requests : Import(request)
             \/ \E experiment \in Experiments : Freeze(experiment)
             \/ \E presets \in {Presets} \union {{p} : p \in Presets} : Mine(presets)
             \/ \E j \in DOMAIN jobs : Work(j)
    BY <2>3 DEF EditScript, Bootstrap, Import, Freeze, Mine, Work, OnlyClient
  <2>4. CASE UNCHANGED kitaruVars
    BY <2>4 DEF kitaruVars
  <2>5. QED
    BY <2>1, <2>2, <2>3, <2>4 DEF KitaruNext
<1>2. CASE sessions' = sessions
  <2>1. PICK project \in Projects : opik \subseteq project \union Growth /\ TurnsOf(project \union Growth)
    BY DEF ApartInv
  <2>2. opik' \subseteq project \union Growth
    BY <1>1, <2>1
  <2>3. \A i, j \in DOMAIN sessions : i # j => ToSet(sessions[i].turns) \intersect ToSet(sessions[j].turns) = {}
    BY DEF ApartInv
  <2>4. PICK world : world = project \union Growth
    OBVIOUS
  <2>5. TurnsOf(world)'
    BY <1>2, <2>1, <2>4 DEF TurnsOf
  <2>6. QED
    BY <1>2, <2>2, <2>3, <2>4, <2>5 DEF ApartInv
<1>3. ASSUME NEW j \in DOMAIN jobs, Work(j) PROVE ApartInv'
  <2>1. opik' \subseteq opik
    BY <1>3 DEF Work
  <2>2. sessions' = sessions \/ (~Known(jobs[j].key) /\ sessions' = Append(sessions, Made(jobs[j])))
    BY <1>3, WorkIs
  <2>3. QED
    BY <1>2, <2>1, <2>2, MadeApart
<1>4. QED
  BY <1>2, <1>3, ServerSteps

ToldInv == JobsTold /\ LinesTold /\ ApartInv

LEMMA ToldInit ==
  ASSUME KitaruInit, HeldIsTold
  PROVE  ToldInv
<1>1. opik \in Projects /\ sessions \in Held /\ jobs = <<>> /\ client.command # "import"
  BY IdleIs DEF KitaruInit
<1>2. JobsTold /\ LinesTold
  BY <1>1 DEF JobsTold, LinesTold
<1>3. \A i, j \in DOMAIN sessions : i # j => ToSet(sessions[i].turns) \intersect ToSet(sessions[j].turns) = {}
  BY <1>1 DEF HeldIsTold
<1>4. PICK project \in Projects : project = opik
  BY <1>1
<1>5. TurnsOf(project \union Growth)
  BY <1>1, <1>4 DEF TurnsOf, HeldIsTold
<1>6. ApartInv
  BY <1>3, <1>4, <1>5 DEF ApartInv
<1>7. QED
  BY <1>2, <1>6 DEF ToldInv

LEMMA ToldStep ==
  ASSUME ImportInv, ToldInv, OneTraceAnId, [KitaruNext]_kitaruVars
  PROVE  ToldInv'
BY JobsToldStep, LinesToldStep, ApartStep DEF ImportInv, ToldInv

LEMMA ToldHolds == ImportInv /\ ToldInv => ImportTellsTheTruth
<1> SUFFICES ASSUME ImportInv, ToldInv PROVE ImportTellsTheTruth
  OBVIOUS
<1>1. \A i, j \in DOMAIN sessions : i # j => ToSet(sessions[i].turns) \intersect ToSet(sessions[j].turns) = {}
  BY DEF ToldInv, ApartInv
<1>2. ToSet(sessions) = {sessions[i] : i \in DOMAIN sessions}
  BY DEF ToSet
<1>3. ASSUME client.command = "import", At("done") PROVE DOMAIN client.outcomes = DOMAIN client.collected
  BY <1>3 DEF ImportInv, LineInv, At
<1>4. ASSUME client.command = "import", NEW key \in DOMAIN client.outcomes
      PROVE  LET of == {s \in ToSet(sessions) : s.key = key}
                 turns == {t.id : t \in client.collected[key]}
             IN  /\ client.outcomes[key] \in {"imported", "skipped", "duplicate"} => of # {}
                 /\ client.outcomes[key] = "imported" => \A s \in of : ToSet(s.turns) = turns
  <2>1. PICK status, traces : status = client.outcomes[key] /\ traces = client.collected[key]
    OBVIOUS
  <2>2. LineTold(key, status, traces)
    BY <1>4, <2>1 DEF ToldInv, LinesTold
  <2>3. ASSUME Known(key) PROVE {s \in ToSet(sessions) : s.key = key} # {}
    BY <1>2, <2>3 DEF Known
  <2>4. ASSUME WholeOf(key, traces), NEW s \in ToSet(sessions), s.key = key
        PROVE  ToSet(s.turns) = {t.id : t \in traces}
    BY <1>2, <2>4 DEF WholeOf
  <2>5. QED
    BY <2>1, <2>2, <2>3, <2>4 DEF LineTold
<1>5. QED
  BY <1>1, <1>3, <1>4 DEF ImportTellsTheTruth

-----------------------------------------------------------------------------
(* What is mined as denied *)

Refused(trace) == {s \in trace.spans : s.answer \in {"denied", "lost"}}
Over(trace, key) == Times(Legs(trace, TRUE), key) - Times(Legs(trace, FALSE), key)
Surplus(trace) == UNION {{key} \X (1 .. Over(trace, key)) : key \in {CallKey(s) : s \in Legs(trace, TRUE)}}

\* Of the calls that are deferred more often than they are run, so many were refused.
LEMMA OverRefused ==
  ASSUME NEW trace, CallsAreWhole(trace), NEW x \in Legs(trace, TRUE), NEW key, key = CallKey(x)
  PROVE  /\ IsFiniteSet(LegsOf(trace, key, {"denied", "lost"}))
         /\ Cardinality(LegsOf(trace, key, {"denied", "lost"})) \in Nat
         /\ Over(trace, key) \in Int
         /\ Over(trace, key) <= Cardinality(LegsOf(trace, key, {"denied", "lost"}))
<1>1. PICK all : all = {s \in Legs(trace, TRUE) : CallKey(s) = key}
  OBVIOUS
<1>2. PICK ran, refused : ran = LegsOf(trace, key, {"ran"}) /\ refused = LegsOf(trace, key, {"denied", "lost"})
  OBVIOUS
<1>3. all \subseteq trace.spans /\ ran \subseteq trace.spans /\ refused \subseteq trace.spans
  BY <1>1, <1>2 DEF Legs, LegsOf
<1>4. IsFiniteSet(trace.spans)
  BY DEF CallsAreWhole
<1>5. IsFiniteSet(all) /\ IsFiniteSet(ran) /\ IsFiniteSet(refused)
  BY <1>3, <1>4, FS_Subset
<1>6. all = ran \union refused
  BY <1>1, <1>2 DEF LegsOf, CallsAreWhole
<1>7. ran \intersect refused = {}
  BY <1>2 DEF LegsOf
<1>8. Cardinality(all) = Cardinality(ran) + Cardinality(refused) - Cardinality(ran \intersect refused)
  BY <1>5, <1>6, FS_Union
<1>9. Cardinality(ran \intersect refused) = 0
  BY <1>7, FS_EmptySet
<1>10. Cardinality(all) \in Nat /\ Cardinality(ran) \in Nat /\ Cardinality(refused) \in Nat
  BY <1>5, FS_CardinalityType
<1>11. PICK done : done = {s \in Legs(trace, FALSE) : CallKey(s) = key}
  OBVIOUS
<1>12. done \subseteq trace.spans
  BY <1>11 DEF Legs
<1>13. Cardinality(done) \in Nat
  BY <1>4, <1>12, FS_Subset, FS_CardinalityType
<1>14. Times(Legs(trace, TRUE), key) = Cardinality(all) /\ Times(Legs(trace, FALSE), key) = Cardinality(done)
  BY <1>1, <1>11 DEF Times
<1>15. Cardinality(ran) <= Cardinality(done)
  BY <1>2, <1>14 DEF CallsAreWhole
<1>16. Over(trace, key) = Cardinality(all) - Cardinality(done)
  BY <1>14 DEF Over
<1>17. QED
  BY <1>2, <1>5, <1>8, <1>9, <1>10, <1>13, <1>15, <1>16

LEMMA DeniedCounted ==
  ASSUME NEW trace, CallsAreWhole(trace)
  PROVE  /\ DeniedToolCalls(trace) \in Nat /\ Cardinality(Refused(trace)) \in Nat
         /\ DeniedToolCalls(trace) <= Cardinality(Refused(trace))
<1>1. DeniedToolCalls(trace) = Cardinality(Surplus(trace))
  BY Zenon DEF DeniedToolCalls, Surplus, Over
<1>2. IsFiniteSet(Refused(trace)) /\ Cardinality(Refused(trace)) \in Nat
  BY FS_Subset, FS_CardinalityType DEF Refused, CallsAreWhole
<1> DEFINE of(key) == SetToSeq(LegsOf(trace, key, {"denied", "lost"}))
<1>3. PICK U : U = Surplus(trace)
  OBVIOUS
<1>4. PICK f : f = [p \in U |-> of(p[1])[p[2]]]
  OBVIOUS
<1>5. ASSUME NEW p \in U
      PROVE  /\ \E x \in Legs(trace, TRUE) : p[1] = CallKey(x)
             /\ p = <<p[1], p[2]>> /\ p[2] \in 1 .. Over(trace, p[1])
  <2>1. PICK x \in Legs(trace, TRUE) : p \in {CallKey(x)} \X (1 .. Over(trace, CallKey(x)))
    BY <1>3, <1>5 DEF Surplus
  <2>2. PICK key, most : key = CallKey(x) /\ most = 1 .. Over(trace, key)
    OBVIOUS
  <2>3. p \in {key} \X most
    BY <2>1, <2>2
  <2>4. p[1] = key /\ p[2] \in most /\ p = <<p[1], p[2]>>
    BY <2>3
  <2>5. QED
    BY <2>2, <2>4
<1>6. ASSUME NEW p \in U
      PROVE  /\ p[2] \in DOMAIN of(p[1]) /\ IsInjective(of(p[1]))
             /\ of(p[1])[p[2]] \in LegsOf(trace, p[1], {"denied", "lost"})
  <2>1. PICK legs : legs = LegsOf(trace, p[1], {"denied", "lost"})
    OBVIOUS
  <2>2. /\ IsFiniteSet(legs) /\ Cardinality(legs) \in Nat
        /\ Over(trace, p[1]) \in Int /\ Over(trace, p[1]) <= Cardinality(legs)
    BY <1>5, <2>1, OverRefused
  <2>3. PICK q : q = SetToSeq(legs)
    OBVIOUS
  <2>4. q \in Seq(legs) /\ Len(q) = Cardinality(legs) /\ IsInjective(q)
    BY <2>2, <2>3, SeqOfSet
  <2>5. p[2] \in 1 .. Len(q) /\ DOMAIN q = 1 .. Len(q)
    <3>1. PICK most : most = Over(trace, p[1])
      OBVIOUS
    <3>2. p[2] \in 1 .. most /\ most \in Int /\ most <= Len(q) /\ Len(q) \in Nat
      BY <1>5, <2>2, <2>4, <3>1
    <3>3. QED
      BY <2>4, <3>2
  <2>6. q[p[2]] \in legs
    BY <2>4, <2>5
  <2>7. of(p[1]) = q
    BY <2>1, <2>3
  <2> HIDE DEF of
  <2>8. QED
    BY <2>1, <2>4, <2>5, <2>6, <2>7
<1>7. ASSUME NEW p \in U PROVE f[p] \in Refused(trace) /\ CallKey(f[p]) = p[1]
  BY <1>4, <1>6, <1>7 DEF LegsOf, Refused, Legs
<1> HIDE DEF of
<1>8. ASSUME NEW p \in U, NEW q \in U, f[p] = f[q] PROVE p = q
  <2>1. p[1] = q[1]
    BY <1>7, <1>8
  <2>2. of(p[1])[p[2]] = of(p[1])[q[2]]
    BY <1>4, <1>8, <2>1
  <2>3. p[2] \in DOMAIN of(p[1]) /\ q[2] \in DOMAIN of(p[1]) /\ IsInjective(of(p[1]))
    BY <1>6, <2>1
  <2>4. p[2] = q[2]
    BY <2>2, <2>3 DEF IsInjective
  <2>5. QED
    BY <1>5, <2>1, <2>4
<1>9. f \in Injection(U, Refused(trace))
  BY <1>4, <1>7, <1>8 DEF Injection, IsInjective
<1>10. IsFiniteSet(U) /\ Cardinality(U) <= Cardinality(Refused(trace))
  BY <1>2, <1>9, FS_Injection
<1>11. QED
  BY <1>1, <1>2, <1>3, <1>10, FS_CardinalityType

LEMMA MineSteps ==
  ASSUME ClientInv, [KitaruNext]_kitaruVars, client'.command = "mine"
  PROVE  UNCHANGED client \/ \E presets \in {Presets} \union {{p} : p \in Presets} : Mine(presets)
<1>1. DOMAIN client = Fields /\ client.pc \in Course(client.command)
      /\ client.command \in {"none", "bootstrap", "import", "cohort", "mine"}
  BY DEF ClientInv
<1>2. ASSUME NEW dry \in BOOLEAN, Bootstrap(dry) PROVE FALSE
  <2>1. client' = [Given("bootstrap", "get") EXCEPT !.left = Kinds, !.dry = dry]
    BY <1>2 DEF Bootstrap
  <2>2. client'.command = "bootstrap"
    BY <2>1, GivenIs DEF Fields
  <2>3. QED
    BY <2>2
<1>3. ASSUME NEW request \in Requests, Import(request) PROVE FALSE
  <2>1. \E wait, traces, threads :
          client' = [Given("import", "resolve") EXCEPT !.wait = wait, !.traces = traces, !.threads = threads]
    BY <1>3, Zenon DEF Import
  <2>2. client'.command = "import"
    BY <2>1, GivenIs DEF Fields
  <2>3. QED
    BY <2>2
<1>4. ASSUME NEW experiment \in Experiments, Freeze(experiment) PROVE FALSE
  <2>1. \/ \E trials : client' = [Given("cohort", "sessions") EXCEPT !.trials = trials]
        \/ \E given : client' = [Idle EXCEPT !.given = given]
    BY <1>4, Zenon DEF Freeze
  <2>2. client'.command \in {"cohort", "none"}
    BY <2>1, GivenIs, IdleIs DEF Fields
  <2>3. QED
    BY <2>2
<1>5. CASE GetResource \/ ListVersions \/ Register
  <2>1. client.command = "bootstrap"
    BY <1>1, <1>5 DEF GetResource, ListVersions, Register, At, Course
  <2>2. client'.command \in {"none", client.command}
    <3>1. ASSUME NEW pc, Goes(pc) PROVE client'.command = client.command
      BY <1>1, <3>1, GoesIs DEF Keeps, Fields
    <3>2. ASSUME NextKind PROVE client'.command = client.command
      BY <1>1, <3>2, NextKindIs DEF Keeps, Fields
    <3>3. ASSUME Fails PROVE client'.command = "none"
      BY <3>3, FailsIs
    <3>4. QED
      BY <1>5, <3>1, <3>2, <3>3 DEF GetResource, ListVersions, Register
  <2>3. QED
    BY <2>1, <2>2
<1>6. CASE Reported
  BY <1>6, FailsIs DEF Reported
<1>7. CASE Resolve \/ CollectThreads \/ ListSessions \/ SkipThread \/ FileThread \/ Settled \/ ResolveSessions
           \/ EnsureCohort \/ ReadMembers \/ CreateVersion
  <2>1. client.command \in {"import", "cohort"}
    BY <1>1, <1>7 DEF Resolve, CollectThreads, ListSessions, SkipThread, FileThread, Settled, ResolveSessions,
       EnsureCohort, ReadMembers, CreateVersion, At, Course
  <2>2. client'.command \in {"none", client.command}
    BY <1>1, <1>7, CommandKept
  <2>3. QED
    BY <2>1, <2>2
<1>8. CASE (\E k \in Edited : EditScript(k)) \/ (\E trace \in Growth : Grow(trace)) \/ (\E j \in DOMAIN jobs : Work(j))
  BY <1>8 DEF EditScript, Grow, Work
<1>9. QED
  BY <1>2, <1>3, <1>4, <1>5, <1>6, <1>7, <1>8 DEF KitaruNext, Steps, kitaruVars

\* What is grouped under a signature of a preset is what the preset finds.
LEMMA GroupedIs ==
  ASSUME NEW traces, NEW presets, NEW sig \in DOMAIN GroupHits(traces, presets), sig[1] = "denied",
         NEW t \in GroupHits(traces, presets)[sig]
  PROVE  t \in traces /\ DeniedToolCalls(t) >= DeniedBar
<1>1. PICK hits : hits = {h \in presets \X traces : h[2] \in MinePreset(traces, h[1])}
  OBVIOUS
<1>2. GroupHits(traces, presets) = [s \in {Signature(h[1], h[2]) : h \in hits} |->
                                       {h[2] : h \in {x \in hits : Signature(x[1], x[2]) = s}}]
  BY <1>1, Zenon DEF GroupHits
<1>3. sig \in {Signature(h[1], h[2]) : h \in hits}
  BY <1>2
<1>4. t \in {h[2] : h \in {x \in hits : Signature(x[1], x[2]) = sig}}
  BY <1>2, <1>3
<1>5. PICK h \in hits : Signature(h[1], h[2]) = sig /\ t = h[2]
  BY <1>4
<1>6. Signature(h[1], h[2])[1] = h[1]
  BY DEF Signature
<1>7. h[1] = "denied" /\ t \in MinePreset(traces, h[1])
  BY <1>1, <1>5, <1>6
<1>8. QED
  BY <1>7 DEF MinePreset

LEMMA MineInit == KitaruInit => MinedIsDenied
<1>1. KitaruInit => client.command # "mine"
  BY IdleIs DEF KitaruInit
<1>2. QED
  BY <1>1 DEF MinedIsDenied

LEMMA MineStep ==
  ASSUME ClientInv, WorldInv, MinedIsDenied, TracesAreWhole, [KitaruNext]_kitaruVars
  PROVE  MinedIsDenied'
<1> SUFFICES ASSUME client'.command = "mine" PROVE MinedIsDenied'
  BY DEF MinedIsDenied
<1>1. CASE UNCHANGED client
  BY <1>1 DEF MinedIsDenied
<1>2. ASSUME NEW presets, Mine(presets) PROVE MinedIsDenied'
  <2>1. PICK report : report = GroupHits(opik, presets)
    OBVIOUS
  <2>2. client' = [Given("mine", "done") EXCEPT !.report = report]
    BY <1>2, <2>1, Zenon DEF Mine
  <2>3. client'.report = report
    BY <2>2, GivenIs DEF Fields
  <2>4. ASSUME NEW sig \in DOMAIN report, sig[1] = "denied", NEW t \in report[sig]
        PROVE  Cardinality({s \in t.spans : s.answer \in {"denied", "lost"}}) >= DeniedBar
    <3>1. t \in opik /\ DeniedToolCalls(t) >= DeniedBar
      BY <2>1, <2>4, GroupedIs
    <3>2. CallsAreWhole(t)
      BY <3>1 DEF WorldInv, TracesAreWhole
    <3>3. /\ DeniedToolCalls(t) \in Nat /\ Cardinality(Refused(t)) \in Nat
          /\ DeniedToolCalls(t) <= Cardinality(Refused(t))
      BY <3>2, DeniedCounted
    <3>4. Cardinality(Refused(t)) >= DeniedBar
      BY <3>1, <3>3 DEF DeniedBar
    <3>5. QED
      BY <3>4 DEF Refused
  <2>5. QED
    BY <2>3, <2>4 DEF MinedIsDenied
<1>3. QED
  BY <1>1, <1>2, MineSteps

-----------------------------------------------------------------------------
(* The commands around Kitaru, in a run of the suite *)

LEMMA KitaruIsPart == (EvalsInit => KitaruInit) /\ ([EvalsNext]_evalsVars => [KitaruNext]_kitaruVars)
BY DEF EvalsInit, EvalsNext, evalsVars

\* However often bootstrap is run, stopped half-way or fails, at the lists of versions too, and
\* a script is edited to and fro, a version is registered again only where the list could not
\* be read, and a run that ends has registered what there is
\* (bootstrap_kitaru.py: a version is matched before it is registered).
THEOREM EvalsRegisteredOnce == EvalsSpec => []RegisteredOnce
<1>1. EvalsInit => RegistryInv
  BY KitaruIsPart, RegistryInit, KitaruData
<1>2. RegistryInv /\ [EvalsNext]_evalsVars => RegistryInv'
  BY KitaruIsPart, RegistryStep
<1>3. RegistryInv => RegisteredOnce
  BY RegistryHolds
<1>4. QED
  BY <1>1, <1>2, <1>3, PTL DEF EvalsSpec

\* A cohort holds Sessions of trials that were graded nought, each version of it more of them
\* than the one before, and no member is ever added again, which the server would refuse
\* (kitaru_cohort.py:25-27).
THEOREM EvalsCohortIsFailures == EvalsSpec => []CohortIsFailures
<1>1. EvalsInit => ImportInv /\ CohortInv
  BY KitaruIsPart, ImportInit, CohortInit, KitaruData
<1>2. ImportInv /\ CohortInv /\ [EvalsNext]_evalsVars => (ImportInv /\ CohortInv)'
  <2> SUFFICES ASSUME ImportInv, CohortInv, [EvalsNext]_evalsVars PROVE ImportInv' /\ CohortInv'
    OBVIOUS
  <2>1. [KitaruNext]_kitaruVars /\ OneTraceAnId /\ GradesAgree
    BY KitaruIsPart, KitaruData
  <2>2. TracesInv
    BY DEF ImportInv
  <2>3. QED
    BY <2>1, <2>2, ImportStep, CohortStep
<1>3. CohortInv => CohortIsFailures
  BY CohortHolds
<1>4. QED
  BY <1>1, <1>2, <1>3, PTL DEF EvalsSpec

\* What is said of the traces is what they say.  The lines of an import are of the threads
\* it collected, "imported" is all that was collected, and no turn is in two Sessions,
\* whatever the Worker ran late and whichever thread grew; and a trace that is mined as
\* denied had calls refused that often (kitaru_import.py:314-340, mine.py:21-31).
THEOREM EvalsTracesAreTold == EvalsSpec => []TracesAreToldTruly
<1>1. EvalsInit => ImportInv /\ ToldInv /\ MinedIsDenied
  BY KitaruIsPart, ImportInit, ToldInit, MineInit, KitaruData
<1>2. ImportInv /\ ToldInv /\ MinedIsDenied /\ [EvalsNext]_evalsVars => (ImportInv /\ ToldInv /\ MinedIsDenied)'
  <2> SUFFICES ASSUME ImportInv, ToldInv, MinedIsDenied, [EvalsNext]_evalsVars
               PROVE  ImportInv' /\ ToldInv' /\ MinedIsDenied'
    OBVIOUS
  <2>1. [KitaruNext]_kitaruVars /\ OneTraceAnId /\ TracesAreWhole
    BY KitaruIsPart, KitaruData
  <2>2. ClientInv /\ WorldInv
    BY DEF ImportInv, TracesInv
  <2>3. QED
    BY <2>1, <2>2, ImportStep, ToldStep, MineStep
<1>3. ImportInv /\ ToldInv /\ MinedIsDenied => TracesAreToldTruly
  BY ToldHolds DEF TracesAreToldTruly
<1>4. QED
  BY <1>1, <1>2, <1>3, PTL DEF EvalsSpec

-----------------------------------------------------------------------------
(* What a run of a case records *)

TurnFields == {"phase", "case", "messages", "tree", "requests", "compactions", "error", "infra"}
Text == {"none", "plain", "asked", "cap"}
Msg == [by : {"model", "tool", "denied"}, text : Text, tool : Tools \union {"none"}, good : BOOLEAN]
ByModel(ms) == {i \in DOMAIN ms : ms[i].by = "model"}

\* A call that was refused is the one just before; a text of the cap's own tells of more
\* requests than it grants; and a tree that is changed was changed by a call not refused.
RefusedAreAsked(ms) == \A i \in DOMAIN ms : ms[i].by = "denied" =>
    i - 1 \in DOMAIN ms /\ ms[i - 1].by = "model" /\ ms[i - 1].tool = ms[i].tool
CutIsOver(ms, cap) == (\E i \in DOMAIN ms : ms[i].text = "cap") => Cardinality(ByModel(ms)) > cap
Written(ms) == \E i \in DOMAIN ms :
    ms[i].by = "model" /\ ms[i].tool = "write" /\ ~(i + 1 \in DOMAIN ms /\ ms[i + 1].by = "denied")

PlainCase(c) == ~Declared[c].compacts /\ Declared[c].prefill = 0
Sound(t) ==
    /\ t.messages \in Seq(Msg) /\ t.requests \in Nat
    /\ RefusedAreAsked(t.messages) /\ CutIsOver(t.messages, Declared[t.case].cap)
    /\ t.phase = "fixture" => t.messages = <<>> /\ t.requests = 0
    /\ t.phase # "ended" => ~t.error /\ ~t.infra
    /\ t.phase = "asking" =>
          Cardinality(ByModel(t.messages)) = t.requests /\ t.requests <= Declared[t.case].cap
    /\ t.phase # "fixture" /\ ~t.infra /\ ~t.error => t.tree = Baseline \/ Written(t.messages)
IsRun(t) ==
    /\ DOMAIN t = TurnFields /\ t.phase \in Phases \union {"none"}
    /\ t.error \in BOOLEAN /\ t.infra \in BOOLEAN
    /\ t.phase # "none" => t.case \in Cases
    /\ t.phase # "none" /\ PlainCase(t.case) => Sound(t)
RunInv == IsRun(turn)

\* One message more at the end of a history.
LEMMA MessageMore ==
  ASSUME NEW ms \in Seq(Msg), NEW m \in Msg
  PROVE  /\ Append(ms, m) \in Seq(Msg) /\ DOMAIN Append(ms, m) = DOMAIN ms \union {Len(ms) + 1}
         /\ Len(Append(ms, m)) = Len(ms) + 1
         /\ \A i \in DOMAIN ms : i \in 1 .. Len(ms) /\ Append(ms, m)[i] = ms[i]
         /\ Append(ms, m)[Len(ms) + 1] = m
         /\ Len(ms) \in Nat /\ DOMAIN ms = 1 .. Len(ms)
  OBVIOUS

LEMMA ModelMore ==
  ASSUME NEW ms \in Seq(Msg), NEW m \in Msg
  PROVE  /\ IsFiniteSet(ByModel(ms)) /\ Cardinality(ByModel(ms)) \in Nat
         /\ m.by = "model" => Cardinality(ByModel(Append(ms, m))) = Cardinality(ByModel(ms)) + 1
         /\ m.by # "model" => ByModel(Append(ms, m)) = ByModel(ms)
<1>1. PICK new : new = Append(ms, m)
  OBVIOUS
<1>2. /\ DOMAIN new = DOMAIN ms \union {Len(ms) + 1}
      /\ \A i \in DOMAIN ms : i \in 1 .. Len(ms) /\ new[i] = ms[i]
      /\ new[Len(ms) + 1] = m
      /\ Len(ms) \in Nat /\ DOMAIN ms = 1 .. Len(ms)
  BY <1>1, MessageMore
<1>3. IsFiniteSet(ByModel(ms)) /\ Cardinality(ByModel(ms)) \in Nat
  <2>1. IsFiniteSet(1 .. Len(ms))
    BY <1>2, FS_Interval
  <2>2. ByModel(ms) \subseteq 1 .. Len(ms)
    BY <1>2 DEF ByModel
  <2>3. QED
    BY <2>1, <2>2, FS_Subset, FS_CardinalityType
<1>4. ASSUME m.by = "model" PROVE Cardinality(ByModel(new)) = Cardinality(ByModel(ms)) + 1
  <2>1. ByModel(new) = ByModel(ms) \union {Len(ms) + 1}
    BY <1>2, <1>4 DEF ByModel
  <2>2. Len(ms) + 1 \notin ByModel(ms)
    BY <1>2 DEF ByModel
  <2>3. QED
    BY <1>3, <2>1, <2>2, FS_AddElement
<1>5. ASSUME m.by # "model" PROVE ByModel(new) = ByModel(ms)
  BY <1>2, <1>5 DEF ByModel
<1>6. QED
  BY <1>1, <1>3, <1>4, <1>5

\* What the messages say of a run goes on with a message of the model's,
LEMMA AskedMore ==
  ASSUME NEW ms \in Seq(Msg), NEW m \in Msg, m.by = "model", NEW cap \in Nat,
         RefusedAreAsked(ms), CutIsOver(ms, cap)
  PROVE  /\ RefusedAreAsked(Append(ms, m))
         /\ m.text # "cap" \/ Cardinality(ByModel(ms)) >= cap => CutIsOver(Append(ms, m), cap)
         /\ Written(ms) => Written(Append(ms, m))
         /\ m.tool = "write" => Written(Append(ms, m))
<1>1. PICK new : new = Append(ms, m)
  OBVIOUS
<1>2. /\ DOMAIN new = DOMAIN ms \union {Len(ms) + 1}
      /\ \A i \in DOMAIN ms : i \in 1 .. Len(ms) /\ new[i] = ms[i]
      /\ new[Len(ms) + 1] = m
      /\ Len(ms) \in Nat /\ DOMAIN ms = 1 .. Len(ms)
  BY <1>1, MessageMore
<1>3. RefusedAreAsked(new)
  <2>1. SUFFICES ASSUME NEW i \in DOMAIN new, new[i].by = "denied"
                 PROVE  i - 1 \in DOMAIN new /\ new[i - 1].by = "model" /\ new[i - 1].tool = new[i].tool
    BY DEF RefusedAreAsked
  <2>2. i \in DOMAIN ms /\ ms[i].by = "denied"
    BY <1>2, <2>1
  <2>3. QED
    BY <1>2, <2>2 DEF RefusedAreAsked
<1>4. ASSUME m.text # "cap" \/ Cardinality(ByModel(ms)) >= cap PROVE CutIsOver(new, cap)
  <2>1. Cardinality(ByModel(new)) = Cardinality(ByModel(ms)) + 1 /\ Cardinality(ByModel(ms)) \in Nat
    BY <1>1, ModelMore
  <2>2. CASE m.text = "cap"
    BY <1>4, <2>1, <2>2 DEF CutIsOver
  <2>3. CASE m.text # "cap"
    BY <1>2, <2>1, <2>3 DEF CutIsOver
  <2>4. QED
    BY <2>2, <2>3
<1>5. ASSUME Written(ms) PROVE Written(new)
  <2>1. PICK i \in DOMAIN ms :
          ms[i].by = "model" /\ ms[i].tool = "write" /\ ~(i + 1 \in DOMAIN ms /\ ms[i + 1].by = "denied")
    BY <1>5 DEF Written
  <2>2. i \in DOMAIN new /\ new[i] = ms[i]
    BY <1>2
  <2>3. ~(i + 1 \in DOMAIN new /\ new[i + 1].by = "denied")
    BY <1>2, <2>1
  <2>4. QED
    BY <2>1, <2>2, <2>3 DEF Written
<1>6. ASSUME m.tool = "write" PROVE Written(new)
  <2>1. Len(ms) + 2 \notin DOMAIN new /\ Len(ms) + 1 + 1 = Len(ms) + 2
    BY <1>2
  <2>2. QED
    BY <1>2, <1>6, <2>1 DEF Written
<1>7. QED
  BY <1>1, <1>3, <1>4, <1>5, <1>6

\* and with what came of a call, the last.
LEMMA ToldMore ==
  ASSUME NEW ms \in Seq(Msg), NEW call \in Msg, call.by = "model", NEW m \in Msg, m.by \in {"tool", "denied"},
         m.tool = call.tool, m.text # "cap", NEW cap \in Nat,
         RefusedAreAsked(Append(ms, call)), CutIsOver(Append(ms, call), cap)
  PROVE  /\ RefusedAreAsked(Append(Append(ms, call), m))
         /\ CutIsOver(Append(Append(ms, call), m), cap)
         /\ Written(ms) => Written(Append(Append(ms, call), m))
         /\ m.by = "tool" /\ Written(Append(ms, call)) => Written(Append(Append(ms, call), m))
<1>1. PICK old, new : old = Append(ms, call) /\ new = Append(old, m)
  OBVIOUS
<1>2. /\ DOMAIN old = DOMAIN ms \union {Len(ms) + 1} /\ Len(old) = Len(ms) + 1 /\ old \in Seq(Msg)
      /\ \A i \in DOMAIN ms : i \in 1 .. Len(ms) /\ old[i] = ms[i]
      /\ old[Len(ms) + 1] = call
      /\ Len(ms) \in Nat /\ DOMAIN ms = 1 .. Len(ms)
  BY <1>1, MessageMore
<1>3. /\ DOMAIN new = DOMAIN old \union {Len(old) + 1}
      /\ \A i \in DOMAIN old : i \in 1 .. Len(old) /\ new[i] = old[i]
      /\ new[Len(old) + 1] = m
      /\ DOMAIN old = 1 .. Len(old)
  BY <1>1, <1>2, MessageMore
<1>4. RefusedAreAsked(new)
  <2>1. SUFFICES ASSUME NEW i \in DOMAIN new, new[i].by = "denied"
                 PROVE  i - 1 \in DOMAIN new /\ new[i - 1].by = "model" /\ new[i - 1].tool = new[i].tool
    BY DEF RefusedAreAsked
  <2>2. CASE i = Len(old) + 1
    <3>1. i - 1 = Len(ms) + 1 /\ i - 1 \in DOMAIN old
      BY <1>2, <2>2
    <3>2. QED
      BY <1>2, <1>3, <2>2, <3>1
  <2>3. CASE i \in DOMAIN old
    <3>1. i - 1 \in DOMAIN old /\ old[i - 1].by = "model" /\ old[i - 1].tool = old[i].tool
      BY <1>1, <1>3, <2>1, <2>3 DEF RefusedAreAsked
    <3>2. QED
      BY <1>3, <2>3, <3>1
  <2>4. QED
    BY <1>3, <2>2, <2>3
<1>5. CutIsOver(new, cap)
  <2>1. ByModel(new) = ByModel(old)
    BY <1>1, <1>2, ModelMore
  <2>2. CutIsOver(old, cap)
    BY <1>1
  <2>3. (\E i \in DOMAIN new : new[i].text = "cap") => \E i \in DOMAIN old : old[i].text = "cap"
    BY <1>3
  <2>4. QED
    BY <2>1, <2>2, <2>3 DEF CutIsOver
<1>6. ASSUME NEW i \in DOMAIN ms, ms[i].by = "model", ms[i].tool = "write",
             ~(i + 1 \in DOMAIN ms /\ ms[i + 1].by = "denied")
      PROVE  Written(new)
  <2>1. i \in DOMAIN new /\ new[i] = ms[i] /\ i + 1 # Len(old) + 1 /\ i + 1 \in DOMAIN old
    BY <1>2, <1>3
  <2>2. ~(i + 1 \in DOMAIN new /\ new[i + 1].by = "denied")
    BY <1>2, <1>3, <1>6, <2>1
  <2>3. QED
    BY <1>6, <2>1, <2>2 DEF Written
<1>7. ASSUME m.by = "tool", NEW i \in DOMAIN old, old[i].by = "model", old[i].tool = "write",
             ~(i + 1 \in DOMAIN old /\ old[i + 1].by = "denied")
      PROVE  Written(new)
  <2>1. i \in DOMAIN new /\ new[i] = old[i]
    BY <1>3
  <2>2. ~(i + 1 \in DOMAIN new /\ new[i + 1].by = "denied")
    BY <1>3, <1>7
  <2>3. QED
    BY <1>7, <2>1, <2>2 DEF Written
<1>8. (Written(ms) => Written(new)) /\ (m.by = "tool" /\ Written(old) => Written(new))
  BY <1>6, <1>7 DEF Written
<1>9. QED
  BY <1>1, <1>4, <1>5, <1>8

-----------------------------------------------------------------------------
LEMMA OneMore == \A ms \in Seq(Msg), m \in Msg : ms \o <<m>> = Append(ms, m)
OBVIOUS

LEMMA TwoMore == \A ms \in Seq(Msg), m, n \in Msg : ms \o <<m, n>> = Append(Append(ms, m), n)
OBVIOUS

LEMMA ReplyIs ==
  ASSUME NEW reply \in Replies
  PROVE  reply.text \in Text \ {"cap"} /\ reply.tool \in Tools \union {"none"} /\ reply.good \in BOOLEAN
BY RegressionAssumption DEF Reply, Text

LEMMA CapIs ==
  ASSUME NEW c \in Cases
  PROVE  Declared[c].cap \in Nat /\ Declared[c].compacts \in BOOLEAN /\ Declared[c].prefill \in Nat
BY RegressionAssumption DEF Declaration

LEMMA NothingSaid ==
  /\ <<>> \in Seq(Msg) /\ RefusedAreAsked(<<>>) /\ Cardinality(ByModel(<<>>)) = 0
  /\ \A cap : CutIsOver(<<>>, cap)
<1>1. ByModel(<<>>) = {} /\ DOMAIN <<>> = {}
  BY DEF ByModel
<1>2. QED
  BY <1>1, FS_EmptySet DEF RefusedAreAsked, CutIsOver

LEMMA FixtureRuns == ASSUME RunInv, BuildFixture PROVE RunInv' /\ turn'.case = turn.case
<1>1. PICK t : t = turn'
  OBVIOUS
<1>2. PICK c : c = turn.case
  OBVIOUS
<1>3. DOMAIN turn = TurnFields /\ turn.phase = "fixture" /\ c \in Cases /\ turn.error \in BOOLEAN /\ turn.infra \in BOOLEAN
  BY <1>2 DEF RunInv, IsRun, BuildFixture
<1>4. /\ DOMAIN t = TurnFields /\ t.case = c /\ t.error = turn.error /\ t.requests = turn.requests
      /\ \/ t.phase = "asking" /\ t.tree = Baseline /\ t.messages = History(c) /\ t.infra = turn.infra
         \/ t.phase = "ended" /\ t.messages = turn.messages /\ t.infra = TRUE
  <2>1. \/ turn' = [turn EXCEPT !.phase = "asking", !.tree = Baseline, !.messages = History(turn.case)]
        \/ turn' = [turn EXCEPT !.phase = "ended", !.infra = TRUE]
    BY DEF BuildFixture
  <2>2. QED
    BY <1>1, <1>2, <1>3, <2>1, Zenon DEF TurnFields
<1>5. ASSUME PlainCase(c) PROVE Sound(t)
  <2>1. turn.messages = <<>> /\ turn.requests = 0
    BY <1>2, <1>3, <1>5 DEF RunInv, IsRun, Sound
  <2>2. History(c) = <<>>
    <3>1. 1 .. Declared[c].prefill = {}
      BY <1>5 DEF PlainCase
    <3>2. QED
      BY <3>1 DEF History
  <2>3. Declared[c].cap \in Nat /\ ~turn.error /\ ~turn.infra
    BY <1>2, <1>3, <1>5, CapIs DEF RunInv, IsRun, Sound
  <2>4. t.messages = <<>> /\ t.requests = 0 /\ t.phase \in {"asking", "ended"}
    BY <1>4, <2>1, <2>2
  <2>5. t.messages \in Seq(Msg) /\ RefusedAreAsked(t.messages) /\ CutIsOver(t.messages, Declared[t.case].cap)
    BY <2>4, NothingSaid, Zenon
  <2>6. t.phase = "asking" => Cardinality(ByModel(t.messages)) = t.requests /\ t.requests <= Declared[t.case].cap
    BY <1>4, <2>3, <2>4, NothingSaid
  <2>7. (t.phase # "ended" => ~t.error /\ ~t.infra) /\ (~t.infra => t.tree = Baseline)
    BY <1>4, <2>3
  <2>8. QED
    BY <2>4, <2>5, <2>6, <2>7 DEF Sound
<1>6. QED
  BY <1>1, <1>2, <1>3, <1>4, <1>5 DEF RunInv, IsRun, Phases

\* A request that is answered: by the cap's own text, past it, or by the model's.
LEMMA AnswerRuns ==
  ASSUME RunInv, CapStops \/ \E reply \in Replies : Answers(reply)
  PROVE  RunInv' /\ turn'.case = turn.case
<1>1. PICK t : t = turn'
  OBVIOUS
<1>2. PICK c, ms : c = turn.case /\ ms = turn.messages
  OBVIOUS
<1>3. /\ DOMAIN turn = TurnFields /\ turn.phase = "asking" /\ c \in Cases
      /\ turn.error \in BOOLEAN /\ turn.infra \in BOOLEAN
  BY <1>2 DEF RunInv, IsRun, CapStops, Answers
<1>4. PICK text \in Text : /\ turn' = Asked(<<Message("model", text, "none", TRUE)>>, "answered")
                           /\ IF text = "cap" THEN OverCap ELSE TRUE
  <2>1. CASE CapStops
    BY <2>1 DEF CapStops, Text
  <2>2. ASSUME NEW reply \in Replies, Answers(reply)
        PROVE  reply.text \in Text /\ reply.text # "cap"
               /\ turn' = Asked(<<Message("model", reply.text, "none", TRUE)>>, "answered")
    BY <2>2, ReplyIs DEF Answers
  <2>3. QED
    BY <2>1, <2>2
<1>5. PICK m : m = Message("model", text, "none", TRUE)
  OBVIOUS
<1>6. m \in Msg /\ m.by = "model" /\ m.text = text
  BY <1>5, <1>4 DEF Message, Msg
<1>7. /\ DOMAIN t = TurnFields /\ t.phase = "answered" /\ t.messages = ms \o <<m>>
      /\ t.requests = turn.requests + 1
      /\ t.case = c /\ t.tree = turn.tree /\ t.error = turn.error /\ t.infra = turn.infra
  <2>1. t = [turn EXCEPT !.messages = turn.messages \o <<m>>, !.phase = "answered", !.requests = turn.requests + 1]
    BY <1>1, <1>4, <1>5 DEF Asked
  <2>2. /\ DOMAIN t = TurnFields
        /\ t.phase = "answered" /\ t.messages = turn.messages \o <<m>> /\ t.requests = turn.requests + 1
        /\ t.case = turn.case /\ t.tree = turn.tree /\ t.error = turn.error /\ t.infra = turn.infra
    BY <1>3, <2>1, Zenon DEF TurnFields
  <2>3. QED
    BY <1>2, <2>2
<1>8. ASSUME PlainCase(c) PROVE Sound(t)
  <2>1. Sound(turn) /\ Declared[c].cap \in Nat
    BY <1>2, <1>3, <1>8, CapIs DEF RunInv, IsRun
  <2>2. /\ ms \in Seq(Msg) /\ RefusedAreAsked(ms) /\ CutIsOver(ms, Declared[c].cap) /\ turn.requests \in Nat
        /\ ~turn.error /\ ~turn.infra /\ Cardinality(ByModel(ms)) = turn.requests
        /\ turn.tree = Baseline \/ Written(ms)
    BY <1>2, <1>3, <2>1 DEF Sound
  <2>3. t.messages = Append(ms, m) /\ t.messages \in Seq(Msg)
    BY <1>6, <1>7, <2>2, OneMore, MessageMore
  <2>4. m.text # "cap" \/ Cardinality(ByModel(ms)) >= Declared[c].cap
    BY <1>2, <1>4, <1>6, <2>1, <2>2 DEF OverCap, D
  <2>5. /\ RefusedAreAsked(t.messages) /\ CutIsOver(t.messages, Declared[c].cap)
        /\ Written(ms) => Written(t.messages)
    BY <1>6, <2>1, <2>2, <2>3, <2>4, AskedMore
  <2>6. t.requests \in Nat
    BY <1>7, <2>2
  <2>7. QED
    BY <1>7, <2>2, <2>3, <2>5, <2>6 DEF Sound
<1>9. QED
  BY <1>1, <1>2, <1>3, <1>7, <1>8 DEF RunInv, IsRun, Phases

\* A call: refused, run, or the turn's end.
LEMMA CallRuns ==
  ASSUME RunInv, NEW reply \in Replies, Calls(reply)
  PROVE  RunInv' /\ turn'.case = turn.case
<1>1. PICK t : t = turn'
  OBVIOUS
<1>2. PICK c, ms : c = turn.case /\ ms = turn.messages
  OBVIOUS
<1>3. /\ DOMAIN turn = TurnFields /\ turn.phase = "asking" /\ c \in Cases
      /\ turn.error \in BOOLEAN /\ turn.infra \in BOOLEAN /\ ~OverCap
  BY <1>2 DEF RunInv, IsRun, Calls
<1>4. PICK call : call = Message("model", reply.text, reply.tool, reply.good)
  OBVIOUS
<1>5. call \in Msg /\ call.by = "model" /\ call.text # "cap" /\ call.tool = reply.tool
  BY <1>4, ReplyIs DEF Message, Msg
<1>6. PICK denied, told : denied = Message("denied", "none", reply.tool, TRUE)
                          /\ told = Message("tool", "none", reply.tool, TRUE)
  OBVIOUS
<1>7. /\ denied \in Msg /\ denied.by = "denied" /\ denied.text = "none" /\ denied.tool = reply.tool
      /\ told \in Msg /\ told.by = "tool" /\ told.text = "none" /\ told.tool = reply.tool
  BY <1>6, ReplyIs DEF Text, Message, Msg
<1>8. PICK tree : /\ reply.tool = "write" \/ tree = turn.tree
                  /\ \/ turn' = Asked(<<call, denied>>, "asking")
                     \/ turn' = [Asked(<<call, told>>, "asking") EXCEPT !.tree = tree]
                     \/ turn' = [Asked(<<call>>, "ended") EXCEPT !.tree = tree, !.error = TRUE]
  <2>1. CASE reply.tool \in D.denies
    BY <1>4, <1>6, <2>1 DEF Calls
  <2>2. CASE reply.tool \notin D.denies
    <3>1. PICK tr : tr = IF reply.tool = "write" THEN turn.tree \union Lines(reply) ELSE turn.tree
      OBVIOUS
    <3>2. \/ turn' = [Asked(<<call, told>>, "asking") EXCEPT !.tree = tr]
          \/ turn' = [Asked(<<call>>, "ended") EXCEPT !.tree = tr, !.error = TRUE]
      BY <1>4, <1>6, <2>2, <3>1 DEF Calls
    <3>3. QED
      BY <3>1, <3>2
  <2>3. QED
    BY <2>1, <2>2
<1>9. /\ DOMAIN t = TurnFields /\ t.case = c /\ t.infra = turn.infra /\ t.requests = turn.requests + 1
      /\ \/ /\ t.messages = ms \o <<call, denied>> /\ t.phase = "asking" /\ t.error = turn.error /\ t.tree = turn.tree
         \/ /\ t.messages = ms \o <<call, told>> /\ t.phase = "asking" /\ t.error = turn.error
            /\ reply.tool = "write" \/ t.tree = turn.tree
         \/ /\ t.messages = ms \o <<call>> /\ t.phase = "ended" /\ t.error = TRUE
  <2>1. CASE turn' = Asked(<<call, denied>>, "asking")
    <3>1. t = [turn EXCEPT !.messages = turn.messages \o <<call, denied>>, !.phase = "asking", !.requests = turn.requests + 1]
      BY <1>1, <2>1 DEF Asked
    <3>2. /\ DOMAIN t = TurnFields
          /\ t.phase = "asking" /\ t.messages = turn.messages \o <<call, denied>> /\ t.requests = turn.requests + 1
          /\ t.case = turn.case /\ t.tree = turn.tree /\ t.error = turn.error /\ t.infra = turn.infra
      BY <1>3, <3>1, Zenon DEF TurnFields
    <3>3. QED
      BY <1>2, <3>2
  <2>2. CASE turn' = [Asked(<<call, told>>, "asking") EXCEPT !.tree = tree]
    <3>1. PICK a : a = [turn EXCEPT !.messages = turn.messages \o <<call, told>>, !.phase = "asking", !.requests = turn.requests + 1]
      OBVIOUS
    <3>2. /\ DOMAIN a = TurnFields
          /\ a.phase = "asking" /\ a.messages = turn.messages \o <<call, told>> /\ a.requests = turn.requests + 1
          /\ a.case = turn.case /\ a.tree = turn.tree /\ a.error = turn.error /\ a.infra = turn.infra
      BY <1>3, <3>1, Zenon DEF TurnFields
    <3>3. t = [a EXCEPT !.tree = tree]
      BY <1>1, <2>2, <3>1 DEF Asked
    <3>4. QED
      BY <1>2, <1>8, <3>2, <3>3 DEF TurnFields
  <2>3. CASE turn' = [Asked(<<call>>, "ended") EXCEPT !.tree = tree, !.error = TRUE]
    <3>1. PICK a : a = [turn EXCEPT !.messages = turn.messages \o <<call>>, !.phase = "ended", !.requests = turn.requests + 1]
      OBVIOUS
    <3>2. /\ DOMAIN a = TurnFields
          /\ a.phase = "ended" /\ a.messages = turn.messages \o <<call>> /\ a.requests = turn.requests + 1
          /\ a.case = turn.case /\ a.tree = turn.tree /\ a.error = turn.error /\ a.infra = turn.infra
      BY <1>3, <3>1, Zenon DEF TurnFields
    <3>3. t = [a EXCEPT !.tree = tree, !.error = TRUE]
      BY <1>1, <2>3, <3>1 DEF Asked
    <3>4. QED
      BY <1>2, <3>2, <3>3 DEF TurnFields
  <2>4. QED
    BY <1>8, <2>1, <2>2, <2>3
<1>10. ASSUME PlainCase(c) PROVE Sound(t)
  <2>1. Sound(turn) /\ Declared[c].cap \in Nat
    BY <1>2, <1>3, <1>10, CapIs DEF RunInv, IsRun
  <2>2. /\ ms \in Seq(Msg) /\ RefusedAreAsked(ms) /\ CutIsOver(ms, Declared[c].cap) /\ turn.requests \in Nat
        /\ ~turn.error /\ ~turn.infra /\ Cardinality(ByModel(ms)) = turn.requests
        /\ turn.tree = Baseline \/ Written(ms)
    BY <1>2, <1>3, <2>1 DEF Sound
  <2>3. turn.requests + 1 <= Declared[c].cap /\ turn.requests + 1 \in Nat
    BY <1>2, <1>3, <2>1, <2>2 DEF OverCap, D
  <2>4. PICK old : old = Append(ms, call)
    OBVIOUS
  <2>5. /\ old \in Seq(Msg) /\ RefusedAreAsked(old) /\ CutIsOver(old, Declared[c].cap)
        /\ Written(ms) => Written(old)
        /\ reply.tool = "write" => Written(old)
        /\ Cardinality(ByModel(old)) = turn.requests + 1
    BY <1>5, <2>1, <2>2, <2>4, AskedMore, ModelMore, MessageMore
  <2>6. CASE t.phase = "ended"
    <3>1. t.messages = old /\ t.error = TRUE
      BY <1>5, <1>9, <2>2, <2>4, <2>6, OneMore
    <3>2. QED
      BY <1>9, <2>2, <2>3, <2>5, <2>6, <3>1 DEF Sound
  <2>7. ASSUME NEW m \in {denied, told}, t.messages = ms \o <<call, m>>, t.phase = "asking", t.error = turn.error,
               t.tree = turn.tree \/ (m.by = "tool" /\ reply.tool = "write")
        PROVE  Sound(t)
    <3>1. m \in Msg /\ m.by \in {"tool", "denied"} /\ m.tool = call.tool /\ m.text # "cap"
      BY <1>5, <1>7, <2>7
    <3>2. t.messages = Append(old, m)
      BY <1>5, <2>2, <2>4, <2>7, <3>1, TwoMore
    <3>3. /\ RefusedAreAsked(t.messages) /\ CutIsOver(t.messages, Declared[c].cap)
          /\ Written(ms) => Written(t.messages)
          /\ m.by = "tool" /\ Written(old) => Written(t.messages)
      BY <1>5, <2>1, <2>2, <2>4, <2>5, <3>1, <3>2, ToldMore
    <3>4. t.messages \in Seq(Msg) /\ ByModel(t.messages) = ByModel(old)
      BY <2>5, <3>1, <3>2, ModelMore, MessageMore
    <3>5. t.tree = Baseline \/ Written(t.messages)
      BY <2>2, <2>5, <2>7, <3>3
    <3>6. QED
      BY <1>9, <2>2, <2>3, <2>5, <2>7, <3>3, <3>4, <3>5 DEF Sound
  <2>8. QED
    BY <1>7, <1>9, <2>6, <2>7
<1>11. QED
  BY <1>1, <1>2, <1>3, <1>9, <1>10 DEF RunInv, IsRun, Phases

\* A run that breaks, and one that would stop.
LEMMA BreakRuns == ASSUME RunInv, Breaks PROVE RunInv' /\ turn'.case = turn.case
<1>1. PICK t, c : t = turn' /\ c = turn.case
  OBVIOUS
<1>2. DOMAIN turn = TurnFields /\ turn.phase = "asking" /\ c \in Cases /\ turn.infra \in BOOLEAN
  BY <1>1 DEF RunInv, IsRun, Breaks
<1>3. PICK ms : ms \in {turn.messages, <<>>} /\ t = [turn EXCEPT !.phase = "ended", !.error = TRUE, !.messages = ms]
  BY <1>1 DEF Breaks
<1>4. /\ DOMAIN t = TurnFields /\ t.phase = "ended" /\ t.error = TRUE /\ t.messages = ms
      /\ t.case = turn.case /\ t.requests = turn.requests /\ t.infra = turn.infra
  BY <1>2, <1>3, Zenon DEF TurnFields
<1>5. ASSUME PlainCase(c) PROVE Sound(t)
  <2>1. Sound(turn)
    BY <1>1, <1>2, <1>5 DEF RunInv, IsRun
  <2>2. ms \in Seq(Msg) /\ RefusedAreAsked(ms) /\ CutIsOver(ms, Declared[c].cap) /\ t.requests \in Nat
    <3>1. CASE ms = <<>>
      BY <1>4, <2>1, <3>1, NothingSaid DEF Sound
    <3>2. CASE ms = turn.messages
      BY <1>1, <1>4, <2>1, <3>2 DEF Sound
    <3>3. QED
      BY <1>3, <3>1, <3>2
  <2>3. QED
    BY <1>1, <1>4, <2>2 DEF Sound
<1>6. QED
  BY <1>1, <1>2, <1>4, <1>5 DEF RunInv, IsRun, Phases

LEMMA StopRuns == ASSUME RunInv, WouldStop PROVE RunInv' /\ turn'.case = turn.case
<1>1. PICK t, c : t = turn' /\ c = turn.case
  OBVIOUS
<1>2. DOMAIN turn = TurnFields /\ turn.phase = "answered" /\ c \in Cases
      /\ turn.error \in BOOLEAN /\ turn.infra \in BOOLEAN
  BY <1>1 DEF RunInv, IsRun, WouldStop
<1>3. CASE t = [turn EXCEPT !.phase = "ended"]
  <2>1. /\ DOMAIN t = TurnFields /\ t.phase = "ended" /\ t.error = turn.error /\ t.messages = turn.messages
        /\ t.case = turn.case /\ t.requests = turn.requests /\ t.infra = turn.infra /\ t.tree = turn.tree
    BY <1>2, <1>3, Zenon DEF TurnFields
  <2>2. ASSUME PlainCase(c) PROVE Sound(t)
    <3>1. Sound(turn)
      BY <1>1, <1>2, <2>2 DEF RunInv, IsRun
    <3>2. QED
      BY <1>2, <2>1, <3>1 DEF Sound
  <2>3. QED
    BY <1>1, <1>2, <2>1, <2>2 DEF RunInv, IsRun, Phases
<1>4. CASE D.compacts
  <2>1. PICK n, ms : \/ t = [turn EXCEPT !.phase = "ended"]
                     \/ t = [turn EXCEPT !.phase = "ended", !.compactions = n, !.messages = ms]
    BY <1>1 DEF WouldStop
  <2>2. /\ DOMAIN t = TurnFields /\ t.phase = "ended" /\ t.error = turn.error
        /\ t.case = turn.case /\ t.infra = turn.infra
    BY <1>2, <2>1, Zenon DEF TurnFields
  <2>3. ~PlainCase(c)
    BY <1>1, <1>4 DEF PlainCase, D
  <2>4. QED
    BY <1>1, <1>2, <2>2, <2>3 DEF RunInv, IsRun, Phases
<1>5. QED
  BY <1>1, <1>3, <1>4 DEF WouldStop

\* A run that begins, of a case that is declared.
LEMMA BeginRuns == ASSUME RunInv, Begin, Head(command.left).case \in Cases PROVE RunInv'
<1>1. PICK t, c : t = turn' /\ c = Head(command.left).case
  OBVIOUS
<1>2. PICK known \in BOOLEAN :
        t = [NoTurn EXCEPT !.phase = IF known THEN "fixture" ELSE "ended", !.infra = ~known, !.case = c]
  <2>1. PICK k : k = ("unknown" \notin Declared[c].keys)
    OBVIOUS
  <2>2. k \in BOOLEAN /\ t = [NoTurn EXCEPT !.phase = IF k THEN "fixture" ELSE "ended", !.infra = ~k, !.case = c]
    BY <1>1, <2>1, Zenon DEF Begin
  <2>3. QED
    BY <2>2
<1>3. /\ DOMAIN t = TurnFields /\ t.phase = (IF known THEN "fixture" ELSE "ended") /\ t.infra = ~known
      /\ t.case = c /\ t.messages = <<>> /\ t.requests = 0 /\ t.error = FALSE
  BY <1>2, Zenon DEF NoTurn, TurnFields
<1>4. t.phase \in {"fixture", "ended"} /\ (t.phase = "fixture" <=> ~t.infra) /\ t.infra \in BOOLEAN
  BY <1>3, Zenon
<1>5. Sound(t)
  <2>1. t.messages \in Seq(Msg) /\ RefusedAreAsked(t.messages) /\ CutIsOver(t.messages, Declared[t.case].cap)
    BY <1>3, NothingSaid, Zenon
  <2>2. QED
    BY <1>3, <1>4, <2>1 DEF Sound
<1>6. QED
  BY <1>1, <1>3, <1>4, <1>5 DEF RunInv, IsRun, Phases

LEMMA NoRun == ASSUME turn' = NoTurn PROVE RunInv'
BY DEF RunInv, IsRun, NoTurn, TurnFields

LEMMA RunSame == ASSUME RunInv, UNCHANGED turn PROVE RunInv'
BY DEF RunInv

-----------------------------------------------------------------------------
\* The last of some places of a history.
LEMMA LastPlace ==
  ASSUME NEW S \in SUBSET Nat, IsFiniteSet(S), S # {}
  PROVE  \E m \in S : \A x \in S : x <= m
<1> DEFINE R == {p \in S \X S : p[1] > p[2]}
           n == Cardinality(S)
<1>1. /\ \A x \in S : <<x, x>> \notin R
      /\ \A x, y, z \in S : <<x, y>> \in R /\ <<y, z>> \in R => <<x, z>> \in R
      /\ \A x, y \in S : x # y => <<x, y>> \in R \/ <<y, x>> \in R
  OBVIOUS
<1>2. n \in Nat /\ n # 0
  BY FS_CardinalityType, FS_EmptySet
<1>3. PICK m \in S : Cardinality(Before(S, R, m)) = 0
  <2> HIDE DEF R
  <2>1. 1 \in 1 .. n
    BY <1>2
  <2>2. /\ \A i \in 1 .. Cardinality(S) : \E x \in S : Cardinality(Before(S, R, x)) = i - 1
        /\ \A x \in S : Cardinality(Before(S, R, x)) + 1 \in 1 .. Cardinality(S)
        /\ \A x, y \in S : Cardinality(Before(S, R, x)) = Cardinality(Before(S, R, y)) => x = y
    BY <1>1, PlacesOfOrder, Zenon
  <2>3. PICK x \in S : Cardinality(Before(S, R, x)) = 1 - 1
    BY <2>1, <2>2
  <2>4. QED
    BY <2>3
<1>4. Before(S, R, m) = {}
  <2>1. IsFiniteSet(Before(S, R, m))
    BY FS_Subset DEF Before
  <2>2. QED
    BY <1>3, <2>1, FS_EmptySet
<1>5. \A x \in S : x <= m
  <2>1. ASSUME NEW x \in S, x > m PROVE FALSE
    <3>1. <<x, m>> \in R
      BY <2>1
    <3>2. QED
      BY <1>4, <3>1 DEF Before
  <2>2. QED
    BY <2>1
<1>6. QED
  BY <1>5

\* What was said last is a text of one of the messages.
LEMMA FinalTextIs ==
  ASSUME NEW ms \in Seq(Msg), turn.messages = ms
  PROVE  /\ FinalText \in Text
         /\ FinalText # "none" => \E i \in DOMAIN ms : ms[i].text = FinalText
<1> DEFINE texts == {i \in ByModel(ms) : ms[i].text # "none"}
<1>1. FinalText = IF texts = {} THEN "none" ELSE ms[CHOOSE i \in texts : \A j \in texts : j <= i].text
  BY DEF FinalText, Responses, ByModel
<1>2. CASE texts = {}
  BY <1>1, <1>2 DEF Text
<1>3. CASE texts # {}
  <2>1. Len(ms) \in Nat /\ DOMAIN ms = 1 .. Len(ms) /\ texts \in SUBSET (1 .. Len(ms))
    BY DEF ByModel
  <2>2. texts \in SUBSET Nat /\ IsFiniteSet(texts)
    <3>1. IsFiniteSet(1 .. Len(ms))
      BY <2>1, FS_Interval
    <3>2. QED
      BY <2>1, <3>1, FS_Subset
  <2>3. \E m \in texts : \A j \in texts : j <= m
    BY <1>3, <2>2, LastPlace
  <2>4. PICK last : last = CHOOSE i \in texts : \A j \in texts : j <= i
    OBVIOUS
  <2>5. last \in texts /\ FinalText = ms[last].text
    BY <1>1, <1>3, <2>3, <2>4
  <2>6. last \in DOMAIN ms /\ ms[last] \in Msg
    BY <2>1, <2>5
  <2>7. QED
    BY <2>5, <2>6 DEF Msg
<1>4. QED
  BY <1>2, <1>3

-----------------------------------------------------------------------------
\* What the scores of a record say.
LEMMA ScoreIs ==
  ASSUME NEW p
  PROVE  /\ Score("not_succeeded", p) = ToolNotSucceeded(p, "write")
         /\ Score("max_steps", p) = MaxSteps(p)
         /\ Score("answered", p) = AnsweredWithoutError(p)
BY Zenon DEF Score

\* As many calls of a tool were refused as were asked for, or all but one that was not.
LEMMA RefusedAreFewer ==
  ASSUME NEW ms \in Seq(Msg), RefusedAreAsked(ms), Written(ms)
  PROVE  Cardinality({i \in DOMAIN ms : ms[i].by = "denied" /\ ms[i].tool = "write"})
            < Cardinality({i \in ByModel(ms) : ms[i].tool = "write"})
<1>1. PICK asked, refused : /\ asked = {i \in ByModel(ms) : ms[i].tool = "write"}
                            /\ refused = {i \in DOMAIN ms : ms[i].by = "denied" /\ ms[i].tool = "write"}
  OBVIOUS
<1>2. Len(ms) \in Nat /\ DOMAIN ms = 1 .. Len(ms)
  OBVIOUS
<1>3. IsFiniteSet(asked) /\ IsFiniteSet(refused) /\ Cardinality(asked) \in Nat /\ Cardinality(refused) \in Nat
  <2>1. IsFiniteSet(1 .. Len(ms))
    BY <1>2, FS_Interval
  <2>2. asked \subseteq 1 .. Len(ms) /\ refused \subseteq 1 .. Len(ms)
    BY <1>1, <1>2 DEF ByModel
  <2>3. QED
    BY <2>1, <2>2, FS_Subset, FS_CardinalityType
<1>4. PICK w \in asked : w + 1 \notin refused
  BY <1>1 DEF Written, ByModel
<1>5. PICK back : back = [i \in refused |-> i - 1]
  OBVIOUS
<1>6. \A i \in refused : i - 1 \in asked \ {w}
  <2>1. ASSUME NEW i \in refused PROVE i - 1 \in asked /\ i - 1 # w
    <3>1. i \in DOMAIN ms /\ ms[i].by = "denied" /\ ms[i].tool = "write"
      BY <1>1
    <3>2. i - 1 \in DOMAIN ms /\ ms[i - 1].by = "model" /\ ms[i - 1].tool = "write"
      BY <3>1 DEF RefusedAreAsked
    <3>3. i - 1 \in asked
      BY <1>1, <3>2 DEF ByModel
    <3>4. i \in Nat /\ w \in Nat
      BY <1>1, <1>2, <3>1 DEF ByModel
    <3>5. i - 1 = w => w + 1 = i
      BY <3>4
    <3>6. QED
      BY <1>4, <3>3, <3>5
  <2>2. QED
    BY <2>1
<1>7. back \in Injection(refused, asked \ {w})
  <2>1. \A i, j \in refused : back[i] = back[j] => i = j
    BY <1>1, <1>2, <1>5
  <2>2. back \in [refused -> asked \ {w}]
    BY <1>5, <1>6
  <2>3. QED
    BY <2>1, <2>2 DEF Injection, IsInjective
<1>8. IsFiniteSet(asked \ {w}) /\ Cardinality(asked \ {w}) = Cardinality(asked) - 1
  BY <1>3, FS_RemoveElement
<1>9. Cardinality(refused) <= Cardinality(asked \ {w})
  BY <1>7, <1>8, FS_Injection
<1>10. QED
  BY <1>1, <1>3, <1>8, <1>9

\* A result whose scores of one are so.
Deserved(result) ==
    LET p == result.payload
        one(m) == Score(m, p) = Said(TRUE)
    IN  Plain(result) /\ ~p.infra =>
          /\ one("not_succeeded") => p.error \/ p.tree = Baseline
          /\ one("max_steps") => p.output # "cap"
          /\ one("answered") => ~p.error /\ p.output \in {"plain", "asked", "cap"}

LEMMA PayloadIs ==
  ASSUME ~turn.infra
  PROVE  /\ Payload.output = FinalText /\ Payload.steps = Cardinality(ByModel(turn.messages))
         /\ Payload.calls = [i \in {j \in ByModel(turn.messages) : turn.messages[j].tool # "none"} |-> turn.messages[i]]
         /\ Payload.denied = [i \in {j \in DOMAIN turn.messages : turn.messages[j].by = "denied"} |-> turn.messages[i]]
         /\ Payload.tree = turn.tree /\ Payload.cap = D.cap /\ Payload.error = turn.error
<1>1. PICK r : r = BuildRecord
  OBVIOUS
<1>2. /\ Payload.output = r.output /\ Payload.steps = r.steps /\ Payload.calls = r.calls /\ Payload.denied = r.denied
      /\ Payload.tree = turn.tree /\ Payload.cap = D.cap /\ Payload.error = turn.error
  BY <1>1 DEF Payload
<1>3. /\ r.output = FinalText /\ r.steps = Cardinality(ByModel(turn.messages))
      /\ r.calls = [i \in {j \in ByModel(turn.messages) : turn.messages[j].tool # "none"} |-> turn.messages[i]]
      /\ r.denied = [i \in {j \in DOMAIN turn.messages : turn.messages[j].by = "denied"} |-> turn.messages[i]]
  BY <1>1 DEF BuildRecord, Responses, ByModel
<1>4. QED
  BY <1>2, <1>3

LEMMA PayloadDeserved ==
  ASSUME RunInv, turn.phase = "ended", NEW result, result.case = turn.case, result.payload = Payload
  PROVE  Deserved(result)
<1>1. PICK p : p = result.payload
  OBVIOUS
<1>2. SUFFICES ASSUME Plain(result), ~p.infra
               PROVE  /\ Score("not_succeeded", p) = Said(TRUE) => p.error \/ p.tree = Baseline
                      /\ Score("max_steps", p) = Said(TRUE) => p.output # "cap"
                      /\ Score("answered", p) = Said(TRUE) => ~p.error /\ p.output \in {"plain", "asked", "cap"}
  BY <1>1 DEF Deserved
<1>3. PICK ms, c : ms = turn.messages /\ c = turn.case
  OBVIOUS
<1>4. p.infra = turn.infra
  BY <1>1 DEF Payload
<1>5. PlainCase(c) /\ c \in Cases /\ turn.error \in BOOLEAN
  BY <1>2, <1>3 DEF Plain, PlainCase, RunInv, IsRun
<1>6. /\ ms \in Seq(Msg) /\ RefusedAreAsked(ms) /\ CutIsOver(ms, Declared[c].cap)
      /\ ~turn.error => turn.tree = Baseline \/ Written(ms)
  BY <1>2, <1>3, <1>4, <1>5 DEF RunInv, IsRun, Sound
<1>7. /\ p.output = FinalText /\ p.steps = Cardinality(ByModel(ms)) /\ p.cap = Declared[c].cap
      /\ p.calls = [i \in {j \in ByModel(ms) : ms[j].tool # "none"} |-> ms[i]]
      /\ p.denied = [i \in {j \in DOMAIN ms : ms[j].by = "denied"} |-> ms[i]]
      /\ p.tree = turn.tree /\ p.error = turn.error
  BY <1>1, <1>2, <1>3, <1>4, PayloadIs DEF D
<1>8. FinalText \in Text /\ (FinalText # "none" => \E i \in DOMAIN ms : ms[i].text = FinalText)
  BY <1>3, <1>6, FinalTextIs
<1>9. ASSUME Score("not_succeeded", p) = Said(TRUE), ~p.error PROVE p.tree = Baseline
  <2>1. ASSUME Written(ms) PROVE FALSE
    <3>1. OfTool(p.calls, "write") = {i \in ByModel(ms) : ms[i].tool = "write"}
      BY <1>7 DEF OfTool
    <3>2. OfTool(p.denied, "write") = {i \in DOMAIN ms : ms[i].by = "denied" /\ ms[i].tool = "write"}
      BY <1>7 DEF OfTool
    <3>3. Count(p.denied, "write") < Count(p.calls, "write")
      BY <1>6, <2>1, <3>1, <3>2, RefusedAreFewer DEF Count
    <3>4. Count(p.denied, "write") \in Nat /\ Count(p.calls, "write") \in Nat
      <4>1. Len(ms) \in Nat /\ DOMAIN ms = 1 .. Len(ms)
        BY <1>6
      <4>2. IsFiniteSet(1 .. Len(ms))
        BY <4>1, FS_Interval
      <4>3. OfTool(p.calls, "write") \subseteq 1 .. Len(ms) /\ OfTool(p.denied, "write") \subseteq 1 .. Len(ms)
        BY <3>1, <3>2, <4>1 DEF ByModel
      <4>4. QED
        BY <4>2, <4>3, FS_Subset, FS_CardinalityType DEF Count
    <3>5. ~(Count(p.calls, "write") - Count(p.denied, "write") <= 0)
      BY <3>3, <3>4
    <3>6. Said(Count(p.calls, "write") - Count(p.denied, "write") <= 0) = Said(TRUE)
      BY <1>9, ScoreIs DEF ToolNotSucceeded
    <3>7. QED
      BY <3>5, <3>6 DEF Said, Whole, Nought, Frac
  <2>2. QED
    BY <1>6, <1>7, <1>9, <2>1
<1>10. ASSUME Score("max_steps", p) = Said(TRUE), p.output = "cap" PROVE FALSE
  <2>1. p.steps <= p.cap
    <3>1. Said(p.steps <= p.cap) = Said(TRUE)
      BY <1>10, ScoreIs DEF MaxSteps
    <3>2. QED
      BY <3>1 DEF Said, Whole, Nought, Frac
  <2>2. Cardinality(ByModel(ms)) > Declared[c].cap
    BY <1>6, <1>7, <1>8, <1>10 DEF CutIsOver
  <2>3. Cardinality(ByModel(ms)) \in Nat /\ Declared[c].cap \in Nat
    <3>1. Len(ms) \in Nat /\ DOMAIN ms = 1 .. Len(ms) /\ ByModel(ms) \subseteq 1 .. Len(ms)
      BY <1>6 DEF ByModel
    <3>2. Len(ms) \in Int /\ 1 \in Int
      BY <3>1
    <3>3. IsFiniteSet(1 .. Len(ms))
      BY <3>2, FS_Interval, Zenon
    <3>4. IsFiniteSet(ByModel(ms))
      BY <3>1, <3>3, FS_Subset
    <3>5. QED
      BY <1>5, <3>4, CapIs, FS_CardinalityType
  <2>4. QED
    BY <1>7, <2>1, <2>2, <2>3
<1>11. ASSUME Score("answered", p) = Said(TRUE) PROVE ~p.error /\ p.output \in {"plain", "asked", "cap"}
  <2>1. Said(~p.error /\ p.output # "none") = Said(TRUE)
    BY <1>2, <1>11, ScoreIs DEF AnsweredWithoutError
  <2>2. ~p.error /\ p.output # "none"
    BY <2>1 DEF Said, Whole, Nought, Frac
  <2>3. QED
    BY <1>7, <1>8, <2>2 DEF Text
<1>12. QED
  BY <1>9, <1>10, <1>11

-----------------------------------------------------------------------------
(* What a gate or the suite is of *)

\* No other checkout reconciles the suite between this one's own reconciling and its run.
SuiteIsOurs == OtherPhases \intersect {"insert", "reconciled"} = {}

CommandFields == {"kind", "phase", "slice", "selected", "left", "missing", "results", "given"}
Ahead == {"idle", "upsert", "select", "delete", "insert", "reconciled"}
Items == {DatasetItem(c) : c \in command.selected}

\* What is graded and what is left are the items selected, each once: so many they are.
Shares(results, left) ==
    /\ left \in Seq(Items) /\ \E S : results \in Seq(S)
    /\ Len(results) + Len(left) = Cardinality(command.selected)
    /\ {[case |-> r.case, version |-> r.version] : r \in ToSet(results)} \union ToSet(left) = Items

SelectInv ==
    /\ DOMAIN command = CommandFields /\ command.phase \in Ahead \union {"running", "finished"}
    /\ command.selected \subseteq Cases
    /\ command.phase \in Ahead => command.results = <<>>
    /\ command.phase = "insert" => suite \union command.missing = Items
    /\ command.phase = "reconciled" => suite = Items
    /\ command.phase = "running" \/ (command.phase = "finished" /\ command.kind # "sync") =>
          Shares(command.results, command.left)
    /\ command.phase = "finished" /\ command.kind # "sync" => command.left = <<>>
    /\ turn.phase # "none" =>
          command.phase = "running" /\ command.left # <<>> /\ turn.case = Head(command.left).case

LEMMA ItemsOnce ==
  ASSUME NEW S \in SUBSET Cases
  PROVE  /\ IsFiniteSet({DatasetItem(c) : c \in S})
         /\ Cardinality({DatasetItem(c) : c \in S}) = Cardinality(S)
<1>1. PICK T, f : T = {DatasetItem(c) : c \in S} /\ f = [c \in S |-> DatasetItem(c)]
  OBVIOUS
<1>2. IsFiniteSet(S)
  BY RegressionAssumption, FS_Subset
<1>3. \A c, d \in S : f[c] = f[d] => c = d
  BY <1>1 DEF DatasetItem
<1>4. f \in [S -> T] /\ \A x \in T : \E c \in S : f[c] = x
  BY <1>1
<1>5. f \in Bijection(S, T)
  BY <1>3, <1>4 DEF Bijection, Injection, Surjection, IsInjective
<1>6. ExistsBijection(S, T)
  BY <1>5 DEF ExistsBijection
<1>7. QED
  BY <1>1, <1>2, <1>6, FS_Bijection

\* A run begins with all that is selected.
LEMMA SharesAtFirst ==
  ASSUME NEW items, items = Items, command.selected \subseteq Cases
  PROVE  Shares(<<>>, SetToSeq(items))
<1>1. IsFiniteSet(items) /\ Cardinality(items) = Cardinality(command.selected)
  BY ItemsOnce DEF Items
<1>2. PICK q : q = SetToSeq(items)
  OBVIOUS
<1>3. q \in Seq(items) /\ Len(q) = Cardinality(items) /\ ToSet(q) = items
  BY <1>1, <1>2, SeqOfSet, Zenon
<1>4. <<>> \in Seq(Items) /\ ToSet(<<>>) = {} /\ Len(<<>>) = 0
  BY DEF ToSet
<1>5. Cardinality(items) \in Nat
  BY <1>1, FS_CardinalityType
<1>6. Len(<<>>) + Len(q) = Cardinality(command.selected)
  BY <1>1, <1>3, <1>4, <1>5
<1>7. {[case |-> r.case, version |-> r.version] : r \in ToSet(<<>>)} \union ToSet(q) = Items
  BY <1>3, <1>4
<1>8. QED
  BY <1>2, <1>3, <1>4, <1>6, <1>7, Zenon DEF Shares

\* A case that ends goes over from what is left to what is graded.
LEMMA SharesGoOn ==
  ASSUME NEW results, NEW left, Shares(results, left), left # <<>>,
         NEW result, result.case = Head(left).case, result.version = Head(left).version
  PROVE  Shares(Append(results, result), Tail(left))
<1>1. PICK S : results \in Seq(S)
  BY DEF Shares
<1>2. PICK more, rest, item : more = Append(results, result) /\ rest = Tail(left) /\ item = Head(left)
  OBVIOUS
<1>3. left \in Seq(Items) /\ Len(results) \in Nat /\ Len(left) \in Nat
  BY <1>1 DEF Shares
<1>4. rest \in Seq(Items) /\ Len(rest) = Len(left) - 1 /\ item \in Items /\ ToSet(left) = {item} \union ToSet(rest)
  <2>1. rest \in Seq(Items) /\ Len(rest) = Len(left) - 1 /\ item \in Items /\ item = left[1] /\ Len(left) > 0
    BY <1>2, <1>3
  <2>2. \A i \in 1 .. Len(rest) : rest[i] = left[i + 1]
    BY <1>2, <1>3
  <2>3. DOMAIN rest = 1 .. Len(rest) /\ DOMAIN left = 1 .. Len(left)
    BY <1>3, <2>1
  <2>4. ToSet(rest) \subseteq ToSet(left) /\ item \in ToSet(left)
    <3>1. ASSUME NEW i \in DOMAIN rest PROVE rest[i] \in ToSet(left)
      <4>1. i + 1 \in DOMAIN left /\ rest[i] = left[i + 1]
        BY <1>3, <2>1, <2>2, <2>3
      <4>2. QED
        BY <4>1 DEF ToSet
    <3>2. 1 \in DOMAIN left
      BY <1>3, <2>1, <2>3
    <3>3. QED
      BY <2>1, <3>1, <3>2 DEF ToSet
  <2>5. ASSUME NEW i \in DOMAIN left PROVE left[i] \in {item} \union ToSet(rest)
    <3>1. CASE i = 1
      BY <2>1, <3>1
    <3>2. CASE i # 1
      <4>1. i - 1 \in 1 .. Len(rest) /\ rest[i - 1] = left[i]
        BY <1>3, <2>1, <2>2, <2>3, <3>2
      <4>2. QED
        BY <2>3, <4>1 DEF ToSet
    <3>3. QED
      BY <3>1, <3>2
  <2>6. QED
    BY <2>1, <2>4, <2>5 DEF ToSet
<1>5. more \in Seq(S \union {result}) /\ Len(more) = Len(results) + 1 /\ ToSet(more) = ToSet(results) \union {result}
  <2>1. results \in Seq(S \union {result})
    BY <1>1
  <2>2. /\ more \in Seq(S \union {result}) /\ Len(more) = Len(results) + 1
        /\ DOMAIN more = DOMAIN results \union {Len(results) + 1} /\ more[Len(results) + 1] = result
        /\ \A i \in DOMAIN results : more[i] = results[i] /\ i \in 1 .. Len(results)
    BY <1>2, <1>3, <2>1
  <2>3. QED
    BY <2>2 DEF ToSet
<1>6. [case |-> result.case, version |-> result.version] = item
  BY <1>2, <1>4 DEF Items, DatasetItem
<1>7. {[case |-> r.case, version |-> r.version] : r \in ToSet(more)} \union ToSet(rest) = Items
  <2>1. {[case |-> r.case, version |-> r.version] : r \in ToSet(more)}
           = {[case |-> r.case, version |-> r.version] : r \in ToSet(results)} \union {item}
    BY <1>5, <1>6
  <2>2. QED
    BY <1>4, <2>1 DEF Shares
<1>8. Len(more) + Len(rest) = Cardinality(command.selected)
  BY <1>3, <1>4, <1>5 DEF Shares
<1>9. QED
  BY <1>2, <1>4, <1>5, <1>7, <1>8 DEF Shares

-----------------------------------------------------------------------------
\* The steps of a command: what it is asked for, and what it finds.
LEMMA ToIs ==
  ASSUME DOMAIN command = CommandFields, NEW phase, To(phase)
  PROVE  /\ DOMAIN command' = CommandFields /\ command'.phase = phase
         /\ command'.kind = command.kind /\ command'.selected = command.selected
         /\ command'.left = command.left /\ command'.results = command.results
<1>1. command' = [command EXCEPT !.phase = phase]
  BY DEF To
<1>2. QED
  BY <1>1, Zenon DEF CommandFields

LEMMA GoneIs ==
  ASSUME NEW next, next = NoCommand \/ \E n : next = [NoCommand EXCEPT !.given = n]
  PROVE  /\ DOMAIN next = CommandFields /\ next.phase = "idle" /\ next.selected = {} /\ next.results = <<>>
<1>1. CASE next = NoCommand
  BY <1>1 DEF NoCommand, CommandFields
<1>2. ASSUME NEW n, next = [NoCommand EXCEPT !.given = n]
      PROVE  DOMAIN next = CommandFields /\ next.phase = "idle" /\ next.selected = {} /\ next.results = <<>>
  BY <1>2 DEF NoCommand, CommandFields
<1>3. QED
  BY <1>1, <1>2

\* A command that is over, or not begun.
LEMMA IdleSelects ==
  ASSUME DOMAIN command' = CommandFields, command'.phase = "idle", command'.selected = {}, command'.results = <<>>,
         turn'.phase = "none"
  PROVE  SelectInv'
BY DEF SelectInv, Ahead

\* A step of a command that has not begun to run, or of another checkout.
LEMMA AheadSelects ==
  ASSUME SelectInv, DOMAIN command' = CommandFields, command'.phase \in Ahead, command'.selected \subseteq Cases,
         command'.results = <<>>, turn'.phase = "none",
         command'.phase = "insert" => suite' \union command'.missing = Items', command'.phase = "reconciled" => suite' = Items'
  PROVE  SelectInv'
BY DEF SelectInv, Ahead

LEMMA GiveSelects ==
  ASSUME SelectInv, NEW kind, NEW slice, NEW route, Give(kind, slice, route)
  PROVE  SelectInv'
<1>1. PICK next : next = command'
  OBVIOUS
<1>2. turn.phase = "none" /\ turn' = turn
  BY DEF SelectInv, Give, OnlyCommand
<1>3. PICK n : \/ next = [NoCommand EXCEPT !.given = n]
               \/ next = [NoCommand EXCEPT !.kind = kind, !.phase = "upsert", !.slice = ScopedName(slice),
                                           !.selected = Runnable(slice), !.given = n]
  BY <1>1 DEF Give
<1>4. /\ DOMAIN next = CommandFields /\ next.phase \in {"idle", "upsert"} /\ next.results = <<>>
      /\ next.selected = {} \/ next.selected = Runnable(slice)
  BY <1>3, Zenon DEF NoCommand, CommandFields
<1>5. next.selected \subseteq Cases
  BY <1>4 DEF Runnable
<1>6. QED
  BY <1>1, <1>2, <1>4, <1>5, AheadSelects DEF Ahead

LEMMA UpsertSelects == ASSUME SelectInv, UpsertDataset PROVE SelectInv'
<1>1. DOMAIN command = CommandFields /\ turn.phase = "none" /\ turn' = turn /\ command.results = <<>>
      /\ command.selected \subseteq Cases
  BY DEF SelectInv, UpsertDataset, Ahead
<1>2. PICK phase \in {"select", "delete"} : To(phase)
  BY DEF UpsertDataset
<1>3. QED
  BY <1>1, <1>2, ToIs, AheadSelects DEF Ahead

LEMMA SelectSelects == ASSUME SelectInv, Select PROVE SelectInv'
<1>1. /\ DOMAIN command = CommandFields /\ turn.phase = "none" /\ turn' = turn /\ command.results = <<>>
      /\ command.selected \subseteq Cases /\ version' = version
  BY DEF SelectInv, Select, Ahead, OnlyCommand
<1>2. PICK items : items = {regDataset[i] : i \in FreshItems}
  OBVIOUS
<1>3. \/ /\ command.selected \subseteq {item.case : item \in items}
         /\ command' = [command EXCEPT !.phase = "running", !.left = SetToSeq(items)]
      \/ Gone
  BY <1>2 DEF Select
<1>4. CASE Gone
  BY <1>1, <1>4, GoneIs, IdleSelects DEF Gone
<1>5. CASE /\ command.selected \subseteq {item.case : item \in items}
           /\ command' = [command EXCEPT !.phase = "running", !.left = SetToSeq(items)]
  <2>1. /\ DOMAIN command' = CommandFields /\ command'.phase = "running" /\ command'.left = SetToSeq(items)
        /\ command'.results = <<>> /\ command'.selected = command.selected
    BY <1>1, <1>5, Zenon DEF CommandFields
  <2>2. \A item \in items : item.case \in command.selected /\ item = DatasetItem(item.case)
    BY <1>2 DEF FreshItems
  <2>3. items = Items
    <3>1. items \subseteq Items
      BY <2>2 DEF Items
    <3>2. ASSUME NEW c \in command.selected PROVE DatasetItem(c) \in items
      BY <1>5, <2>2
    <3>3. QED
      BY <3>1, <3>2 DEF Items
  <2>4. Shares(<<>>, SetToSeq(items))
    BY <1>1, <2>3, SharesAtFirst
  <2>5. Items' = Items
    BY <1>1, <2>1 DEF Items, DatasetItem
  <2>6. Shares(command.results, command.left)'
    BY <2>1, <2>4, <2>5 DEF Shares
  <2>7. QED
    BY <1>1, <2>1, <2>6 DEF SelectInv, Ahead
<1>6. QED
  BY <1>3, <1>4, <1>5

LEMMA DeleteSelects == ASSUME SelectInv, DeleteStale PROVE SelectInv'
<1>1. /\ DOMAIN command = CommandFields /\ turn.phase = "none" /\ turn' = turn /\ command.results = <<>>
      /\ command.selected \subseteq Cases /\ version' = version
      /\ suite' = suite \ Stale(suite, command.selected)
  BY DEF SelectInv, DeleteStale, Ahead
<1>2. PICK missing : missing = {SuiteItem(c) : c \in command.selected} \ suite
  OBVIOUS
<1>3. command' = [command EXCEPT !.phase = "insert", !.missing = missing]
  BY <1>2 DEF DeleteStale
<1>4. /\ DOMAIN command' = CommandFields /\ command'.phase = "insert" /\ command'.missing = missing
      /\ command'.selected = command.selected /\ command'.results = command.results
  BY <1>1, <1>3, Zenon DEF CommandFields
<1>5. suite' \union missing = Items
  BY <1>1, <1>2 DEF Stale, Items, SuiteItem, DatasetItem
<1>6. Items' = Items
  BY <1>1, <1>4 DEF Items, DatasetItem
<1>7. QED
  BY <1>1, <1>4, <1>5, <1>6, AheadSelects DEF Ahead

LEMMA InsertSelects == ASSUME SelectInv, InsertMissing PROVE SelectInv'
<1>1. /\ DOMAIN command = CommandFields /\ turn.phase = "none" /\ turn' = turn /\ command.results = <<>>
      /\ command.selected \subseteq Cases /\ version' = version
      /\ suite' = suite \union command.missing /\ suite \union command.missing = Items
  BY DEF SelectInv, InsertMissing, Ahead
<1>2. suite' = Items
  BY <1>1
<1>3. PICK phase : /\ phase = IF command.kind = "sync" THEN "finished" ELSE "reconciled"
                   /\ command' = [command EXCEPT !.phase = phase, !.missing = {}]
  BY DEF InsertMissing
<1>4. /\ DOMAIN command' = CommandFields /\ command'.phase = phase /\ command'.kind = command.kind
      /\ command'.selected = command.selected /\ command'.results = command.results
  BY <1>1, <1>3, Zenon DEF CommandFields
<1>5. Items' = Items
  BY <1>1, <1>4 DEF Items, DatasetItem
<1>6. CASE command.kind = "sync"
  BY <1>1, <1>3, <1>4, <1>6 DEF SelectInv, Ahead
<1>7. CASE command.kind # "sync"
  BY <1>1, <1>2, <1>3, <1>4, <1>5, <1>7, AheadSelects DEF Ahead
<1>8. QED
  BY <1>6, <1>7

LEMMA TestsSelect == ASSUME SelectInv, RunTests PROVE SelectInv'
<1>1. /\ DOMAIN command = CommandFields /\ turn.phase = "none" /\ turn' = turn /\ command.results = <<>>
      /\ command.selected \subseteq Cases /\ version' = version /\ suite = Items
      /\ command' = [command EXCEPT !.phase = "running", !.left = SetToSeq(suite)]
  BY DEF SelectInv, RunTests, Ahead, OnlyCommand
<1>2. /\ DOMAIN command' = CommandFields /\ command'.phase = "running" /\ command'.left = SetToSeq(suite)
      /\ command'.results = <<>> /\ command'.selected = command.selected
  BY <1>1, Zenon DEF CommandFields
<1>3. PICK items : items = suite
  OBVIOUS
<1>4. Shares(<<>>, SetToSeq(items))
  BY <1>1, <1>3, SharesAtFirst
<1>5. Items' = Items
  BY <1>1, <1>2 DEF Items, DatasetItem
<1>6. Shares(command.results, command.left)'
  BY <1>2, <1>3, <1>4, <1>5 DEF Shares
<1>7. QED
  BY <1>1, <1>2, <1>6 DEF SelectInv, Ahead

-----------------------------------------------------------------------------
\* The steps of a run, as the command sees them.
LEMMA RunningSelects ==
  ASSUME SelectInv, turn.phase # "none", turn'.case = turn.case, UNCHANGED <<version, command>>
  PROVE  SelectInv'
<1>1. command.phase = "running"
  BY DEF SelectInv
<1>2. Items' = Items
  BY DEF Items, DatasetItem
<1>3. Shares(command.results, command.left)'
  BY <1>1, <1>2 DEF SelectInv, Shares
<1>4. QED
  BY <1>1, <1>3 DEF SelectInv, Ahead

LEMMA BeginSelects == ASSUME SelectInv, Begin PROVE SelectInv' /\ Head(command.left).case \in Cases
<1>1. command.phase = "running" /\ command.left # <<>> /\ UNCHANGED <<version, command>>
  BY DEF Begin
<1>2. Items' = Items
  BY <1>1 DEF Items, DatasetItem
<1>3. Shares(command.results, command.left) /\ Shares(command.results, command.left)'
  BY <1>1, <1>2 DEF SelectInv, Shares
<1>4. turn'.case = Head(command.left).case
  <2>1. PICK t, c : t = turn' /\ c = Head(command.left).case
    OBVIOUS
  <2>2. \E phase, infra : t = [NoTurn EXCEPT !.phase = phase, !.infra = infra, !.case = c]
    BY <2>1, Zenon DEF Begin
  <2>3. QED
    BY <2>1, <2>2, Zenon DEF NoTurn
<1>5. Head(command.left).case \in Cases
  <2>1. Head(command.left) \in Items
    BY <1>1, <1>3 DEF Shares
  <2>2. command.selected \subseteq Cases
    BY DEF SelectInv
  <2>3. QED
    BY <2>1, <2>2 DEF Items, DatasetItem
<1>6. QED
  BY <1>1, <1>3, <1>4, <1>5 DEF SelectInv, Ahead

LEMMA EndSelects ==
  ASSUME SelectInv, RunInv, End, \A i \in DOMAIN command.results : Deserved(command.results[i])
  PROVE  SelectInv' /\ \A i \in DOMAIN command'.results : Deserved(command'.results[i])
<1>1. PICK results, left : results = command.results /\ left = command.left
  OBVIOUS
<1>2. PICK result : result = [case |-> turn.case, version |-> Head(command.left).version, payload |-> Payload]
  OBVIOUS
<1>3. /\ DOMAIN command = CommandFields /\ command.phase = "running" /\ left # <<>> /\ turn.phase = "ended"
      /\ turn.case = Head(left).case /\ turn' = NoTurn /\ version' = version
      /\ command' = [command EXCEPT !.left = Tail(left), !.results = Append(results, result)]
      /\ Shares(results, left)
  BY <1>1, <1>2 DEF SelectInv, End
<1>4. /\ DOMAIN command' = CommandFields /\ command'.phase = "running" /\ command'.selected = command.selected
      /\ command'.left = Tail(left) /\ command'.results = Append(results, result)
  BY <1>3, Zenon DEF CommandFields
<1>5. result.case = Head(left).case /\ result.version = Head(left).version /\ result.payload = Payload
  BY <1>1, <1>2, <1>3
<1>6. Shares(Append(results, result), Tail(left))
  BY <1>3, <1>5, SharesGoOn
<1>7. Items' = Items
  BY <1>3, <1>4 DEF Items, DatasetItem
<1>8. Shares(command.results, command.left)'
  <2>1. PICK more, rest : more = Append(results, result) /\ rest = Tail(left)
    OBVIOUS
  <2>2. Shares(more, rest)'
    BY <1>4, <1>6, <1>7, <2>1 DEF Shares
  <2>3. QED
    BY <1>4, <2>1, <2>2
<1>9. turn'.phase = "none"
  BY <1>3 DEF NoTurn
<1>10. SelectInv'
  BY <1>3, <1>4, <1>8, <1>9 DEF SelectInv, Ahead
<1>11. Deserved(result)
  BY <1>3, <1>5, PayloadDeserved
<1>12. ASSUME NEW i \in DOMAIN command'.results PROVE Deserved(command'.results[i])
  <2>1. PICK S : results \in Seq(S)
    BY <1>3 DEF Shares
  <2>2. PICK more : more = Append(results, result)
    OBVIOUS
  <2>3. /\ DOMAIN more = DOMAIN results \union {Len(results) + 1} /\ more[Len(results) + 1] = result
        /\ \A j \in DOMAIN results : more[j] = results[j]
    BY <2>1, <2>2
  <2>4. i \in DOMAIN more /\ command'.results = more
    BY <1>4, <1>12, <2>2
  <2>5. Deserved(more[i])
    BY <1>1, <1>11, <2>3, <2>4
  <2>6. QED
    BY <2>4, <2>5
<1>13. QED
  BY <1>10, <1>12

LEMMA FinishSelects == ASSUME SelectInv, Finish PROVE SelectInv'
<1>1. /\ DOMAIN command = CommandFields /\ command.phase = "running" /\ command.left = <<>> /\ turn.phase = "none"
      /\ To("finished") /\ turn' = turn /\ version' = version /\ Shares(command.results, command.left)
      /\ command.selected \subseteq Cases
  BY DEF SelectInv, Finish, OnlyCommand
<1>2. /\ DOMAIN command' = CommandFields /\ command'.phase = "finished" /\ command'.selected = command.selected
      /\ command'.left = command.left /\ command'.results = command.results
  BY <1>1, ToIs
<1>3. Items' = Items
  BY <1>1, <1>2 DEF Items, DatasetItem
<1>4. Shares(command.results, command.left)'
  BY <1>1, <1>2, <1>3 DEF Shares
<1>5. QED
  BY <1>1, <1>2, <1>4 DEF SelectInv, Ahead

-----------------------------------------------------------------------------
SuiteInv ==
    /\ RunInv /\ SelectInv
    /\ \A i \in DOMAIN command.results : Deserved(command.results[i])

LEMMA SuiteInit == RegInit => SuiteInv
<1> SUFFICES ASSUME RegInit PROVE SuiteInv
  OBVIOUS
<1>1. command = NoCommand /\ turn = NoTurn
  BY DEF RegInit
<1>2. RunInv
  BY <1>1 DEF RunInv, IsRun, NoTurn, TurnFields
<1>3. SelectInv
  BY <1>1 DEF SelectInv, NoCommand, NoTurn, CommandFields, Ahead
<1>4. QED
  BY <1>1, <1>2, <1>3 DEF SuiteInv, NoCommand

LEMMA SuiteStep ==
  ASSUME SuiteInv, SuiteIsOurs, [RegNext]_regVars
  PROVE  SuiteInv'
<1>1. RunInv /\ SelectInv /\ \A i \in DOMAIN command.results : Deserved(command.results[i])
  BY DEF SuiteInv
<1>2. DOMAIN command = CommandFields
  BY <1>1 DEF SelectInv
<1>3. CASE UNCHANGED regVars
  BY <1>1, <1>3 DEF regVars, SuiteInv, RunInv, SelectInv, Shares, Items, DatasetItem
<1>4. ASSUME NEW c \in Cases, EditCase(c) PROVE SuiteInv'
  <2>1. command' = command /\ turn' = turn /\ command.phase = "idle"
    BY <1>4 DEF EditCase
  <2>2. QED
    BY <1>1, <2>1 DEF SuiteInv, RunInv, SelectInv, Ahead
<1>5. ASSUME NEW slice \in Slices, OtherSync(slice) PROVE SuiteInv'
  <2>1. command' = command /\ turn' = turn /\ version' = version /\ command.phase \notin {"insert", "reconciled"}
    BY <1>5 DEF OtherSync, SuiteIsOurs
  <2>2. QED
    BY <1>1, <2>1 DEF SuiteInv, RunInv, SelectInv, Shares, Items, DatasetItem
<1>6. ASSUME NEW slice \in Slices, NEW kind, NEW route, Give(kind, slice, route) PROVE SuiteInv'
  <2>1. turn' = turn
    BY <1>6 DEF Give, OnlyCommand
  <2>2. command'.results = <<>>
    <3>1. PICK next : next = command'
      OBVIOUS
    <3>2. PICK n : \/ next = [NoCommand EXCEPT !.given = n]
                   \/ next = [NoCommand EXCEPT !.kind = kind, !.phase = "upsert", !.slice = ScopedName(slice),
                                               !.selected = Runnable(slice), !.given = n]
      BY <1>6, <3>1 DEF Give
    <3>3. next.results = <<>>
      BY <3>2, Zenon DEF NoCommand
    <3>4. QED
      BY <3>1, <3>3
  <2>3. SelectInv'
    BY <1>1, <1>6, GiveSelects
  <2>4. QED
    BY <1>1, <2>1, <2>2, <2>3, RunSame DEF SuiteInv
<1>7. ASSUME turn' = turn, SelectInv', command'.results = command.results \/ command'.results = <<>> PROVE SuiteInv'
  BY <1>1, <1>7, RunSame DEF SuiteInv
<1>8. CASE UpsertDataset \/ Finish
  <2>1. turn' = turn /\ \E phase : To(phase)
    BY <1>8 DEF UpsertDataset, Finish, OnlyCommand
  <2>2. command'.results = command.results
    BY <1>2, <2>1, ToIs
  <2>3. QED
    BY <1>1, <1>7, <1>8, <2>1, <2>2, UpsertSelects, FinishSelects
<1>r. CASE DeleteStale \/ InsertMissing
  <2>1. turn' = turn
    BY <1>r DEF DeleteStale, InsertMissing
  <2>2. PICK phase, missing : command' = [command EXCEPT !.phase = phase, !.missing = missing]
    BY <1>r DEF DeleteStale, InsertMissing
  <2>3. command'.results = command.results
    BY <1>2, <2>2, Zenon DEF CommandFields
  <2>4. QED
    BY <1>1, <1>7, <1>r, <2>1, <2>3, DeleteSelects, InsertSelects
<1>9. CASE Select \/ RunTests
  <2>1. turn' = turn /\ command'.results \in {command.results, <<>>}
    <3>1. \/ \E left : command' = [command EXCEPT !.phase = "running", !.left = left]
          \/ Gone
      BY <1>9 DEF Select, RunTests
    <3>2. CASE Gone
      BY <1>9, <3>2, GoneIs DEF Gone, Select, RunTests, OnlyCommand
    <3>3. ASSUME NEW left, command' = [command EXCEPT !.phase = "running", !.left = left]
          PROVE  command'.results = command.results
      BY <1>2, <3>3, Zenon DEF CommandFields
    <3>4. QED
      BY <1>9, <3>1, <3>2, <3>3 DEF Select, RunTests, OnlyCommand
  <2>2. QED
    BY <1>1, <1>7, <1>9, <2>1, SelectSelects, TestsSelect
<1>10. CASE ApiError \/ Exit
  <2>1. Gone /\ turn' = turn /\ turn.phase = "none"
    BY <1>1, <1>10 DEF ApiError, Exit, OnlyCommand, SelectInv
  <2>2. DOMAIN command' = CommandFields /\ command'.phase = "idle" /\ command'.selected = {} /\ command'.results = <<>>
    BY <2>1, GoneIs DEF Gone
  <2>3. QED
    BY <1>7, <2>1, <2>2, IdleSelects
<1>11. CASE Begin
  <2>1. command' = command
    BY <1>11 DEF Begin
  <2>2. QED
    BY <1>1, <1>11, <2>1, BeginSelects, BeginRuns DEF SuiteInv
<1>12. CASE BuildFixture \/ CapStops \/ (\E reply \in Replies : Answers(reply) \/ Calls(reply)) \/ Breaks \/ WouldStop
  <2>1. turn.phase # "none" /\ UNCHANGED <<version, command>>
    BY <1>12 DEF BuildFixture, CapStops, Answers, Calls, Breaks, WouldStop, OnlyTurn
  <2>2. RunInv' /\ turn'.case = turn.case
    BY <1>1, <1>12, FixtureRuns, AnswerRuns, CallRuns, BreakRuns, StopRuns
  <2>3. QED
    BY <1>1, <2>1, <2>2, RunningSelects DEF SuiteInv
<1>13. CASE End
  <2>1. turn' = NoTurn
    BY <1>13 DEF End
  <2>2. QED
    BY <1>1, <1>13, <2>1, NoRun, EndSelects DEF SuiteInv
<1>14. QED
  BY <1>3, <1>4, <1>5, <1>6, <1>8, <1>r, <1>9, <1>10, <1>11, <1>12, <1>13 DEF RegNext, Proceed, Run

LEMMA SuiteHolds == SuiteInv => SuiteIsHonest
<1> SUFFICES ASSUME SuiteInv PROVE GradedOnce /\ ScoresAreTrue
  BY DEF SuiteIsHonest
<1>1. ScoresAreTrue
  BY DEF SuiteInv, Deserved, ScoresAreTrue
<1>2. ASSUME command.phase = "finished", command.kind # "sync"
      PROVE  /\ Len(command.results) = Cardinality(command.selected)
             /\ {[case |-> r.case, version |-> r.version] : r \in ToSet(command.results)} = Items
  <2>1. command.left = <<>> /\ Shares(command.results, command.left)
    BY <1>2 DEF SuiteInv, SelectInv
  <2>2. PICK results, S : results = command.results /\ results \in Seq(S)
    BY <2>1 DEF Shares
  <2>3. ToSet(<<>>) = {} /\ Len(<<>>) = 0 /\ Len(results) \in Nat
    BY <2>2 DEF ToSet
  <2>4. QED
    BY <2>1, <2>2, <2>3 DEF Shares
<1>3. QED
  BY <1>1, <1>2 DEF GradedOnce, Items

\* What a gate or the suite says is of its own selection, each case once and as it is now,
\* whatever earlier commands left behind and whoever else reconciled the suite before; and
\* a score of one says what is so (regression.py:294-304, metrics.py).
THEOREM EvalsSuiteIsHonest == ASSUME SuiteIsOurs PROVE EvalsSpec => []SuiteIsHonest
<1>1. EvalsInit => SuiteInv
  BY SuiteInit DEF EvalsInit
<1>2. SuiteInv /\ [EvalsNext]_evalsVars => SuiteInv'
  <2>1. [EvalsNext]_evalsVars => [RegNext]_regVars
    BY DEF EvalsNext, evalsVars
  <2>2. QED
    BY <2>1, SuiteStep
<1>3. SuiteInv => SuiteIsHonest
  BY SuiteHolds
<1>4. QED
  BY <1>1, <1>2, <1>3, PTL DEF EvalsSpec

-----------------------------------------------------------------------------
(* Binomials: the factorials, and the samples of a finite set *)

\* A set of naturals with 0 and every successor has all of them.
LEMMA NatInSet ==
  ASSUME NEW T, 0 \in T, \A n \in Nat : n \in T => n + 1 \in T
  PROVE  Nat \subseteq T
<1>. SUFFICES ASSUME NEW n \in Nat, n \notin T PROVE FALSE
  OBVIOUS
<1>. DEFINE A == {i \in 0..n : i \notin T}
            f == [i \in A |-> i - 1]
<1>1. IsFiniteSet(A) /\ IsFiniteSet(A \ {n}) /\ n \in A
  <2>1. IsFiniteSet(0..n)
    BY FS_Interval
  <2>2. QED
    BY <2>1, FS_Subset
<1>2. f \in [A -> A \ {n}]
  OBVIOUS
<1>3. \A i, j \in A : f[i] = f[j] => i = j
  OBVIOUS
<1>. HIDE DEF A, f
<1>4. Cardinality(A \ {n}) < Cardinality(A)
  <2>1. Cardinality(A) \in Nat /\ Cardinality(A \ {n}) = Cardinality(A) - 1
    BY <1>1, FS_CardinalityType, FS_RemoveElement
  <2>2. QED
    BY <2>1
<1>5. \E i, j \in A : i # j /\ f[i] = f[j]
  BY <1>1, <1>2, <1>4, FS_PigeonHole
<1>6. QED
  BY <1>3, <1>5

\* The factorials up to n.
Tables(n) == {f \in [0 .. n -> Nat] : f[0] = 1 /\ \A i \in 1 .. n : f[i] = i * f[i - 1]}

\* The equation of factorial has a solution: its tables grow, and agree.
LEMMA TableMore ==
  ASSUME NEW n \in Nat, NEW f \in Tables(n)
  PROVE  [i \in 0 .. n + 1 |-> IF i = n + 1 THEN (n + 1) * f[n] ELSE f[i]] \in Tables(n + 1)
<1> DEFINE g == [i \in 0 .. n + 1 |-> IF i = n + 1 THEN (n + 1) * f[n] ELSE f[i]]
<1>1. f \in [0 .. n -> Nat] /\ f[0] = 1 /\ \A i \in 1 .. n : f[i] = i * f[i - 1]
  BY DEF Tables
<1>2. f[n] \in Nat /\ (n + 1) * f[n] \in Nat
  BY <1>1
<1>3. g \in [0 .. n + 1 -> Nat]
  BY <1>1, <1>2
<1>4. g[n + 1] = (n + 1) * f[n] /\ \A i \in 0 .. n : g[i] = f[i]
  OBVIOUS
<1> HIDE DEF g
<1>5. ASSUME NEW i \in 1 .. n + 1 PROVE g[i] = i * g[i - 1]
  <2>1. CASE i = n + 1
    <3>1. n \in 0 .. n /\ i - 1 = n
      BY <2>1
    <3>2. g[i] = (n + 1) * f[n] /\ g[i - 1] = f[n]
      BY <1>4, <2>1, <3>1
    <3>3. QED
      BY <2>1, <3>2
  <2>2. CASE i # n + 1
    <3>1. i \in 1 .. n /\ i \in 0 .. n /\ i - 1 \in 0 .. n
      BY <2>2
    <3>2. f[i] = i * f[i - 1] /\ g[i] = f[i] /\ g[i - 1] = f[i - 1]
      BY <1>1, <1>4, <3>1
    <3>3. QED
      BY <3>2
  <2>3. QED
    BY <2>1, <2>2
<1>6. g[0] = 1
  <2>1. 0 \in 0 .. n
    OBVIOUS
  <2>2. QED
    BY <1>1, <1>4, <2>1
<1>7. g \in Tables(n + 1)
  BY <1>3, <1>5, <1>6 DEF Tables
<1>8. QED
  BY <1>7 DEF g

LEMMA TablesAgree ==
  /\ \A n \in Nat : \E f \in Tables(n) : TRUE
  /\ \A i \in Nat : \A m, n \in Nat : i <= m /\ i <= n =>
        \A f \in Tables(m), g \in Tables(n) : f[i] = g[i]
<1>1. \A n \in Nat : \E f \in Tables(n) : TRUE
  <2> DEFINE T == {n \in Nat : \E f \in Tables(n) : TRUE}
  <2>1. 0 \in T
    <3>1. [i \in 0 .. 0 |-> 1] \in Tables(0)
      BY DEF Tables
    <3>2. QED
      BY <3>1
  <2>2. ASSUME NEW n \in Nat, n \in T PROVE n + 1 \in T
    <3>1. PICK f : f \in Tables(n)
      BY <2>2
    <3>2. \E g : g \in Tables(n + 1)
      BY <3>1, TableMore, Zenon
    <3>3. QED
      BY <3>2
  <2>3. Nat \subseteq T
    <3> HIDE DEF T
    <3>1. QED
      BY <2>1, <2>2, NatInSet
  <2>4. QED
    BY <2>3
<1>2. \A i \in Nat : \A m, n \in Nat : i <= m /\ i <= n =>
        \A f \in Tables(m), g \in Tables(n) : f[i] = g[i]
  <2> DEFINE T == {i \in Nat : \A m, n \in Nat : i <= m /\ i <= n =>
                      \A f \in Tables(m), g \in Tables(n) : f[i] = g[i]}
  <2>1. 0 \in T
    BY DEF Tables
  <2>2. ASSUME NEW i \in Nat, i \in T PROVE i + 1 \in T
    <3>1. SUFFICES ASSUME NEW m \in Nat, NEW n \in Nat, i + 1 <= m, i + 1 <= n,
                          NEW f \in Tables(m), NEW g \in Tables(n)
                   PROVE  f[i + 1] = g[i + 1]
      OBVIOUS
    <3>2. f[i] = g[i]
      BY <2>2, <3>1
    <3>3. i + 1 \in 1 .. m /\ i + 1 \in 1 .. n /\ (i + 1) - 1 = i
      BY <3>1
    <3>4. f[i + 1] = (i + 1) * f[i] /\ g[i + 1] = (i + 1) * g[i]
      BY <3>3 DEF Tables
    <3>5. QED
      BY <3>2, <3>4
  <2>3. Nat \subseteq T
    <3> HIDE DEF T
    <3>1. QED
      BY <2>1, <2>2, NatInSet
  <2>4. QED
    BY <2>3
<1>3. QED
  BY <1>1, <1>2

LEMMA FactorialIs ==
  /\ factorial[0] = 1
  /\ \A n \in Nat : factorial[n] \in Nat \ {0} /\ factorial[n + 1] = (n + 1) * factorial[n]
<1> DEFINE t(n) == CHOOSE f \in Tables(n) : TRUE
           F == [n \in Nat |-> t(n)[n]]
<1>1. \A n \in Nat : t(n) \in Tables(n)
  BY TablesAgree
<1> HIDE DEF t
<1>2. ASSUME NEW n \in Nat PROVE F[n] = IF n = 0 THEN 1 ELSE n * F[n - 1]
  <2>1. t(n) \in Tables(n)
    BY <1>1
  <2>2. CASE n = 0
    BY <2>1, <2>2 DEF Tables
  <2>3. CASE n # 0
    <3>1. n - 1 \in Nat /\ n \in 1 .. n /\ n - 1 <= n
      BY <2>3
    <3>2. t(n - 1) \in Tables(n - 1)
      BY <1>1, <3>1
    <3>3. t(n)[n] = n * t(n)[n - 1]
      BY <2>1, <3>1 DEF Tables
    <3>4. t(n)[n - 1] = t(n - 1)[n - 1]
      BY <2>1, <3>1, <3>2, TablesAgree
    <3>5. QED
      BY <2>3, <3>1, <3>3, <3>4
  <2>4. QED
    BY <2>2, <2>3
<1>3. F = [n \in Nat |-> IF n = 0 THEN 1 ELSE n * F[n - 1]]
  BY <1>2
<1> HIDE DEF F
<1>4. factorial = [n \in Nat |-> IF n = 0 THEN 1 ELSE n * factorial[n - 1]]
  BY <1>3, Zenon DEF factorial
<1>5. factorial[0] = 1 /\ \A n \in Nat : factorial[n + 1] = (n + 1) * factorial[n]
  BY <1>4
<1>6. \A n \in Nat : factorial[n] \in Nat \ {0}
  <2> DEFINE T == {n \in Nat : factorial[n] \in Nat \ {0}}
  <2>1. 0 \in T
    BY <1>5
  <2>2. ASSUME NEW n \in Nat, n \in T PROVE n + 1 \in T
    <3>1. PICK m \in Nat \ {0} : m = factorial[n]
      BY <2>2
    <3>2. factorial[n + 1] = (n + 1) * m
      BY <1>5, <3>1
    <3>3. (n + 1) * m \in Nat \ {0}
      OBVIOUS
    <3>4. QED
      BY <3>2, <3>3
  <2>3. Nat \subseteq T
    <3> HIDE DEF T
    <3>1. QED
      BY <2>1, <2>2, NatInSet
  <2>4. QED
    BY <2>3
<1>7. QED
  BY <1>5, <1>6

\* The samples of k members of a set.
Samples(S, k) == {s \in SUBSET S : Cardinality(s) = k}

LEMMA SamplesFew ==
  ASSUME NEW S, IsFiniteSet(S)
  PROVE  /\ Samples(S, 0) = {{}} /\ Cardinality(Samples(S, 0)) = 1
         /\ Cardinality(Samples(S, Cardinality(S))) = 1
         /\ \A k \in Nat : k > Cardinality(S) => Samples(S, k) = {}
         /\ \A k : IsFiniteSet(Samples(S, k)) /\ Cardinality(Samples(S, k)) \in Nat
<1>1. Samples(S, 0) = {{}}
  <2>1. \A s \in SUBSET S : IsFiniteSet(s) /\ (Cardinality(s) = 0 <=> s = {})
    BY FS_Subset, FS_EmptySet
  <2>2. QED
    BY <2>1, FS_EmptySet DEF Samples
<1>2. Samples(S, Cardinality(S)) = {S}
  BY FS_Subset DEF Samples
<1>3. ASSUME NEW k \in Nat, k > Cardinality(S) PROVE Samples(S, k) = {}
  <2>1. Cardinality(S) \in Nat /\ \A s \in SUBSET S : Cardinality(s) <= Cardinality(S)
    BY FS_Subset, FS_CardinalityType
  <2>2. \A s \in SUBSET S : Cardinality(s) # k
    BY <1>3, <2>1
  <2>3. QED
    BY <2>2 DEF Samples
<1>4. ASSUME NEW k PROVE IsFiniteSet(Samples(S, k)) /\ Cardinality(Samples(S, k)) \in Nat
  <2>1. IsFiniteSet(SUBSET S)
    BY FS_SUBSET
  <2>2. IsFiniteSet(Samples(S, k))
    BY <2>1, FS_Subset DEF Samples
  <2>3. QED
    BY <2>2, FS_CardinalityType
<1>5. Cardinality({{}}) = 1 /\ Cardinality({S}) = 1
  BY FS_Singleton
<1>6. QED
  BY <1>1, <1>2, <1>3, <1>4, <1>5

\* Of one member more: the samples without it, and those with it.
LEMMA SamplesMore ==
  ASSUME NEW S, IsFiniteSet(S), NEW x, x \notin S, NEW k \in Nat
  PROVE  Cardinality(Samples(S \union {x}, k + 1)) =
            Cardinality(Samples(S, k + 1)) + Cardinality(Samples(S, k))
<1> DEFINE Out == Samples(S, k + 1)
           In == {s \union {x} : s \in Samples(S, k)}
<1>1. \A s \in SUBSET S : /\ IsFiniteSet(s) /\ x \notin s
                          /\ Cardinality(s) \in Nat /\ Cardinality(s \union {x}) = Cardinality(s) + 1
  BY FS_Subset, FS_AddElement, FS_CardinalityType
<1>2. Samples(S \union {x}, k + 1) = Out \union In
  <2>1. ASSUME NEW s \in Samples(S \union {x}, k + 1) PROVE s \in Out \union In
    <3>1. s \subseteq S \union {x} /\ Cardinality(s) = k + 1
      BY DEF Samples
    <3>2. CASE x \notin s
      BY <3>1, <3>2 DEF Samples
    <3>3. CASE x \in s
      <4>1. s \ {x} \in SUBSET S /\ s = (s \ {x}) \union {x}
        BY <3>1, <3>3
      <4>2. Cardinality(s \ {x}) = k
        <5>1. PICK r \in SUBSET S : r = s \ {x}
          BY <4>1
        <5>2. Cardinality(r) \in Nat /\ Cardinality(s) = Cardinality(r) + 1
          BY <1>1, <4>1, <5>1
        <5>3. QED
          BY <3>1, <5>1, <5>2
      <4>3. s \ {x} \in Samples(S, k)
        BY <4>1, <4>2 DEF Samples
      <4>4. QED
        BY <4>1, <4>3
    <3>4. QED
      BY <3>2, <3>3
  <2>2. Out \subseteq Samples(S \union {x}, k + 1)
    BY DEF Samples
  <2>3. In \subseteq Samples(S \union {x}, k + 1)
    BY <1>1 DEF Samples
  <2>4. QED
    BY <2>1, <2>2, <2>3
<1>3. Out \intersect In = {}
  BY <1>1 DEF Samples
<1>4. Cardinality(In) = Cardinality(Samples(S, k)) /\ IsFiniteSet(In)
  <2> DEFINE f == [s \in Samples(S, k) |-> s \union {x}]
  <2>1. f \in [Samples(S, k) -> In] /\ \A r \in In : \E s \in Samples(S, k) : f[s] = r
    OBVIOUS
  <2>2. ASSUME NEW r \in Samples(S, k), NEW s \in Samples(S, k), f[r] = f[s] PROVE r = s
    <3>1. x \notin r /\ x \notin s
      BY <1>1 DEF Samples
    <3>2. r \union {x} = s \union {x}
      BY <2>2
    <3>3. QED
      BY <3>1, <3>2
  <2> HIDE DEF f
  <2>3. f \in Bijection(Samples(S, k), In)
    BY <2>1, <2>2 DEF Bijection, Injection, Surjection, IsInjective
  <2>4. IsFiniteSet(Samples(S, k))
    BY SamplesFew
  <2>5. ExistsBijection(Samples(S, k), In)
    BY <2>3 DEF ExistsBijection
  <2> HIDE DEF In
  <2>6. QED
    BY <2>4, <2>5, FS_Bijection
<1> HIDE DEF In
<1>5. IsFiniteSet(Out) /\ Cardinality(Out) \in Nat /\ Cardinality(Samples(S, k)) \in Nat
  BY SamplesFew
<1>6. Cardinality(Out \intersect In) = 0
  BY <1>3, FS_EmptySet
<1> HIDE DEF Out
<1>7. Cardinality(Out \union In) = Cardinality(Out) + Cardinality(In) - Cardinality(Out \intersect In)
  BY <1>4, <1>5, FS_Union
<1>8. \A a, b \in Nat : a + b - 0 = a + b
  OBVIOUS
<1>9. Cardinality(Out \union In) = Cardinality(Out) + Cardinality(Samples(S, k))
  BY <1>4, <1>5, <1>6, <1>7, <1>8
<1>10. QED
  BY <1>2, <1>9, Zenon DEF Out

\* The arithmetic of one row of the triangle: a, b samples of the row before, u = k!,
\* v = (n - k - 1)!, w = n!.
LEMMA PascalRow ==
  ASSUME NEW a \in Nat, NEW b \in Nat, NEW u \in Nat, NEW v \in Nat, NEW w \in Nat,
         NEW k \in Nat, NEW m \in Nat,
         a * (((k + 1) * u) * v) = w, b * (u * ((m + 1) * v)) = w
  PROVE  (a + b) * (((k + 1) * u) * ((m + 1) * v)) = (k + m + 2) * w
<1>1. PICK p \in Nat : p = u * v
  OBVIOUS
<1>2. PICK q \in Nat : q = (k + 1) * p
  OBVIOUS
<1>3. PICK r \in Nat : r = (m + 1) * p
  OBVIOUS
<1>4. ((k + 1) * u) * v = q /\ u * ((m + 1) * v) = r
  BY <1>1, <1>2, <1>3
<1>5. a * q = w /\ b * r = w
  BY <1>4
<1>6. ((k + 1) * u) * ((m + 1) * v) = (m + 1) * q /\ (m + 1) * q = (k + 1) * r
  BY <1>1, <1>2, <1>3
<1>7. a * ((m + 1) * q) = (m + 1) * w
  BY <1>5
<1>8. b * ((k + 1) * r) = (k + 1) * w
  BY <1>5
<1>9. PICK z \in Nat : z = (m + 1) * q
  OBVIOUS
<1>10. (a + b) * z = a * z + b * z
  OBVIOUS
<1>11. a * z = (m + 1) * w /\ b * z = (k + 1) * w
  BY <1>6, <1>7, <1>8, <1>9
<1>12. (m + 1) * w + (k + 1) * w = (k + m + 2) * w
  OBVIOUS
<1>13. QED
  BY <1>6, <1>9, <1>10, <1>11, <1>12

LEMMA SamplesCounted ==
  ASSUME NEW U
  PROVE  \A n \in Nat : \A S \in SUBSET U : IsFiniteSet(S) /\ Cardinality(S) = n =>
            \A k \in 0 .. n : Cardinality(Samples(S, k)) * (factorial[k] * factorial[n - k]) = factorial[n]
<1> DEFINE Counted(n, S, k) == Cardinality(Samples(S, k)) * (factorial[k] * factorial[n - k]) = factorial[n]
           T == {n \in Nat : \A S \in SUBSET U : IsFiniteSet(S) /\ Cardinality(S) = n => \A k \in 0 .. n : Counted(n, S, k)}
<1>1. ASSUME NEW n \in Nat, NEW S \in SUBSET U, IsFiniteSet(S), Cardinality(S) = n
      PROVE  Counted(n, S, 0) /\ Counted(n, S, n)
  <2>1. Cardinality(Samples(S, 0)) = 1 /\ Cardinality(Samples(S, n)) = 1
    BY <1>1, SamplesFew
  <2>2. PICK w \in Nat : w = factorial[n]
    BY FactorialIs
  <2>3. factorial[0] = 1 /\ n - 0 = n /\ n - n = 0 /\ 1 * (1 * w) = w /\ 1 * (w * 1) = w
    BY FactorialIs
  <2>4. QED
    BY <2>1, <2>2, <2>3
<1> HIDE DEF Counted
<1>2. 0 \in T
  BY <1>1
<1>3. ASSUME NEW n \in Nat, n \in T PROVE n + 1 \in T
  <2>1. ASSUME NEW S \in SUBSET U, IsFiniteSet(S), Cardinality(S) = n + 1, NEW k \in 0 .. n + 1
        PROVE  Counted(n + 1, S, k)
    <3>1. CASE k = 0 \/ k = n + 1
      BY <1>1, <2>1, <3>1
    <3>2. CASE k # 0 /\ k # n + 1
      <4>1. PICK x : x \in S
        BY <2>1, FS_EmptySet
      <4>2. PICK R \in SUBSET U : R = S \ {x}
        OBVIOUS
      <4>3. IsFiniteSet(R) /\ Cardinality(R) = n /\ x \notin R /\ S = R \union {x}
        BY <2>1, <4>1, <4>2, FS_RemoveElement
      <4>4. PICK j \in Nat, m \in Nat : k = j + 1 /\ n = j + m + 1
        <5>1. k - 1 \in Nat /\ n - k \in Nat
          BY <3>2
        <5>2. k = (k - 1) + 1 /\ n = (k - 1) + (n - k) + 1
          OBVIOUS
        <5>3. QED
          BY <5>1, <5>2
      <4>5. Counted(n, R, j + 1) /\ Counted(n, R, j)
        <5>1. j + 1 \in 0 .. n /\ j \in 0 .. n
          BY <4>4
        <5>2. QED
          BY <1>3, <4>3, <5>1
      <4>6. PICK a \in Nat, b \in Nat : a = Cardinality(Samples(R, j + 1)) /\ b = Cardinality(Samples(R, j))
        BY <4>3, SamplesFew
      <4>7. Cardinality(Samples(S, k)) = a + b
        BY <4>3, <4>4, <4>6, SamplesMore
      <4>8. PICK u \in Nat, v \in Nat, w \in Nat : u = factorial[j] /\ v = factorial[m] /\ w = factorial[n]
        BY FactorialIs
      <4>9. factorial[j + 1] = (j + 1) * u /\ factorial[m + 1] = (m + 1) * v /\ factorial[n + 1] = (n + 1) * w
        BY <4>8, FactorialIs
      <4>10. n - (j + 1) = m /\ n - j = m + 1 /\ (n + 1) - k = m + 1 /\ n + 1 = j + m + 2
        BY <4>4
      <4>11. a * (((j + 1) * u) * v) = w /\ b * (u * ((m + 1) * v)) = w
        BY <4>5, <4>6, <4>8, <4>9, <4>10 DEF Counted
      <4>12. (a + b) * (((j + 1) * u) * ((m + 1) * v)) = (j + m + 2) * w
        BY <4>11, PascalRow
      <4>13. QED
        BY <4>4, <4>7, <4>9, <4>10, <4>12 DEF Counted
    <3>3. QED
      BY <3>1, <3>2
  <2>2. QED
    BY <2>1
<1>4. Nat \subseteq T
  <2> HIDE DEF T
  <2>1. QED
    BY <1>2, <1>3, NatInSet
<1>5. QED
  BY <1>4 DEF Counted

LEMMA Divided == ASSUME NEW c \in Nat, NEW d \in Nat, d > 0 PROVE (c * d) \div d = c
  OBVIOUS

\* The binomial of the estimator, a quotient of factorials, counts the samples of k
\* (aggregates.py, pass_at_k).
THEOREM ChooseIs ==
  ASSUME NEW S, IsFiniteSet(S), NEW k \in 0 .. Cardinality(S)
  PROVE  choose(Cardinality(S), k) = Cardinality(Samples(S, k))
<1>1. PICK n \in Nat : n = Cardinality(S)
  BY FS_CardinalityType
<1>2. PICK c \in Nat : c = Cardinality(Samples(S, k))
  BY SamplesFew
<1>3. PICK u \in Nat \ {0}, v \in Nat \ {0} : u = factorial[k] /\ v = factorial[n - k]
  <2>1. k \in Nat /\ n - k \in Nat
    BY <1>1
  <2>2. factorial[k] \in Nat \ {0} /\ factorial[n - k] \in Nat \ {0}
    BY <2>1, FactorialIs
  <2>3. QED
    BY <2>2
<1>4. c * (u * v) = factorial[n]
  <2>1. \A m \in Nat : \A R \in SUBSET S : IsFiniteSet(R) /\ Cardinality(R) = m =>
            \A i \in 0 .. m : Cardinality(Samples(R, i)) * (factorial[i] * factorial[m - i]) = factorial[m]
    BY SamplesCounted, Zenon
  <2>2. S \in SUBSET S /\ k \in 0 .. n
    BY <1>1
  <2>3. QED
    BY <1>1, <1>2, <1>3, <2>1, <2>2
<1>5. PICK d \in Nat : d = u * v /\ d > 0
  OBVIOUS
<1>6. (c * d) \div d = c
  BY <1>5, Divided
<1>7. QED
  BY <1>1, <1>2, <1>3, <1>4, <1>5, <1>6 DEF choose

-----------------------------------------------------------------------------
(* A row of the report *)

GradedOf(outcomes) == {j \in DOMAIN outcomes : Graded(outcomes[j])}
FailedOf(outcomes) == {j \in GradedOf(outcomes) : ~Passed(outcomes[j])}
PassedOf(outcomes) == {j \in GradedOf(outcomes) : Passed(outcomes[j])}

\* The pass flags count the graded trials and those of them that passed.
LEMMA PassesAre ==
  ASSUME NEW outcomes, NEW m \in Nat, DOMAIN outcomes = 1 .. m
  PROVE  /\ IsFiniteSet(GradedOf(outcomes)) /\ Cardinality(GradedOf(outcomes)) \in Nat
         /\ Len(GradedPasses(outcomes)) = Cardinality(GradedOf(outcomes))
         /\ GradedPasses(outcomes) = <<>> <=> Cardinality(GradedOf(outcomes)) = 0
         /\ Passes(GradedPasses(outcomes)) = Cardinality(PassedOf(outcomes))
         /\ Cardinality(PassedOf(outcomes)) \in Nat /\ Cardinality(FailedOf(outcomes)) \in Nat
         /\ Cardinality(GradedOf(outcomes)) = Cardinality(PassedOf(outcomes)) + Cardinality(FailedOf(outcomes))
<1>1. PICK G : G = GradedOf(outcomes)
  OBVIOUS
<1>2. G \subseteq 1 .. m /\ IsFiniteSet(1 .. m)
  BY <1>1, FS_Interval DEF GradedOf
<1>3. IsFiniteSet(G) /\ Cardinality(G) \in Nat
  BY <1>2, FS_Subset, FS_CardinalityType
<1>4. PICK q : q = SetToSeq(G)
  OBVIOUS
<1>5. q \in Seq(G) /\ Len(q) = Cardinality(G) /\ ToSet(q) = G /\ IsInjective(q)
  BY <1>3, <1>4, SeqOfSet
<1>6. DOMAIN q = 1 .. Len(q) /\ \A j \in 1 .. Len(q) : q[j] \in G
  BY <1>5
<1>7. \A x \in G : \E j \in 1 .. Len(q) : q[j] = x
  BY <1>5, <1>6 DEF ToSet
<1>8. PICK gp : gp = [j \in 1 .. Len(q) |-> Passed(outcomes[q[j]])]
  OBVIOUS
<1>9. gp = GradedPasses(outcomes)
  BY <1>1, <1>4, <1>6, <1>8, Zenon DEF GradedPasses, GradedOf
<1>10. gp \in Seq(BOOLEAN) /\ Len(gp) = Len(q) /\ DOMAIN gp = 1 .. Len(q)
  <2>1. Len(q) \in Nat
    BY <1>3, <1>5
  <2>2. \A j \in 1 .. Len(q) : Passed(outcomes[q[j]]) \in BOOLEAN
    BY DEF Passed
  <2>3. QED
    BY <1>8, <2>1, <2>2
<1>11. gp = <<>> <=> Cardinality(G) = 0
  BY <1>5, <1>10
<1>12. PICK P : P = PassedOf(outcomes)
  OBVIOUS
<1>13. PICK F : F = FailedOf(outcomes)
  OBVIOUS
<1>14. P \subseteq G /\ F \subseteq G /\ P \union F = G /\ P \intersect F = {}
  BY <1>1, <1>12, <1>13 DEF PassedOf, FailedOf
<1>15. IsFiniteSet(P) /\ Cardinality(P) \in Nat /\ IsFiniteSet(F) /\ Cardinality(F) \in Nat
  BY <1>3, <1>14, FS_Subset, FS_CardinalityType
<1>16. Cardinality(G) = Cardinality(P) + Cardinality(F)
  <2>1. Cardinality(P \intersect F) = 0
    BY <1>14, FS_EmptySet
  <2>2. Cardinality(P \union F) = Cardinality(P) + Cardinality(F) - Cardinality(P \intersect F)
    BY <1>15, FS_Union
  <2>3. \A a, b \in Nat : a + b - 0 = a + b
    OBVIOUS
  <2>4. QED
    BY <1>14, <1>15, <2>1, <2>2, <2>3
<1>17. Passes(gp) = Cardinality(P)
  <2>1. PICK I : I = {j \in DOMAIN gp : gp[j]}
    OBVIOUS
  <2>2. PICK f : f = [j \in I |-> q[j]]
    OBVIOUS
  <2>3. \A j \in 1 .. Len(q) : gp[j] <=> Passed(outcomes[q[j]])
    BY <1>8
  <2>4. I \subseteq 1 .. Len(q) /\ \A j \in 1 .. Len(q) : j \in I <=> Passed(outcomes[q[j]])
    BY <1>10, <2>1, <2>3
  <2>5. \A x \in G : x \in P <=> Passed(outcomes[x])
    BY <1>1, <1>12 DEF PassedOf
  <2>6. f \in [I -> P]
    BY <1>6, <2>2, <2>4, <2>5
  <2>7. \A x \in P : \E j \in I : f[j] = x
    BY <1>7, <1>14, <2>2, <2>4, <2>5
  <2>8. \A i, j \in I : f[i] = f[j] => i = j
    BY <1>5, <1>6, <2>2, <2>4 DEF IsInjective
  <2>9. f \in Bijection(I, P)
    BY <2>6, <2>7, <2>8 DEF Bijection, Injection, Surjection, IsInjective
  <2>10. IsFiniteSet(I)
    <3>1. IsFiniteSet(1 .. Len(q))
      BY <1>3, <1>5, FS_Interval
    <3>2. QED
      BY <2>4, <3>1, FS_Subset
  <2>11. Cardinality(I) = Cardinality(P)
    BY <2>9, <2>10, FS_Bijection DEF ExistsBijection
  <2>12. QED
    BY <2>1, <2>11, Zenon DEF Passes
<1>18. QED
  BY <1>1, <1>3, <1>5, <1>9, <1>10, <1>11, <1>12, <1>13, <1>15, <1>16, <1>17


\* A sample without a win is one of the trials that failed.
LEMMA WonSamples ==
  ASSUME NEW G, IsFiniteSet(G), NEW F \in SUBSET G, NEW k \in Nat,
         NEW W \in SUBSET Samples(G, k), \A s \in Samples(G, k) : s \in W <=> \E j \in s : j \notin F
  PROVE  /\ Cardinality(W) \in Nat
         /\ Cardinality(W) = Cardinality(Samples(G, k)) - Cardinality(Samples(F, k))
         /\ Samples(F, k) = {} => W = Samples(G, k)
<1>1. PICK A, B : A = Samples(G, k) /\ B = Samples(F, k)
  OBVIOUS
<1>2. IsFiniteSet(F)
  BY FS_Subset
<1>3. IsFiniteSet(A) /\ Cardinality(A) \in Nat /\ IsFiniteSet(B) /\ Cardinality(B) \in Nat
  BY <1>1, <1>2, SamplesFew
<1>4. W \subseteq A /\ B \subseteq A /\ W \union B = A /\ W \intersect B = {}
  BY <1>1 DEF Samples
<1>5. IsFiniteSet(W) /\ Cardinality(W) \in Nat
  BY <1>3, <1>4, FS_Subset, FS_CardinalityType
<1>6. Cardinality(W \intersect B) = 0
  BY <1>4, FS_EmptySet
<1>7. Cardinality(W \union B) = Cardinality(W) + Cardinality(B) - Cardinality(W \intersect B)
  BY <1>3, <1>5, FS_Union
<1>8. \A a, b, c \in Nat : c = a + b - 0 => a = c - b
  OBVIOUS
<1>9. Cardinality(W) = Cardinality(A) - Cardinality(B)
  <2>1. Cardinality(A) = Cardinality(W) + Cardinality(B) - 0
    BY <1>4, <1>6, <1>7
  <2>2. PICK a, b, c \in Nat : a = Cardinality(W) /\ b = Cardinality(B) /\ c = Cardinality(A)
    BY <1>3, <1>5
  <2>3. QED
    BY <1>8, <2>1, <2>2
<1>10. B = {} => W = A
  BY <1>4
<1>11. QED
  BY <1>1, <1>5, <1>9, <1>10

\* pass@k of the flags: the share of the samples of k that hold a win.
LEMMA EstimatorIs ==
  ASSUME NEW trials, NEW G, IsFiniteSet(G), NEW F \in SUBSET G,
         trials # <<>>, Len(trials) = Cardinality(G), Passes(trials) \in Nat,
         Passes(trials) + Cardinality(F) = Cardinality(G),
         NEW k \in 1 .. Cardinality(G)
  PROVE  /\ Cardinality(F) < k => PassAtK(trials, k) = Whole /\ Samples(F, k) = {}
         /\ Cardinality(F) >= k => PassAtK(trials, k) =
               Frac(Cardinality(Samples(G, k)) - Cardinality(Samples(F, k)), Cardinality(Samples(G, k)))
<1>1. PICK n, p, f \in Nat : n = Cardinality(G) /\ p = Passes(trials) /\ f = Cardinality(F)
  BY FS_Subset, FS_CardinalityType
<1>2. k \in 1 .. n /\ n # 0 /\ p + f = n /\ n - p = f /\ ~(k > n) /\ ~(k < 1) /\ IsFiniteSet(F)
  BY <1>1, FS_Subset
<1>3. PassAtK(trials, k) = IF f < k THEN Whole ELSE Frac(choose(n, k) - choose(f, k), choose(n, k))
  BY <1>1, <1>2 DEF PassAtK
<1>4. CASE f < k
  <2>1. \A j \in Nat : j > Cardinality(F) => Samples(F, j) = {}
    BY <1>2, SamplesFew
  <2>2. k \in Nat /\ k > Cardinality(F) /\ ~(Cardinality(F) >= k)
    BY <1>1, <1>2, <1>4
  <2>3. Samples(F, k) = {}
    BY <2>1, <2>2
  <2>4. PassAtK(trials, k) = Whole
    BY <1>3, <1>4
  <2>5. QED
    BY <2>2, <2>3, <2>4
<1>5. CASE f >= k
  <2>1. choose(n, k) = Cardinality(Samples(G, k))
    BY <1>1, <1>2, ChooseIs
  <2>2. k \in 0 .. f
    BY <1>2, <1>5
  <2>3. choose(f, k) = Cardinality(Samples(F, k))
    BY <1>1, <1>2, <2>2, ChooseIs
  <2>4. QED
    BY <1>1, <1>2, <1>3, <1>5, <2>1, <2>3
<1>6. QED
  BY <1>1, <1>2, <1>4, <1>5

RowIsHonest(row, outcomes) ==
    LET graded == {j \in DOMAIN outcomes : Graded(outcomes[j])}
        samples(k) == {s \in SUBSET graded : Cardinality(s) = k}
        won(s) == \E j \in s : outcomes[j].status = "agent_ok"
    IN  /\ row.trials = row.graded + row.infra
        /\ \A k \in 1 .. Cardinality(graded) :
              Equal(PassAtK(GradedPasses(outcomes), k),
                    Frac(Cardinality({s \in samples(k) : won(s)}), Cardinality(samples(k))))
        /\ row.flaky <=> Equal(row.passk, Whole) /\ ~Equal(row.hatk, Whole)

\* For any outcomes of a task: no lost trial is in a figure, pass@k is the share of the samples of
\* k graded trials that hold a win, and a task is flaky when some of its graded trials were
\* won and some were not (aggregates.py, _aggregate_task).
THEOREM RowsAreHonest ==
  ASSUME NEW task, NEW m \in Nat, NEW X, task.outcomes \in Seq(X), DOMAIN task.outcomes = 1 .. m
  PROVE  RowIsHonest(AggregateTask(task), task.outcomes)
<1>1. PICK outcomes : outcomes = task.outcomes
  OBVIOUS
<1>2. PICK G, P, F : G = GradedOf(outcomes) /\ P = PassedOf(outcomes) /\ F = FailedOf(outcomes)
  OBVIOUS
<1>3. PICK gp : gp = GradedPasses(outcomes)
  OBVIOUS
<1>4. PICK n, p, f \in Nat : n = Cardinality(G) /\ p = Cardinality(P) /\ f = Cardinality(F)
  BY <1>1, <1>2, PassesAre
<1>5. /\ IsFiniteSet(G) /\ Len(gp) = n /\ (gp = <<>> <=> n = 0) /\ Passes(gp) = p /\ n = p + f
  BY <1>1, <1>2, <1>3, <1>4, PassesAre
<1>6. F \in SUBSET G /\ P \in SUBSET G /\ \A j \in G : j \notin F <=> outcomes[j].status = "agent_ok"
  BY <1>2 DEF PassedOf, FailedOf, Passed
<1>7. Len(outcomes) = n + Lost(outcomes) /\ Len(outcomes) \in Nat /\ Lost(outcomes) \in Nat
  <2>1. PICK L : L = {i \in DOMAIN outcomes : ~Graded(outcomes[i])}
    OBVIOUS
  <2>2. DOMAIN outcomes = 1 .. Len(outcomes) /\ Len(outcomes) \in Nat
    BY <1>1
  <2>3. L \union G = 1 .. Len(outcomes) /\ L \intersect G = {}
    BY <1>2, <2>1, <2>2 DEF GradedOf
  <2>4. IsFiniteSet(1 .. Len(outcomes)) /\ Cardinality(1 .. Len(outcomes)) = Len(outcomes)
    <3>1. PICK l \in Nat : l = Len(outcomes)
      BY <2>2
    <3>2. IsFiniteSet(1 .. l) /\ Cardinality(1 .. l) = l
      BY FS_Interval
    <3>3. QED
      BY <3>1, <3>2
  <2>5. IsFiniteSet(L) /\ Cardinality(L) \in Nat
    BY <2>3, <2>4, FS_Subset, FS_CardinalityType
  <2>6. Cardinality(L \intersect G) = 0
    BY <2>3, FS_EmptySet
  <2>7. Cardinality(L \union G) = Cardinality(L) + Cardinality(G) - Cardinality(L \intersect G)
    BY <1>5, <2>5, FS_Union
  <2>8. \A a, b \in Nat : a + b - 0 = b + a
    OBVIOUS
  <2>9. Len(outcomes) = n + Cardinality(L)
    BY <1>4, <2>3, <2>4, <2>5, <2>6, <2>7, <2>8
  <2>10. Lost(outcomes) = Cardinality(L)
    BY <2>1, Zenon DEF Lost
  <2>11. QED
    BY <2>2, <2>5, <2>9, <2>10
<1>8. PICK row : row = AggregateTask(task)
  OBVIOUS
<1>9. /\ row.trials = Len(outcomes) /\ row.graded = Len(gp) /\ row.infra = Lost(outcomes)
      /\ row.passk = PassAtK(gp, Len(gp)) /\ row.hatk = PassHatK(gp) /\ row.flaky = IsFlaky(gp)
  BY <1>1, <1>3, <1>8 DEF AggregateTask
<1>10. row.trials = row.graded + row.infra
  BY <1>5, <1>7, <1>9
<1>11. ASSUME NEW k \in 1 .. n, NEW W, W = {s \in Samples(G, k) : \E j \in s : outcomes[j].status = "agent_ok"}
       PROVE  Equal(PassAtK(gp, k), Frac(Cardinality(W), Cardinality(Samples(G, k))))
  <2>1. \A s \in Samples(G, k) : s \subseteq G
    BY DEF Samples
  <2>2. W \in SUBSET Samples(G, k) /\ \A s \in Samples(G, k) : s \in W <=> \E j \in s : j \notin F
    BY <1>6, <1>11, <2>1
  <2>3. PICK a, b, w \in Nat : /\ a = Cardinality(Samples(G, k)) /\ b = Cardinality(Samples(F, k))
                               /\ w = Cardinality(W) /\ w = a - b /\ (Samples(F, k) = {} => w = a)
    <3>1. IsFiniteSet(F)
      BY <1>5, <1>6, FS_Subset
    <3>2. Cardinality(Samples(G, k)) \in Nat /\ Cardinality(Samples(F, k)) \in Nat
      BY <1>5, <3>1, SamplesFew
    <3>3. /\ Cardinality(W) \in Nat
          /\ Cardinality(W) = Cardinality(Samples(G, k)) - Cardinality(Samples(F, k))
          /\ Samples(F, k) = {} => W = Samples(G, k)
      <4>1. k \in Nat
        OBVIOUS
      <4>2. IsFiniteSet(G) /\ F \in SUBSET G
        BY <1>5, <1>6
      <4>3. QED
        BY <2>2, <4>1, <4>2, WonSamples, Zenon
    <3>4. QED
      BY <3>2, <3>3
  <2>4. gp # <<>> /\ k \in 1 .. Cardinality(G) /\ Len(gp) = Cardinality(G) /\ Passes(gp) \in Nat
        /\ Passes(gp) + Cardinality(F) = Cardinality(G)
    BY <1>4, <1>5
  <2>5. /\ Cardinality(F) < k => PassAtK(gp, k) = Whole /\ Samples(F, k) = {}
        /\ Cardinality(F) >= k => PassAtK(gp, k) = Frac(a - b, a)
    BY <1>5, <1>6, <2>3, <2>4, EstimatorIs
  <2>6. CASE f < k
    <3>1. PassAtK(gp, k) = Whole /\ w = a
      BY <1>4, <2>3, <2>5, <2>6
    <3>2. 1 * a = a * 1
      OBVIOUS
    <3>3. QED
      BY <2>3, <3>1, <3>2 DEF Equal, Whole, Frac
  <2>7. CASE f >= k
    <3>1. PassAtK(gp, k) = Frac(w, a)
      BY <1>4, <2>3, <2>5, <2>7
    <3>2. QED
      BY <2>3, <3>1 DEF Equal, Frac
  <2>8. QED
    BY <2>6, <2>7
<1>12. row.flaky <=> Equal(row.passk, Whole) /\ ~Equal(row.hatk, Whole)
  <2>1. row.flaky <=> 0 < p /\ p < n
    BY <1>5, <1>9 DEF IsFlaky
  <2>2. CASE n = 0
    <3>1. row.passk = Nought /\ p = 0
      BY <1>5, <1>9, <2>2 DEF PassAtK
    <3>2. QED
      BY <2>1, <3>1 DEF Equal, Nought, Whole, Frac
  <2>3. CASE n # 0
    <3>1. Equal(row.hatk, Whole) <=> p = n
      BY <1>5, <1>9, <2>3 DEF PassHatK, Equal, Nought, Whole, Frac
    <3>2. n \in 1 .. Cardinality(G) /\ Len(gp) = Cardinality(G) /\ Passes(gp) \in Nat /\ gp # <<>>
          /\ Passes(gp) + Cardinality(F) = Cardinality(G)
      BY <1>4, <1>5, <2>3
    <3>3. /\ f < n => row.passk = Whole
          /\ f >= n => row.passk = Frac(Cardinality(Samples(G, n)) - Cardinality(Samples(F, n)),
                                        Cardinality(Samples(G, n)))
      <4>1. /\ Cardinality(F) < n => PassAtK(gp, n) = Whole /\ Samples(F, n) = {}
            /\ Cardinality(F) >= n => PassAtK(gp, n) =
                  Frac(Cardinality(Samples(G, n)) - Cardinality(Samples(F, n)), Cardinality(Samples(G, n)))
        BY <1>5, <1>6, <3>2, EstimatorIs
      <4>2. row.passk = PassAtK(gp, n)
        BY <1>5, <1>9
      <4>3. QED
        BY <1>4, <4>1, <4>2
    <3>4. CASE f < n
      <4>1. row.passk = Whole /\ p > 0
        BY <1>5, <3>3, <3>4
      <4>2. Equal(row.passk, Whole)
        BY <4>1 DEF Equal, Whole, Frac
      <4>3. p = n \/ p < n
        BY <1>5
      <4>4. QED
        BY <2>1, <3>1, <4>1, <4>2, <4>3
    <3>5. CASE f >= n
      <4>1. p = 0 /\ f = n
        BY <1>5, <3>5
      <4>2. IsFiniteSet(F)
        BY <1>5, <1>6, FS_Subset
      <4>3. Cardinality(Samples(G, n)) = 1 /\ Cardinality(Samples(F, n)) = 1
        <5>1. Cardinality(Samples(G, Cardinality(G))) = 1 /\ Cardinality(Samples(F, Cardinality(F))) = 1
          BY <1>5, <4>2, SamplesFew
        <5>2. QED
          BY <1>4, <4>1, <5>1
      <4>4. row.passk = Frac(0, 1)
        BY <3>3, <3>5, <4>3
      <4>5. QED
        BY <2>1, <4>1, <4>4 DEF Equal, Whole, Frac
    <3>6. QED
      BY <3>4, <3>5
  <2>4. QED
    BY <2>2, <2>3
<1>13. QED
  <2>1. G = {j \in DOMAIN outcomes : Graded(outcomes[j])}
    BY <1>2 DEF GradedOf
  <2>2. \A k \in 1 .. Cardinality(G) :
              Equal(PassAtK(gp, k),
                    Frac(Cardinality({s \in Samples(G, k) : \E j \in s : outcomes[j].status = "agent_ok"}), Cardinality(Samples(G, k))))
    BY <1>4, <1>11
  <2>3. RowIsHonest(row, outcomes)
    BY <1>3, <1>10, <1>12, <2>1, <2>2, Zenon DEF RowIsHonest, Samples
  <2>4. QED
    BY <1>1, <1>8, <2>3

-----------------------------------------------------------------------------
(* What a job runs and reports *)

\* From the selection of the items to the report the author edits no task; an edit between the
\* sync and the selection is let in, and makes the job refuse.
TasksRest == EditPhases \intersect {"running", "done"} = {}

\* Each item Opik held before that has an id has a checksum.  One without is taken for a task
\* that was not selected, which has none either (OnlySelectedRun of Benchmark).
ItemsAreStamped == \A items \in Datasets : \A i \in DOMAIN items : items[i].id => items[i].version # NoChecksum

JobPhases == {"idle", "refused", "synced", "running", "done"}

\* What the job selected of the dataset: of each task one item, of the version on disk.
ItemsAreFresh ==
    /\ \A i \in job.items : /\ i \in DOMAIN dataset /\ dataset[i].task \in job.selected
                            /\ dataset[i].version = disk[dataset[i].task]
    /\ \A i, j \in job.items : dataset[i].task = dataset[j].task => i = j
    /\ \A t \in job.selected : \E i \in job.items : dataset[i].task = t

JobInv ==
    /\ disk \in [Tasks -> {0, 1}]
    /\ dataset \in Seq(ToSet(dataset))
    /\ \A i \in DOMAIN dataset : dataset[i].id => dataset[i].version # NoChecksum
    /\ job = [phase |-> job.phase, selected |-> job.selected, items |-> job.items]
    /\ job.phase \in JobPhases /\ job.selected \subseteq Tasks
    /\ job.phase \in {"running", "done"} => ItemsAreFresh /\ DOMAIN trial = job.items \X (1 .. Trials)

LEMMA JobInit == ASSUME BenchInit, ItemsAreStamped PROVE JobInv
<1>1. dataset \in Datasets
  BY DEF BenchInit
<1>2. dataset \in Seq(ToSet(dataset))
  BY <1>1, BenchmarkAssumption
<1>3. QED
  BY <1>1, <1>2 DEF BenchInit, JobInv, JobPhases, ItemsAreStamped

LEMMA UpsertIs ==
  ASSUME NEW items, items \in Seq(ToSet(items)), NEW new, IsFiniteSet(new)
  PROVE  /\ Upsert(items, new) \in Seq(ToSet(Upsert(items, new)))
         /\ \A i \in DOMAIN Upsert(items, new) :
               (\E j \in DOMAIN items : Upsert(items, new)[i] = items[j]) \/ Upsert(items, new)[i] \in new
<1>1. PICK fresh : fresh = {item \in new : \A i \in DOMAIN items :
                              items[i].task # item.task \/ items[i].version # item.version}
  OBVIOUS
<1>2. IsFiniteSet(fresh) /\ fresh \subseteq new
  BY <1>1, FS_Subset
<1>3. PICK q : q = SetToSeq(fresh)
  OBVIOUS
<1>4. q \in Seq(fresh)
  BY <1>2, <1>3, SeqOfSet
<1>5. PICK all : all = items \o q
  OBVIOUS
<1>6. all = Upsert(items, new)
  BY <1>1, <1>3, <1>5, Zenon DEF Upsert
<1>7. PICK X : X = ToSet(items) \union fresh
  OBVIOUS
<1>8. items \in Seq(X) /\ q \in Seq(X)
  BY <1>4, <1>7
<1>9. /\ all \in Seq(X) /\ DOMAIN all = 1 .. Len(items) + Len(q)
      /\ \A i \in 1 .. Len(items) + Len(q) : all[i] = IF i <= Len(items) THEN items[i] ELSE q[i - Len(items)]
  BY <1>5, <1>8
<1>10. ASSUME NEW i \in DOMAIN all PROVE (\E j \in DOMAIN items : all[i] = items[j]) \/ all[i] \in new
  <2>1. CASE i <= Len(items)
    <3>1. i \in DOMAIN items
      BY <1>8, <1>9, <2>1
    <3>2. QED
      BY <1>9, <2>1, <3>1
  <2>2. CASE ~(i <= Len(items))
    <3>1. i - Len(items) \in 1 .. Len(q)
      BY <1>8, <1>9, <2>2
    <3>2. q[i - Len(items)] \in fresh
      BY <1>4, <3>1
    <3>3. QED
      BY <1>2, <1>9, <2>2, <3>2
  <2>3. QED
    BY <2>1, <2>2
<1>11. all \in Seq(ToSet(all))
  BY <1>9 DEF ToSet
<1>12. QED
  BY <1>6, <1>10, <1>11

LEMMA SyncJob == ASSUME JobInv, NEW filter \in Filters, Sync(filter) PROVE JobInv'
<1> DEFINE selected == SelectTasks(filter)
           new == {BenchmarkItem(t) : t \in selected}
<1>1. selected \subseteq Tasks
  BY DEF SelectTasks
<1>2. UNCHANGED disk /\ job.phase = "idle"
  BY DEF Sync
<1>3. CASE Refuse /\ UNCHANGED dataset
  <2>1. job' = [phase |-> "refused", selected |-> job.selected, items |-> job.items]
    BY <1>3 DEF Refuse, JobInv
  <2>2. QED
    BY <1>2, <1>3, <2>1 DEF JobInv, JobPhases
<1>4. CASE dataset' = Upsert(dataset, new) /\ job' = [job EXCEPT !.phase = "synced", !.selected = selected]
  <2>1. job' = [phase |-> "synced", selected |-> selected, items |-> job.items]
    <3> HIDE DEF selected
    <3>1. QED
      BY <1>4 DEF JobInv
  <2>2. IsFiniteSet(selected)
    BY <1>1, BenchmarkAssumption, FS_Subset
  <2>3. IsFiniteSet(new)
    <3>1. PICK f : f = [t \in selected |-> BenchmarkItem(t)]
      OBVIOUS
    <3>2. f \in Surjection(selected, new)
      BY <3>1 DEF Surjection
    <3>3. QED
      BY <2>2, <3>2, FS_Surjection
  <2>4. \A item \in new : item.version # NoChecksum
    BY <1>1 DEF BenchmarkItem, NoChecksum, JobInv
  <2> HIDE DEF selected, new
  <2>5. dataset' \in Seq(ToSet(dataset')) /\ \A i \in DOMAIN dataset' :
          (\E j \in DOMAIN dataset : dataset'[i] = dataset[j]) \/ dataset'[i] \in new
    BY <1>4, <2>3, UpsertIs DEF JobInv
  <2>6. \A i \in DOMAIN dataset' : dataset'[i].id => dataset'[i].version # NoChecksum
    BY <2>4, <2>5 DEF JobInv
  <2>7. QED
    BY <1>1, <1>2, <2>1, <2>5, <2>6 DEF JobInv, JobPhases
<1>5. QED
  BY <1>3, <1>4 DEF Sync

\* The first item of each task among those that match.
LEMMA FirstItems ==
  ASSUME JobInv, job.selected \subseteq {dataset[i].task : i \in SelectedItems}
  PROVE  /\ \A i \in SelectedItems : /\ i \in DOMAIN dataset /\ dataset[i].task \in job.selected
                                     /\ dataset[i].version = disk[dataset[i].task]
         /\ \A i, j \in SelectedItems : dataset[i].task = dataset[j].task => i = j
         /\ \A t \in job.selected : \E i \in SelectedItems : dataset[i].task = t
<1>1. DOMAIN dataset = 1 .. Len(dataset) /\ Len(dataset) \in Nat
  BY DEF JobInv
<1>2. ASSUME NEW i \in SelectedItems
      PROVE  /\ i \in DOMAIN dataset /\ dataset[i].task \in job.selected
             /\ dataset[i].version = disk[dataset[i].task]
  <2>1. i \in DOMAIN dataset /\ dataset[i].id /\ dataset[i].version = Checksum(dataset[i].task)
    BY DEF SelectedItems, Matches
  <2>2. Checksum(dataset[i].task) # NoChecksum
    BY <2>1 DEF JobInv
  <2>3. QED
    BY <2>1, <2>2 DEF Checksum
<1>3. ASSUME NEW i \in SelectedItems, NEW j \in SelectedItems, dataset[i].task = dataset[j].task PROVE i = j
  <2>1. i \in 1 .. Len(dataset) /\ j \in 1 .. Len(dataset) /\ Matches(i) /\ Matches(j)
    BY <1>1 DEF SelectedItems
  <2>2. ~(i \in 1 .. j - 1) /\ ~(j \in 1 .. i - 1)
    BY <1>3, <2>1 DEF SelectedItems
  <2>3. QED
    BY <1>1, <2>1, <2>2
<1>4. QED
  BY <1>2, <1>3

LEMMA EvaluateJob == ASSUME JobInv, Evaluate PROVE JobInv'
<1> DEFINE items == SelectedItems
<1>1. UNCHANGED <<disk, dataset>> /\ job.phase = "synced"
  BY DEF Evaluate
<1>2. CASE Refuse
  <2>1. job' = [phase |-> "refused", selected |-> job.selected, items |-> job.items]
    BY <1>2 DEF Refuse, JobInv
  <2>2. QED
    BY <1>1, <2>1 DEF JobInv, JobPhases
<1>3. CASE /\ job.selected \subseteq {dataset[i].task : i \in items}
           /\ job' = [job EXCEPT !.phase = "running", !.items = items]
           /\ trial' = [p \in items \X (1 .. Trials) |-> NewTrial]
  <2>1. /\ \A i \in items : /\ i \in DOMAIN dataset /\ dataset[i].task \in job.selected
                            /\ dataset[i].version = disk[dataset[i].task]
        /\ \A i, j \in items : dataset[i].task = dataset[j].task => i = j
        /\ \A t \in job.selected : \E i \in items : dataset[i].task = t
    BY <1>3, FirstItems
  <2> HIDE DEF items
  <2>2. job' = [phase |-> "running", selected |-> job.selected, items |-> items]
    BY <1>3 DEF JobInv
  <2>3. DOMAIN trial' = items \X (1 .. Trials)
    BY <1>3
  <2>4. ItemsAreFresh'
    BY <1>1, <2>1, <2>2 DEF ItemsAreFresh
  <2>5. QED
    BY <1>1, <2>2, <2>3, <2>4 DEF JobInv, JobPhases
<1>4. QED
  BY <1>2, <1>3 DEF Evaluate

LEMMA SameJob ==
  ASSUME JobInv, UNCHANGED <<disk, dataset, job>>, DOMAIN trial' = DOMAIN trial
  PROVE  JobInv'
  BY DEF JobInv, ItemsAreFresh

LEMMA JobStep == ASSUME JobInv, TasksRest, [BenchNext]_benchVars PROVE JobInv'
<1>1. CASE UNCHANGED benchVars
  BY <1>1, SameJob DEF benchVars
<1>2. ASSUME NEW t \in Tasks, Edit(t) PROVE JobInv'
  <2>1. job.phase \notin {"running", "done"}
    BY <1>2 DEF Edit, TasksRest
  <2>2. disk' \in [Tasks -> {0, 1}] /\ UNCHANGED <<dataset, job>>
    BY <1>2 DEF Edit, JobInv
  <2>3. QED
    BY <2>1, <2>2 DEF JobInv
<1>3. ASSUME NEW filter \in Filters, Sync(filter) PROVE JobInv'
  BY <1>3, SyncJob
<1>4. CASE Evaluate
  BY <1>4, EvaluateJob
<1>5. CASE Summarize
  <2>1. job' = [phase |-> "done", selected |-> job.selected, items |-> job.items] /\ job.phase = "running"
    BY <1>5 DEF Summarize, JobInv
  <2>2. UNCHANGED <<disk, dataset, trial>>
    BY <1>5 DEF Summarize
  <2>3. QED
    BY <2>1, <2>2 DEF JobInv, JobPhases, ItemsAreFresh
<1>6. ASSUME NEW p \in DOMAIN trial, HarnessNext(p) PROVE JobInv'
  <2>1. UNCHANGED <<disk, dataset, job>> /\ DOMAIN trial' = DOMAIN trial
    BY <1>6 DEF HarnessNext, Start, SeedRepo, Launch, Returned, Interrupt, Kill, Collect, Verify, Harness, Becomes
  <2>2. QED
    BY <2>1, SameJob
<1>7. ASSUME NEW p \in DOMAIN trial, ChildNext(p) PROVE JobInv'
  <2>1. UNCHANGED <<disk, dataset, job>> /\ DOMAIN trial' = DOMAIN trial
    BY <1>7 DEF ChildNext, AgentEnds, HandsBack, Summarizes, Dies, Child, Becomes
  <2>2. QED
    BY <2>1, SameJob
<1>8. QED
  BY <1>1, <1>2, <1>3, <1>4, <1>5, <1>6, <1>7 DEF BenchNext

\* The rows of one task: its one item, as often as asked.
LEMMA RowsOfTask ==
  ASSUME JobInv, job.phase = "done", NEW t, NEW rows, rows = {p \in DOMAIN trial : TaskOf(p) = t}
  PROVE  /\ Cardinality(rows) = IF t \in job.selected THEN Trials ELSE 0
         /\ \A p \in rows : dataset[p[1]].version = disk[t]
<1>1. ItemsAreFresh /\ DOMAIN trial = job.items \X (1 .. Trials)
  BY DEF JobInv
<1>2. \A p \in rows : p \in job.items \X (1 .. Trials) /\ dataset[p[1]].task = t
  BY <1>1 DEF TaskOf
<1>3. \A p \in rows : p[1] \in job.items /\ p[2] \in 1 .. Trials /\ p = <<p[1], p[2]>> /\ dataset[p[1]].task = t
  BY <1>2
<1>4. \A p \in rows : dataset[p[1]].version = disk[t] /\ t \in job.selected
  BY <1>1, <1>3 DEF ItemsAreFresh
<1>5. CASE t \notin job.selected
  <2>1. rows = {}
    BY <1>4, <1>5
  <2>2. QED
    BY <1>4, <1>5, <2>1, FS_EmptySet
<1>6. CASE t \in job.selected
  <2>1. PICK i \in job.items : dataset[i].task = t
    BY <1>1, <1>6 DEF ItemsAreFresh
  <2>2. \A n \in 1 .. Trials : <<i, n>> \in rows
    BY <1>1, <2>1 DEF TaskOf
  <2>3. PICK f : f = [n \in 1 .. Trials |-> <<i, n>>]
    OBVIOUS
  <2>4. \A p \in rows : p[1] = i
    BY <1>1, <1>3, <2>1 DEF ItemsAreFresh
  <2>5. \A p \in rows : \E n \in 1 .. Trials : f[n] = p
    BY <1>3, <2>3, <2>4
  <2>6. f \in Bijection(1 .. Trials, rows)
    BY <2>2, <2>3, <2>5 DEF Bijection, Injection, Surjection, IsInjective
  <2>7. Trials \in Nat
    BY BenchmarkAssumption
  <2>8. IsFiniteSet(1 .. Trials) /\ Cardinality(1 .. Trials) = Trials
    BY <2>7, FS_Interval
  <2>9. Cardinality(rows) = Trials
    BY <2>6, <2>8, FS_Bijection DEF ExistsBijection
  <2>10. QED
    BY <1>4, <1>6, <2>9
<1>7. QED
  BY <1>5, <1>6

LEMMA JobIsFresh == JobInv => FreshAndOnce
<1> SUFFICES ASSUME JobInv, job.phase = "done", NEW t \in Tasks
             PROVE  LET rows == {p \in DOMAIN trial : TaskOf(p) = t}
                    IN  /\ Cardinality(rows) = IF t \in job.selected THEN Trials ELSE 0
                        /\ \A p \in rows : dataset[p[1]].version = disk[t]
  BY DEF FreshAndOnce
<1>1. QED
  BY RowsOfTask, Zenon

\* Each row of the report is of a sequence of outcomes.
LEMMA TrialsAreRows ==
  ASSUME JobInv, job.phase = "done"
  PROVE  \A i \in DOMAIN TaskTrials : \E m \in Nat : /\ DOMAIN TaskTrials[i].outcomes = 1 .. m
                                                     /\ \E X : TaskTrials[i].outcomes \in Seq(X)
<1> DEFINE rows(t) == SetToSeq({p \in DOMAIN trial : TaskOf(p) = t})
           outcomes(t) == [i \in DOMAIN rows(t) |-> Outcome(trial[rows(t)[i]])]
           grouped(t) == [task |-> t, tier |-> Tier[t], outcomes |-> outcomes(t)]
           tasks == SetToSeq({TaskOf(p) : p \in DOMAIN trial})
<1>1. TaskTrials = [i \in DOMAIN tasks |-> grouped(tasks[i])]
  BY Zenon DEF TaskTrials
<1>2. IsFiniteSet(DOMAIN trial)
  <2>1. IsFiniteSet(1 .. Len(dataset)) /\ IsFiniteSet(1 .. Trials)
    <3>1. Len(dataset) \in Nat /\ Trials \in Nat
      BY BenchmarkAssumption DEF JobInv
    <3>2. QED
      BY <3>1, FS_Interval
  <2>2. job.items \subseteq 1 .. Len(dataset)
    BY DEF JobInv, ItemsAreFresh
  <2>3. IsFiniteSet(job.items)
    BY <2>1, <2>2, FS_Subset
  <2>4. IsFiniteSet(job.items \X (1 .. Trials))
    BY <2>1, <2>3, FS_Product
  <2>5. QED
    BY <2>4 DEF JobInv
<1>3. ASSUME NEW t PROVE \E m \in Nat : DOMAIN outcomes(t) = 1 .. m /\ \E X : outcomes(t) \in Seq(X)
  <2>1. PICK S : S = {p \in DOMAIN trial : TaskOf(p) = t}
    OBVIOUS
  <2>2. IsFiniteSet(S)
    BY <1>2, <2>1, FS_Subset
  <2>3. PICK q : q = SetToSeq(S)
    OBVIOUS
  <2>4. q \in Seq(S)
    BY <2>2, <2>3, SeqOfSet
  <2>5. PICK m \in Nat : DOMAIN q = 1 .. m
    BY <2>4
  <2>6. PICK o : o = [i \in 1 .. m |-> Outcome(trial[q[i]])]
    OBVIOUS
  <2>7. PICK X : X = {o[i] : i \in 1 .. m}
    OBVIOUS
  <2>8. o \in Seq(X)
    BY <2>6, <2>7
  <2>9. o = outcomes(t)
    BY <2>1, <2>3, <2>5, <2>6, Zenon
  <2> HIDE DEF outcomes
  <2>10. QED
    BY <2>6, <2>8, <2>9
<1> HIDE DEF outcomes
<1>4. \A i \in DOMAIN tasks : TaskTrials[i].outcomes = outcomes(tasks[i])
  <2> HIDE DEF tasks
  <2>1. QED
    BY <1>1
<1>5. QED
  <2> HIDE DEF tasks
  <2>1. DOMAIN TaskTrials = DOMAIN tasks
    BY <1>1
  <2>2. QED
    BY <1>3, <1>4, <2>1

LEMMA ReportHolds == JobInv => ReportIsHonest
<1> SUFFICES ASSUME JobInv, job.phase = "done", NEW i \in DOMAIN TaskTrials
             PROVE  RowIsHonest(Report.perTask[i], TaskTrials[i].outcomes)
  BY Zenon DEF ReportIsHonest, RowIsHonest
<1>1. Report.perTask[i] = AggregateTask(TaskTrials[i])
  BY DEF Report, SummarizeTasks
<1>2. PICK m \in Nat : DOMAIN TaskTrials[i].outcomes = 1 .. m /\ \E X : TaskTrials[i].outcomes \in Seq(X)
  BY TrialsAreRows
<1>3. PICK X : TaskTrials[i].outcomes \in Seq(X)
  BY <1>2
<1>4. RowIsHonest(AggregateTask(TaskTrials[i]), TaskTrials[i].outcomes)
  BY <1>2, <1>3, RowsAreHonest, Zenon
<1>5. QED
  BY <1>1, <1>4

\* However often tasks were edited and synced, whatever the agents do and the harness loses: a
\* job runs each task it selected as often as asked, on the version on disk, and what it
\* reports of a task is the share of its samples that hold a win (benchmark.py:252-256,
\* aggregates.py:14-19).
THEOREM EvalsJobIsHonest == ASSUME TasksRest, ItemsAreStamped PROVE EvalsSpec => []JobIsHonest
<1>1. EvalsInit => JobInv
  BY JobInit DEF EvalsInit
<1>2. JobInv /\ [EvalsNext]_evalsVars => JobInv'
  <2>1. [EvalsNext]_evalsVars => [BenchNext]_benchVars
    BY DEF EvalsNext, evalsVars
  <2>2. QED
    BY <2>1, JobStep
<1>3. JobInv => JobIsHonest
  BY JobIsFresh, ReportHolds DEF JobIsHonest
<1>4. QED
  BY <1>1, <1>2, <1>3, PTL DEF EvalsSpec
=============================================================================
