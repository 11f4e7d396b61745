----------------------------- MODULE Aggregates -----------------------------
(* The benchmark's arithmetic (evals/harness/aggregates.py): what a matrix  *)
(* of trials, some of which the harness lost, says of each task, of a tier  *)
(* and of the job.  The functions are pure; a rate is an exact fraction, a  *)
(* time is an instant of one clock, and what was not measured is Unknown.   *)
EXTENDS Integers, Sequences, SequencesExt, FiniteSets, Combinatorics

Unknown == -1

Frac(n, d) == [num |-> n, den |-> d]
Nought == Frac(0, 1)
Whole == Frac(1, 1)
Equal(x, y) == x.num * y.den = y.num * x.den
Plus(x, y) == Frac(x.num * y.den + y.num * x.den, x.den * y.den)

\* One trial, as the aggregates see it.
TrialOutcome == [status : {"agent_ok", "agent_fail", "infra_error"}, cost : Int, tokens : Nat,
                 seconds : Int, started : Int, finished : Int]

Passed(outcome) == outcome.status = "agent_ok"
Graded(outcome) == outcome.status # "infra_error"

\* The pass flags of the trials that reached a reward, in an order nothing reads.
\* Mutant: a lost trial counts as one that failed.
GradedPassesOfAll(outcomes) == [i \in DOMAIN outcomes |-> Passed(outcomes[i])]

GradedPasses(outcomes) ==
    LET graded == SetToSeq({i \in DOMAIN outcomes : Graded(outcomes[i])})
    IN  [j \in DOMAIN graded |-> Passed(outcomes[graded[j]])]

Passes(trials) == Cardinality({i \in DOMAIN trials : trials[i]})

\* Mean of a sequence of fractions, nought for none.
Mean(values) ==
    LET sum == FoldLeft(Plus, Nought, values)
    IN  IF values = <<>> THEN Nought ELSE Frac(sum.num, sum.den * Len(values))

PassAt1(trials) == IF trials = <<>> THEN Nought ELSE Frac(Passes(trials), Len(trials))

\* The unbiased estimator 1 - C(n - c, k) / C(n, k), k clamped to 1 .. n.
PassAtK(trials, budget) ==
    LET n == Len(trials)
        k == IF budget > n THEN n ELSE IF budget < 1 THEN 1 ELSE budget
        failures == n - Passes(trials)
    IN  IF n = 0 THEN Nought
        ELSE IF failures < k THEN Whole
        ELSE Frac(choose(n, k) - choose(failures, k), choose(n, k))

PassHatK(trials) == IF trials # <<>> /\ Passes(trials) = Len(trials) THEN Whole ELSE Nought
IsFlaky(trials) == 0 < Passes(trials) /\ Passes(trials) < Len(trials)

Lost(outcomes) == Cardinality({i \in DOMAIN outcomes : ~Graded(outcomes[i])})
InfraErrorRate(outcomes) == IF outcomes = <<>> THEN Nought ELSE Frac(Lost(outcomes), Len(outcomes))

\* What was measured of a sequence of measures, its sum and its mean, if any.
Measured(values) == SelectSeq(values, LAMBDA v : v # Unknown)
Sum0(values) == FoldLeft(+, 0, values)
TotalOf(values) == IF Measured(values) = <<>> THEN Unknown ELSE Sum0(Measured(values))
MeanOf(values) ==
    IF Measured(values) = <<>> THEN Frac(Unknown, 1) ELSE Frac(Sum0(Measured(values)), Len(Measured(values)))

\* Wins of the graded trials for what every trial cost, if anything was paid.
SuccessPerDollar(trials, costs) ==
    LET spent == Sum0(Measured(costs)) IN IF spent <= 0 THEN Frac(Unknown, 1) ELSE Frac(Passes(trials), spent)

\* From the first start to the last end, where both are known.
WallClock(starts, ends) ==
    LET s == ToSet(Measured(starts))  e == ToSet(Measured(ends))
        span == (CHOOSE x \in e : \A y \in e : y <= x) - (CHOOSE x \in s : \A y \in s : x <= y)
    IN  IF s = {} \/ e = {} THEN Unknown ELSE IF span < 0 THEN 0 ELSE span

Column(outcomes, field) == [i \in DOMAIN outcomes |-> outcomes[i][field]]

\* One task's row.
AggregateTask(task) ==
    LET graded == GradedPasses(task.outcomes)
    IN  [task |-> task.task, tier |-> task.tier, trials |-> Len(task.outcomes), graded |-> Len(graded),
         passes |-> Passes(graded), infra |-> Lost(task.outcomes),
         pass1 |-> PassAt1(graded), passk |-> PassAtK(graded, Len(graded)), hatk |-> PassHatK(graded),
         flaky |-> IsFlaky(graded), cost |-> MeanOf(Column(task.outcomes, "cost")),
         seconds |-> MeanOf(Column(task.outcomes, "seconds"))]

\* A group of tasks as one row: rates are means over tasks, the rest sums over trials.
RollUp(tasks) ==
    LET rows == [i \in DOMAIN tasks |-> AggregateTask(tasks[i])]
        outcomes == FlattenSeq([i \in DOMAIN tasks |-> tasks[i].outcomes])
        graded == GradedPasses(outcomes)
    IN  [tasks |-> Len(rows), trials |-> Len(outcomes), graded |-> Len(graded), infra |-> Lost(outcomes),
         pass1 |-> Mean(Column(rows, "pass1")), passk |-> Mean(Column(rows, "passk")),
         hatk |-> Mean(Column(rows, "hatk")),
         flaky |-> Mean([i \in DOMAIN rows |-> IF rows[i].flaky THEN Whole ELSE Nought]),
         lost |-> InfraErrorRate(outcomes), cost |-> MeanOf(Column(outcomes, "cost")),
         perDollar |-> SuccessPerDollar(graded, Column(outcomes, "cost")),
         tokens |-> Sum0(Column(outcomes, "tokens")), seconds |-> TotalOf(Column(outcomes, "seconds")),
         wallClock |-> WallClock(Column(outcomes, "started"), Column(outcomes, "finished"))]

Tiers == <<"easy", "medium", "hard">>

\* The rows of the tasks, of the tiers that have any, and of the whole job.
SummarizeTasks(tasks) ==
    [perTask |-> [i \in DOMAIN tasks |-> AggregateTask(tasks[i])],
     perTier |-> [tier \in {t \in ToSet(Tiers) : \E i \in DOMAIN tasks : tasks[i].tier = t} |->
                     RollUp(SelectSeq(tasks, LAMBDA t : t.tier = tier))],
     total |-> RollUp(tasks)]
=============================================================================
