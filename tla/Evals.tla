-------------------------------- MODULE Evals --------------------------------
(* The eval suite's command line (evals/run.py): one process runs one of    *)
(* its tools, a benchmark job, the regression gate and suite, or the        *)
(* commands around Opik's traces and a Kitaru server.  The tools share no   *)
(* state in a process; each has a module of its own.                        *)
EXTENDS Benchmark, Regression, Kitaru

VARIABLE tool

evalsVars == <<tool, benchVars, regVars, kitaruVars>>

\* A tool that is not run is in some one initial state.
Unused(t, first) == tool = t \/ first
EvalsInit ==
    /\ tool \in {"benchmark", "regression", "kitaru"}
    /\ BenchInit /\ RegInit /\ KitaruInit
    /\ Unused("benchmark", <<broken, dataset, operator>> =
                              CHOOSE s \in Broken \X Datasets \X Operators : TRUE)
    /\ Unused("regression", [dataset |-> regDataset, suite |-> suite] = CHOOSE s \in Surfaces : TRUE)
    /\ Unused("kitaru", <<opik, sessions, registry>> = CHOOSE s \in Projects \X Held \X Registries : TRUE)

EvalsNext ==
    \/ tool = "benchmark" /\ BenchNext /\ UNCHANGED <<tool, regVars, kitaruVars>>
    \/ tool = "regression" /\ RegNext /\ UNCHANGED <<tool, benchVars, kitaruVars>>
    \/ tool = "kitaru" /\ KitaruNext /\ UNCHANGED <<tool, benchVars, regVars>>

EvalsSpec == EvalsInit /\ [][EvalsNext]_evalsVars /\ BenchFairness /\ RegFairness
-----------------------------------------------------------------------------
\* A trial's verdict is fair to its agent: a win is its own work, and a run that was
\* stopped is not struck from the figures for that (trial.py:16-27).
VerdictIsFair == GradeIsEarned /\ TimeoutIsGraded

\* What a job reports is of the tasks on disk, each as often as asked, and counts what the
\* harness lost neither as won nor as failed (benchmark.py:252-256, aggregates.py:14-19).
JobIsHonest == FreshAndOnce /\ ReportIsHonest

\* What a gate or the suite says is of its own selection, and a score of one is deserved
\* (regression.py:294-304, metrics.py).
SuiteIsHonest == GradedOnce /\ ScoresAreTrue

\* What the tools say of the traces is what the traces say: the threads an import counts
\* are those it was asked for, and a call that was denied was refused and did not run
\* (kitaru_import.py:314-340, mine.py).
TracesAreToldTruly == ImportTellsTheTruth /\ MinedIsDenied

\* Whatever the agents do and the models call, a job that runs comes to its report, and a
\* gate to its end (trial.py:393-418, driver.py:133-161).
CommandEnds == JobEnds /\ GateEnds
=============================================================================
