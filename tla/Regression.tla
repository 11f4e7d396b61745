----------------------------- MODULE Regression -----------------------------
(* Regression cases (evals/harness/regression.py, test_suite.py, driver.py, *)
(* datasets.py, metrics.py, evals/regression/).  A case is a prompt, a      *)
(* fixture and metrics, declared in code; `regression` runs the cases of a  *)
(* slice one by one in this very process and scores what each run recorded; *)
(* `suite` runs whatever items one shared Test Suite holds and lets a judge *)
(* look at the answers; `sync` only registers.  A case changes settings and *)
(* the executor of the process for the time of its run.                     *)
EXTENDS Aggregates

CONSTANTS
    Cases,          \* the ids declared in the registry
    Declared,       \* each case's declaration, a record as in Declaration
    Slices,         \* the --case / --difficulty filters, records [case, tier]
    Surfaces,       \* what Opik may hold before: records [dataset, suite]
    Replies,        \* what the model may answer, records as in Reply
    Commands,       \* bound: commands given one after the other
    JudgeRoutes,    \* the providers a judge may ride
    OtherPhases     \* the phases in which another checkout may sync the suite

Tools == {"read", "write", "bash"}
Metrics == {"args", "args_never", "called", "not_called", "max_steps", "file_diff", "file_equals", "new_file",
            "json", "contains", "not_succeeded", "answered", "judge"}
\* cap: its most requests; keys: the settings it overrides; denies: the tools its gate
\* refuses; prefill: the responses of a history it starts from.
Declaration == [tier : {"easy", "medium", "hard"}, skip : BOOLEAN, cap : Nat,
                keys : SUBSET {"window", "unknown"}, denies : SUBSET Tools, compacts : BOOLEAN,
                prefill : Nat, metrics : SUBSET Metrics]
\* An answer of the model: a text, or a call of a tool with arguments a metric likes or not.
Reply == [text : {"none", "plain", "asked"}, tool : Tools \union {"none"}, good : BOOLEAN]

ASSUME RegressionAssumption ==
    /\ IsFiniteSet(Cases) /\ Declared \in [Cases -> Declaration] /\ Replies \subseteq Reply
    /\ \A c \in Cases : Declared[c].metrics # {}        \* __post_init__

VARIABLES
    version,        \* of each case: 0, or 1 after an edit
    regDataset,     \* the items of decode-regression
    suite,          \* the items of decode-regression-suite
    command,        \* kind, phase, selection, the items left and missing, what they recorded
    process,        \* what cases share: sandbox mode, overridden settings, executor, Workspaces
    turn            \* the run of the case at hand

regVars == <<version, regDataset, suite, command, process, turn>>

AtRest == [mode |-> "operator", keys |-> {}, executor |-> "none", workspaces |-> 0]
NoTurn == [phase |-> "none", case |-> "none", messages |-> <<>>, tree |-> {}, requests |-> 0,
           compactions |-> 0, error |-> FALSE, infra |-> FALSE]
NoCommand == [kind |-> "none", phase |-> "idle", slice |-> "none", selected |-> {}, left |-> <<>>,
              missing |-> {}, results |-> <<>>, given |-> 0]

RegInit ==
    /\ version = [c \in Cases |-> 0]
    /\ \E s \in Surfaces : regDataset = s.dataset /\ suite = s.suite
    /\ command = NoCommand /\ process = AtRest /\ turn = NoTurn

-----------------------------------------------------------------------------
\* The record of a run, and what each metric says of it: a value, or that it cannot say.
Said(ok) == [value |-> IF ok THEN Whole ELSE Nought, failed |-> FALSE]
CannotSay == [value |-> Nought, failed |-> TRUE]

\* The messages of a record, at their places in the history, that are of a tool.
OfTool(record, tool) == {i \in DOMAIN record : record[i].tool = tool}
Count(record, tool) == Cardinality(OfTool(record, tool))

ToolArgs(payload, tool) == Said(\E i \in OfTool(payload.calls, tool) : payload.calls[i].good)
ToolArgsNever(payload, tool) == Said(\A i \in OfTool(payload.calls, tool) : payload.calls[i].good)
ToolCalled(payload, tool) == Said(OfTool(payload.calls, tool) # {})
ToolNotCalled(payload, tool) == Said(OfTool(payload.calls, tool) = {})
ToolNotSucceeded(payload, tool) == Said(Count(payload.calls, tool) - Count(payload.denied, tool) <= 0)
MaxSteps(payload) == Said(payload.steps <= payload.cap)

\* A file is a set of lines: "kept" is the fixture's, "text" and "dashes" may be added; a line
\* of an edit that starts with -- or ++ reads as the header of a diff and is not counted.
Baseline == {"kept"}
ChangedLineCount(before, after) == Cardinality(((before \ after) \union (after \ before)) \ {"dashes"})
Absent == {"absent"}
FileDiffLines(payload, lines) == Said(payload.tree # Absent /\ ChangedLineCount(Baseline, payload.tree) <= lines)
FileEquals(payload, expected) == Said(payload.tree = expected)
NewFileName(payload) == Said(payload.tree \notin {Absent, Baseline})
JsonSchema(payload) == Said(payload.output = "asked")
OutputContains(payload) == Said(payload.output = "asked")

AnsweredWithoutError(payload) ==
    IF payload.infra THEN CannotSay ELSE Said(~payload.error /\ payload.output # "none")

Score(metric, payload) ==
    CASE metric = "args" -> ToolArgs(payload, "read") [] metric = "args_never" -> ToolArgsNever(payload, "bash")
      [] metric = "called" -> ToolCalled(payload, "read") [] metric = "not_called" -> ToolNotCalled(payload, "bash")
      [] metric = "not_succeeded" -> ToolNotSucceeded(payload, "write") [] metric = "max_steps" -> MaxSteps(payload)
      [] metric = "file_diff" -> FileDiffLines(payload, 1) [] metric = "file_equals" -> FileEquals(payload, Baseline)
      [] metric = "new_file" -> NewFileName(payload) [] metric = "json" -> JsonSchema(payload)
      [] metric = "contains" -> OutputContains(payload) [] metric = "answered" -> AnsweredWithoutError(payload)
      [] metric = "judge" -> Said(payload.output # "none")

\* CaseScopedMetric: of all the metrics of a run, an item is scored by its own case's.
ScoresOf(result) ==
    {[metric |-> m, case |-> result.case, score |-> Score(m, result.payload)] :
        m \in IF result.case \in command.selected THEN Declared[result.case].metrics ELSE {}}

\* The means over some results of the scores that could be given, by metric.
MeanPerMetric(results) ==
    LET scores == FlattenSeq([i \in DOMAIN results |-> SetToSeq({s \in ScoresOf(results[i]) : ~s.score.failed})])
        of(m) == SelectSeq(scores, LAMBDA s : s.metric = m)
    IN  [m \in {scores[i].metric : i \in DOMAIN scores} |->
            Mean([i \in DOMAIN of(m) |-> of(m)[i].score.value])]

ScoresByTier(results) ==
    [tier \in {Declared[results[i].case].tier : i \in DOMAIN results} |->
        MeanPerMetric(SelectSeq(results, LAMBDA r : Declared[r.case].tier = tier))]

\* The gate: every mean at or above its floor, tenths.
ThresholdFor(metric) == IF metric = "judge" THEN Frac(7, 10) ELSE Frac(8, 10)
Failures(means) ==
    {m \in DOMAIN means : means[m].num * ThresholdFor(m).den < ThresholdFor(m).num * means[m].den}
GatePasses(results) == LET means == MeanPerMetric(results) IN DOMAIN means # {} /\ Failures(means) = {}

\* assert_pass_rate: the judge's share of good answers, against eight tenths.
SuitePasses(results) ==
    LET good == Cardinality({i \in DOMAIN results : results[i].payload.output # "none"})
    IN  10 * good >= 8 * Len(results)

-----------------------------------------------------------------------------
\* Selection and registration.
Runnable(slice) ==
    {c \in Cases : ~Declared[c].skip /\ slice.case \in {"any", c} /\ slice.tier \in {"any", Declared[c].tier}}

ScopedName(slice) == IF slice.case # "any" THEN slice.case ELSE slice.tier

DatasetItem(c) == [case |-> c, version |-> version[c]]
SuiteItem(c) == [case |-> c, version |-> version[c]]
Stale(items, selected) == {item \in items : item \notin {SuiteItem(c) : c \in selected}}

\* The author edits a case between two commands.
EditCase(c) ==
    /\ command.phase = "idle" /\ version[c] = 0
    /\ version' = [version EXCEPT ![c] = 1]
    /\ UNCHANGED <<regDataset, suite, command, process, turn>>

\* Another checkout runs `sync` or `suite` and reconciles the suite to its own selection.
OtherSync(slice) ==
    /\ command.phase \in OtherPhases
    /\ suite' = {SuiteItem(c) : c \in Runnable(slice)}
    /\ UNCHANGED <<version, regDataset, command, process, turn>>

To(phase) == command' = [command EXCEPT !.phase = phase]
Gone == command' = [NoCommand EXCEPT !.given = command.given]
OnlyCommand == UNCHANGED <<version, regDataset, suite, process, turn>>

\* A command: it refuses a judge it cannot route, a registry that does not load (duplicate
\* ids, a module that does not construct) and, but for sync, an empty selection.
Give(kind, slice, route) ==
    /\ command.phase = "idle" /\ command.given < Commands
    /\ \E loads \in BOOLEAN :
        LET selected == Runnable(slice)
            refused == (kind = "suite" /\ route = "modal") \/ ~loads \/ (kind # "sync" /\ selected = {})
        IN  command' = IF refused THEN [NoCommand EXCEPT !.given = command.given + 1]
                       ELSE [NoCommand EXCEPT !.kind = kind, !.phase = "upsert", !.slice = ScopedName(slice),
                                              !.selected = selected, !.given = command.given + 1]
    /\ OnlyCommand

\* insert deduplicates by content and nothing is deleted.
UpsertDataset ==
    /\ command.phase = "upsert"
    /\ LET new == {DatasetItem(c) : c \in command.selected} \ ToSet(regDataset)
       IN  regDataset' = regDataset \o SetToSeq(new)
    /\ To(IF command.kind = "gate" THEN "select" ELSE "delete")
    /\ UNCHANGED <<version, suite, process, turn>>

\* _selected_item_ids: the first item of each case with the checksum of the registry.
FreshItems ==
    {i \in DOMAIN regDataset : /\ regDataset[i].case \in command.selected /\ regDataset[i] = DatasetItem(regDataset[i].case)
                            /\ \A j \in 1 .. i - 1 : regDataset[j] # regDataset[i]}

Select ==
    /\ command.phase = "select"
    /\ LET items == {regDataset[i] : i \in FreshItems}
       IN  IF command.selected \subseteq {item.case : item \in items}
           THEN command' = [command EXCEPT !.phase = "running", !.left = SetToSeq(items)]
           ELSE Gone
    /\ OnlyCommand

\* _reconcile_regression_suite: read the items, delete what is stale, insert what was missing.
DeleteStale ==
    /\ command.phase = "delete"
    /\ suite' = suite \ Stale(suite, command.selected)
    /\ command' = [command EXCEPT !.phase = "insert", !.missing = {SuiteItem(c) : c \in command.selected} \ suite]
    /\ UNCHANGED <<version, regDataset, process, turn>>

InsertMissing ==
    /\ command.phase = "insert"
    /\ suite' = suite \union command.missing
    /\ command' = [command EXCEPT !.phase = IF command.kind = "sync" THEN "finished" ELSE "reconciled",
                                  !.missing = {}]
    /\ UNCHANGED <<version, regDataset, process, turn>>

\* opik.run_tests reads the items there are: it has no filter.
RunTests ==
    /\ command.phase = "reconciled"
    /\ command' = [command EXCEPT !.phase = "running", !.left = SetToSeq(suite)]
    /\ OnlyCommand

\* Opik fails: one line and exit 1, with whatever was done so far left behind.
ApiError == command.phase \in {"upsert", "select", "delete", "insert", "reconciled"} /\ Gone /\ OnlyCommand

-----------------------------------------------------------------------------
\* run_case: the process is changed, the fixture built, the agent run, all put back.
D == Declared[turn.case]
OnlyTurn == UNCHANGED <<version, regDataset, suite, command, process>>
History(c) == [i \in 1 .. Declared[c].prefill |-> [by |-> "model", text |-> "plain", tool |-> "none", good |-> TRUE]]

Begin ==
    /\ command.phase = "running" /\ turn.phase = "none" /\ command.left # <<>>
    /\ LET c == Head(command.left).case
           known == "unknown" \notin Declared[c].keys
       IN  /\ process' = [mode |-> "none", keys |-> IF known THEN Declared[c].keys ELSE {},
                          executor |-> "none", workspaces |-> process.workspaces + 1]
           /\ turn' = [NoTurn EXCEPT !.phase = IF known THEN "fixture" ELSE "ended", !.infra = ~known, !.case = c]
    /\ UNCHANGED <<version, regDataset, suite, command>>

BuildFixture ==
    /\ turn.phase = "fixture"
    /\ turn' \in {[turn EXCEPT !.phase = "asking", !.tree = Baseline, !.messages = History(turn.case)],
                  [turn EXCEPT !.phase = "ended", !.infra = TRUE]}
    /\ OnlyTurn

Message(by, text, tool, good) == [by |-> by, text |-> text, tool |-> tool, good |-> good]
Asked(more, phase) ==
    [turn EXCEPT !.messages = @ \o more, !.phase = phase, !.requests = @ + 1]

\* _RequestCappedModel: past the cap the answer is a text of the driver's own.
\* Mutant: the cap stops the last request it grants.
OverCapEarly == turn.requests + 1 >= D.cap
OverCap == turn.requests + 1 > D.cap
CapStops ==
    /\ turn.phase = "asking" /\ OverCap
    /\ turn' = Asked(<<Message("model", "cap", "none", TRUE)>>, "answered")
    /\ OnlyTurn

Answers(reply) ==
    /\ turn.phase = "asking" /\ ~OverCap /\ reply.tool = "none" /\ reply.text # "none"
    /\ turn' = Asked(<<Message("model", reply.text, "none", TRUE)>>, "answered")
    /\ OnlyTurn

\* A call: refused by the gate, or it runs, or it brings the turn down with it.
Lines(reply) == IF reply.good THEN {"text"} ELSE {"dashes"}
Calls(reply) ==
    /\ turn.phase = "asking" /\ ~OverCap /\ reply.tool # "none"
    /\ LET call == Message("model", reply.text, reply.tool, reply.good)
           tree == IF reply.tool = "write" THEN turn.tree \union Lines(reply) ELSE turn.tree
           back(by) == Asked(<<call, Message(by, "none", reply.tool, TRUE)>>, "asking")
       IN  IF reply.tool \in D.denies
           THEN turn' = back("denied") /\ UNCHANGED process
           ELSE /\ turn' \in {[back("tool") EXCEPT !.tree = tree],
                              [Asked(<<call>>, "ended") EXCEPT !.tree = tree, !.error = TRUE]}
                /\ process' = [process EXCEPT !.executor = IF reply.tool = "bash" THEN "used" ELSE @]
    /\ UNCHANGED <<version, regDataset, suite, command>>

\* The model request raises, an AgentError event, or the driver does, and there is no record.
Breaks ==
    /\ turn.phase = "asking" /\ ~OverCap
    /\ \E record \in {turn.messages, <<>>} :
          turn' = [turn EXCEPT !.phase = "ended", !.error = TRUE, !.messages = record]
    /\ OnlyTurn

\* At would-stop: a case that wires compaction keeps a tail of its history, from a response
\* on, or none or all of it.
WouldStop ==
    /\ turn.phase = "answered"
    /\ \/ turn' = [turn EXCEPT !.phase = "ended"]
       \/ /\ D.compacts
          /\ \E from \in {i \in 2 .. Len(turn.messages) : turn.messages[i].by = "model"} \union {Len(turn.messages) + 1} :
                turn' = [turn EXCEPT !.phase = "ended", !.compactions = @ + 1,
                                     !.messages = SubSeq(@, from, Len(@))]
    /\ OnlyTurn

\* _build_record, _final_text: of the whole history as it is now, a prefilled one included.
Responses == {i \in DOMAIN turn.messages : turn.messages[i].by = "model"}
FinalText ==
    LET texts == {i \in Responses : turn.messages[i].text # "none"}
    IN  IF texts = {} THEN "none" ELSE turn.messages[CHOOSE i \in texts : \A j \in texts : j <= i].text
BuildRecord ==
    LET at(places) == [i \in places |-> turn.messages[i]]
    IN  [output |-> FinalText, steps |-> Cardinality(Responses),
         calls |-> at({i \in Responses : turn.messages[i].tool # "none"}),
         denied |-> at({i \in DOMAIN turn.messages : turn.messages[i].by = "denied"})]

\* _payload: a case that was not run has the fields of a run that did nothing.
NoRecord == [output |-> "none", steps |-> 0, calls |-> <<>>, denied |-> <<>>]
Payload ==
    LET record == IF turn.infra THEN NoRecord ELSE BuildRecord
    IN  [output |-> record.output, steps |-> record.steps, calls |-> record.calls, denied |-> record.denied,
         tree |-> IF turn.infra THEN Absent ELSE turn.tree, cap |-> D.cap, error |-> turn.error,
         infra |-> turn.infra]

\* Mutant: the settings a case overrides stay.
RestoredButSettings(before) == [before EXCEPT !.mode = "operator", !.executor = "none", !.workspaces = @ - 1]
Restored(before) == [before EXCEPT !.mode = "operator", !.keys = {}, !.executor = "none", !.workspaces = @ - 1]

End ==
    /\ turn.phase = "ended"
    /\ process' = Restored(process) /\ turn' = NoTurn
    /\ command' = [command EXCEPT !.left = Tail(@),
                                  !.results = Append(@, [case |-> turn.case, version |-> Head(command.left).version,
                                                         payload |-> Payload])]
    /\ UNCHANGED <<version, regDataset, suite>>

Finish ==
    /\ command.phase = "running" /\ command.left = <<>> /\ turn.phase = "none"
    /\ To("finished") /\ OnlyCommand

\* The command reports and exits.
Exit == command.phase = "finished" /\ Gone /\ OnlyCommand

Run == \/ Begin \/ BuildFixture \/ CapStops \/ (\E reply \in Replies : Answers(reply) \/ Calls(reply))
       \/ Breaks \/ WouldStop \/ End \/ Finish \/ Exit
Proceed == UpsertDataset \/ Select \/ DeleteStale \/ InsertMissing \/ RunTests \/ ApiError \/ Run

RegNext ==
    \/ \E c \in Cases : EditCase(c)
    \/ \E slice \in Slices : \/ OtherSync(slice)
                             \/ \E kind \in {"gate", "suite", "sync"}, route \in JudgeRoutes : Give(kind, slice, route)
    \/ Proceed

\* The command goes on by itself; the model always answers something.
RegFairness == WF_regVars(Proceed)
RegSpec == RegInit /\ [][RegNext]_regVars /\ RegFairness
-----------------------------------------------------------------------------
\* Whatever fails in a case, the next one starts in the process the first one started in
\* (regression.py:119-129).
CasesDontLeak == turn.phase = "none" => process = AtRest

\* A run, of a gate or of the suite, is of exactly its selection: each case once, in the
\* version the registry declares, whatever earlier commands left behind (regression.py:294-304).
GradedOnce == command.phase = "finished" /\ command.kind # "sync" =>
    /\ Len(command.results) = Cardinality(command.selected)
    /\ {[case |-> r.case, version |-> r.version] : r \in ToSet(command.results)} = {DatasetItem(c) : c \in command.selected}

\* What a score of one says is so: a tool that "did not succeed" in a run that came to its
\* end left no trace in the tree, a run "within its steps" was not cut short, an "answered"
\* one ended in a text of this run.  Said of the cases that neither compact nor start from a
\* history (see the departures).
Plain(result) == ~Declared[result.case].compacts /\ Declared[result.case].prefill = 0
ScoresAreTrue == \A i \in DOMAIN command.results :
    LET p == command.results[i].payload
        one(m) == Score(m, p) = Said(TRUE)
    IN  Plain(command.results[i]) /\ ~p.infra =>
          /\ one("not_succeeded") => p.error \/ p.tree = Baseline
          /\ one("max_steps") => p.output # "cap"
          /\ one("answered") => ~p.error /\ p.output \in {"plain", "asked", "cap"}

\* Whatever the model calls, a command comes to its end.
GateEnds == command.phase = "running" ~> command.phase = "idle"
\* Departures, refuted on the instance of the run or the one named:
\* a score of a case the harness could not run is left out of the means;
InfraIsNotScored == \A r \in ToSet(command.results) : r.payload.infra => \A s \in ScoresOf(r) : s.score.failed
\* what the scores of one say holds of a case that compacts, too;
ScoresAreTrueOfAll == \A r \in ToSet(command.results) :
    r.payload.infra \/ (Score("not_succeeded", r.payload) = Said(TRUE) => r.payload.tree = Baseline)
\* and of a run that crashed and whose record is lost (a case with a cap of 2);
ScoresAreTrueOfCrashes == \A i \in DOMAIN command.results :
    LET result == command.results[i]
    IN  Plain(result) /\ ~result.payload.infra /\ Score("not_succeeded", result.payload) = Said(TRUE) =>
            result.payload.tree = Baseline
\* an answer that is to survive compaction is given after one;
RecallIsThroughCompaction == [][turn.compactions < turn'.compactions => FinalText = "none"]_turn
\* a diff within its lines has no more of them (a case with a cap of 3).
ChangedLinesAreAll == \A r \in ToSet(command.results) :
    Score("file_diff", r.payload) = Said(TRUE) =>
        Cardinality((Baseline \ r.payload.tree) \union (r.payload.tree \ Baseline)) <= 1
=============================================================================
