------------------------------- MODULE Kitaru -------------------------------
(* The commands that write to a Kitaru server through its CLI:              *)
(* scripts/bootstrap_kitaru.py registers the agent, the importer and the    *)
(* evaluator; `evals kitaru import` turns threads of Opik traces into       *)
(* Sessions, by jobs a Worker executes; `evals kitaru cohort` freezes the   *)
(* Sessions of failed trials; `evals mine` only reads.  One command runs at *)
(* a time, while the Worker works, threads grow and scripts are edited.     *)
EXTENDS Traces

CONSTANTS
    Projects,       \* what Opik may hold: sets of traces
    Growth,         \* traces that may come later
    Held,           \* the Sessions the server may hold: sequences
    Registries,     \* what may be registered there
    Edited,         \* the kinds whose script is edited
    Requests,       \* the imports, records [traces, threads, wait]
    Experiments,    \* the experiments, records [agent, trials]
    Failing,        \* the calls of the server that may fail
    Invocations,    \* bound: commands given
    ThreadCap       \* the most traces a search for a thread returns

Kinds == <<"agent", "importer", "evaluator">>
\* A Session: its name, its thread (0 when decode recorded it), its turns.
KitaruSession == [name : STRING, key : Nat, turns : Seq(Nat)]
\* An item of an experiment; a score, a reward or a Session that is not there is None.
None == -1
ExperimentTrial == [status : {"agent_ok", "agent_fail", "infra_error"}, score : -1 .. 1, reward : -1 .. 1,
                    session : STRING, kitaru : Int]

ASSUME KitaruAssumption ==
    /\ Growth \subseteq Trace
    /\ \A project \in Projects : project \subseteq Trace /\ IsFiniteSet(project)
    /\ Held \subseteq Seq(KitaruSession) /\ Registries \subseteq [ToSet(Kinds) -> Seq({0, 1})]
    /\ \A request \in Requests : request.threads \subseteq Nat /\ IsFiniteSet(request.threads)
    /\ \A e \in Experiments : e.trials \subseteq ExperimentTrial
    /\ Failing \subseteq {"get", "list", "register", "sessions", "file", "created", "cohort"}
    /\ Edited \subseteq ToSet(Kinds) /\ Invocations \in Nat /\ ThreadCap \in Nat \ {0}

\* What the others write: Opik gives each trace an id of its own,
OneTraceAnId == \A project \in Projects : \A t, u \in project \union Growth : t.id = u.id => t = u
\* a call that was deferred ran, was refused or was lost, and one that ran left a second leg,
LegsOf(trace, key, answers) == {s \in Legs(trace, TRUE) : CallKey(s) = key /\ s.answer \in answers}
CallsAreWhole(trace) ==
    /\ IsFiniteSet(trace.spans)
    /\ \A s \in Legs(trace, TRUE) :
          /\ s.answer \in {"ran", "denied", "lost"}
          /\ Cardinality(LegsOf(trace, CallKey(s), {"ran"})) <= Times(Legs(trace, FALSE), CallKey(s))
TracesAreWhole == \A project \in Projects : \A trace \in project \union Growth : CallsAreWhole(trace)
\* a trial that was won has the reward of one, and that as its score (trial.py:22),
GradesAgree == \A e \in Experiments : \A t \in e.trials :
    t.status = "agent_ok" => t.reward = 1 /\ t.score \in {None, 1}
\* and earlier runs of these commands left the server as these leave it: each turn in one
\* Session, that of its thread, and each version registered once.
HeldIsTold == \A held \in Held :
    /\ \A i, j \in DOMAIN held : i # j => ToSet(held[i].turns) \intersect ToSet(held[j].turns) = {}
    /\ \A project \in Projects : \A i \in DOMAIN held : \A t \in project \union Growth :
          t.id \in ToSet(held[i].turns) => ThreadKey(t) = held[i].key
RegisteredAtFirst == \A first \in Registries : \A k \in ToSet(Kinds) : IsInjective(first[k])

ASSUME KitaruData == OneTraceAnId /\ TracesAreWhole /\ GradesAgree /\ HeldIsTold /\ RegisteredAtFirst

VARIABLES
    registry,       \* the versions of each kind on the server, the latest last
    unread,         \* history: the places of the versions registered with the list unread
    script,         \* what each kind is in the checkout: 0 or 1
    opik,           \* the traces there are
    sessions,       \* the Sessions of the server
    jobs,           \* the imports filed, and what became of each
    cohort,         \* whether it is there, and its versions: sets of Sessions
    client          \* the command at hand

kitaruVars == <<registry, unread, script, opik, sessions, jobs, cohort, client>>

Idle == [command |-> "none", pc |-> "idle", left |-> <<>>, dry |-> FALSE, wait |-> FALSE, traces |-> {}, threads |-> {},
         collected |-> <<>>, known |-> 0, outcomes |-> <<>>, trials |-> {}, add |-> {}, report |-> <<>>, given |-> 0]

KitaruInit ==
    /\ registry \in Registries /\ unread = [k \in ToSet(Kinds) |-> {}] /\ script = [k \in ToSet(Kinds) |-> 0]
    /\ opik \in Projects /\ sessions \in Held
    /\ jobs = <<>> /\ cohort = [there |-> FALSE, versions |-> <<>>]
    /\ client = Idle

-----------------------------------------------------------------------------
At(pc) == client.pc = pc
Goes(pc) == client' = [client EXCEPT !.pc = pc]
\* A command ends: "done" with a report, or at once with one line and exit 1.
Fails == client' = [Idle EXCEPT !.given = client.given]
OnlyClient == UNCHANGED <<registry, unread, script, opik, sessions, jobs, cohort>>
Given(command, pc) ==
    [Idle EXCEPT !.command = command, !.pc = pc, !.given = client.given + 1]

\* The world: a script is edited between commands, a thread gets another turn.
EditScript(k) ==
    /\ At("idle") /\ script' = [script EXCEPT ![k] = 1 - @]
    /\ UNCHANGED <<registry, unread, opik, sessions, jobs, cohort, client>>

Grow(trace) ==
    /\ trace \notin opik /\ opik' = opik \union {trace}
    /\ UNCHANGED <<registry, unread, script, sessions, jobs, cohort, client>>

-----------------------------------------------------------------------------
\* bootstrap: each kind in turn, created, registered as a new version, or there already.
Bootstrap(dry) ==
    /\ At("idle") /\ client.given < Invocations
    /\ client' = [Given("bootstrap", "get") EXCEPT !.left = Kinds, !.dry = dry]
    /\ OnlyClient

NextKind == client' = [client EXCEPT !.left = Tail(@), !.pc = IF Len(client.left) = 1 THEN "done" ELSE "get"]

\* _read: whatever goes wrong, the resource is taken not to be there.
GetResource ==
    /\ At("get")
    /\ \/ Goes(IF registry[Head(client.left)] = <<>> THEN "create" ELSE "list")
       \/ "get" \in Failing /\ Goes("create")
    /\ OnlyClient

\* matching_version: a version of any age with this spec or digest.
\* Mutant: only the latest version is looked at.
MatchingLatest(versions, k) == versions # <<>> /\ Last(versions) = script[k]
Matching(versions, k) == script[k] \in ToSet(versions)

\* A list that fails reads as no versions.
ListVersions ==
    /\ At("list")
    /\ LET k == Head(client.left)
       IN  \/ IF Matching(registry[k], k) THEN NextKind ELSE Goes("register")
           \/ "list" \in Failing /\ Goes("unread")
    /\ OnlyClient

\* _emit: --dry-run prints; the server refuses to create what is there, or fails.
Register ==
    /\ client.pc \in {"create", "register", "unread"}
    /\ LET k == Head(client.left)
           next == Len(registry[k]) + 1
       IN  \/ client.dry /\ NextKind /\ UNCHANGED <<registry, unread>>
           \/ ~client.dry /\ (~At("create") \/ registry[k] = <<>>) /\ NextKind
              /\ registry' = [registry EXCEPT ![k] = Append(@, script[k])]
              /\ unread' = [unread EXCEPT ![k] = IF At("unread") THEN @ \union {next} ELSE @]
           \/ ~client.dry /\ ("register" \in Failing \/ (At("create") /\ registry[k] # <<>>)) /\ Fails
              /\ UNCHANGED <<registry, unread>>
    /\ UNCHANGED <<script, opik, sessions, jobs, cohort>>

-----------------------------------------------------------------------------
\* kitaru import: the traces and threads asked for, or every thread of the project.
Import(request) ==
    /\ At("idle") /\ client.given < Invocations
    /\ LET every == request.traces = {} /\ request.threads = {}
       IN  client' = [Given("import", "resolve") EXCEPT
                         !.wait = request.wait, !.traces = request.traces,
                         !.threads = IF every THEN {t.thread : t \in opik} \ {0} ELSE request.threads]
    /\ OnlyClient

\* resolve_ref, of the agent and of the importer.
Resolve ==
    /\ At("resolve")
    /\ \/ registry["agent"] # <<>> /\ registry["importer"] # <<>> /\ Goes("collect")
       \/ (registry["agent"] = <<>> \/ registry["importer"] = <<>> \/ "get" \in Failing) /\ Fails
    /\ OnlyClient

\* thread_traces: Opik searches the column alone, and returns the newest ones.
ThreadTraces(key) ==
    LET found == {t \in opik : t.thread = key /\ key # 0}
    IN  {t \in found : Cardinality({u \in found : Earlier(t, u)}) < ThreadCap}

\* collect_threads: what is imported under each key; a trace whose thread only its metadata
\* name comes alone, the first of its thread in the order of the arguments.
\* Mutant: the traces without a thread are one thread.
CollectedOfColumn(asked, threads, first) ==
    [key \in {ThreadColumn(t) : t \in asked} \union threads |->
        IF ThreadTraces(key) # {} THEN ThreadTraces(key) ELSE {t \in asked : ThreadColumn(t) = key}]
Collected(asked, threads, first) ==
    [key \in {ThreadKey(t) : t \in asked} \union threads |->
        IF ThreadTraces(key) # {} THEN ThreadTraces(key) ELSE {first[key]}]

\* The one of each thread that the arguments name first, over the orders they may have.
Firsts(asked) ==
    {first \in [{ThreadKey(t) : t \in asked} -> asked] : \A key \in DOMAIN first : ThreadKey(first[key]) = key}

CollectThreads ==
    /\ At("collect")
    /\ LET asked == {t \in opik : t.id \in client.traces}
       IN  IF \/ client.traces # {t.id : t \in asked}
              \/ \E key \in client.threads : ThreadTraces(key) = {} /\ \A t \in asked : ThreadKey(t) # key
           THEN Fails
           ELSE \E first \in Firsts(asked) :
                   LET all == Collected(asked, client.threads, first)
                   IN  client' = [client EXCEPT !.collected = all,
                                                !.pc = IF DOMAIN all = {} THEN "done" ELSE "sessions"]
    /\ OnlyClient

\* list_sessions, once for the batch: the Sessions there are now.
ListSessions ==
    /\ At("sessions") /\ client.command = "import"
    /\ \/ client' = [client EXCEPT !.known = Len(sessions), !.pc = "thread",
                                   !.left = Ranked(DOMAIN client.collected, <)]
       \/ "sessions" \in Failing /\ Fails
    /\ OnlyClient

Existing(key) == \E i \in 1 .. client.known : sessions[i].key = key
\* What a thread's line says, and the next thread.
Says(key, status) ==
    client' = [client EXCEPT !.outcomes = [k \in DOMAIN @ \union {key} |-> IF k = key THEN status ELSE @[k]],
                             !.left = Tail(@), !.pc = IF Len(client.left) = 1 THEN "done" ELSE "thread"]

\* _import_thread: a thread that is there is skipped, and one that cannot be filed is only its own loss.
SkipThread ==
    /\ At("thread") /\ Existing(Head(client.left)) /\ Says(Head(client.left), "skipped") /\ OnlyClient

FileThread ==
    /\ At("thread") /\ ~Existing(Head(client.left))
    /\ LET key == Head(client.left)
       IN  \/ /\ jobs' = Append(jobs, [key |-> key, traces |-> client.collected[key], state |-> "queued"])
              /\ IF client.wait THEN Goes("waiting") ELSE Says(key, "queued")
           \/ "file" \in Failing /\ Says(key, "failed") /\ UNCHANGED jobs
    /\ UNCHANGED <<registry, unread, script, opik, sessions, cohort>>

\* --wait: the job is settled, or the CLI's time-out passes first; of what it created the
\* Sessions are read back.
Settled ==
    /\ At("waiting")
    /\ LET key == Head(client.left)
           state == Last(jobs).state
       IN  \/ state = "queued" /\ Says(key, "failed")
           \/ state = "failure" /\ Says(key, "failed")
           \/ state = "skipped" /\ Says(key, "duplicate")
           \/ state = "created" /\ (Says(key, "imported") \/ ("created" \in Failing /\ Fails))
    /\ OnlyClient

\* The Worker executes a job: the importer parses, the server knows a thread it has.
Work(j) ==
    /\ jobs[j].state = "queued"
    /\ LET parsed == UNION {Parse(jobs[j].traces)[key] : key \in Groups(jobs[j].traces)}
           new == {s \in parsed : \A i \in DOMAIN sessions : sessions[i].key # s.key}
           named(s) == [name |-> "agent_run", key |-> s.key, turns |-> s.turns]
       IN  /\ sessions' = sessions \o SetToSeq({named(s) : s \in new})
           /\ jobs' = [jobs EXCEPT ![j].state = IF new # {} THEN "created" ELSE IF parsed # {} THEN "skipped" ELSE "failure"]
    /\ UNCHANGED <<registry, unread, script, opik, cohort, client>>

-----------------------------------------------------------------------------
\* kitaru cohort from-experiment.  item_reward: the feedback score is the grade of record.
ItemReward(trial) == IF trial.score # None THEN trial.score ELSE trial.reward
\* Mutant: whatever was not won failed.
NotWon(trials) == {t \in trials : ItemReward(t) # 1}
FailedTrials(trials) == {t \in trials : t.status # "infra_error" /\ ItemReward(t) = 0}

Freeze(experiment) ==
    /\ At("idle") /\ client.given < Invocations
    /\ IF experiment.agent /\ FailedTrials(experiment.trials) # {}
       THEN client' = [Given("cohort", "sessions") EXCEPT !.trials = FailedTrials(experiment.trials)]
       ELSE client' = [Idle EXCEPT !.given = client.given + 1]
    /\ OnlyClient

\* resolve_sessions: by its own id, or by its name, of which the last Session counts.
Resolved(trial) ==
    LET named == {i \in DOMAIN sessions : sessions[i].name = trial.session}
    IN  IF trial.kitaru \in DOMAIN sessions THEN {trial.kitaru}
        ELSE {i \in named : \A j \in named : j <= i}

ResolveSessions ==
    /\ At("sessions") /\ client.command = "cohort"
    /\ LET found == UNION {Resolved(t) : t \in client.trials}
       IN  \/ found # {} /\ client' = [client EXCEPT !.add = found, !.pc = "cohort"]
           \/ (found = {} \/ "sessions" \in Failing) /\ Fails
    /\ OnlyClient

\* ensure_cohort: one that is not found is created.
EnsureCohort ==
    /\ At("cohort")
    /\ \/ cohort' = [cohort EXCEPT !.there = TRUE] /\ Goes("members")
       \/ "cohort" \in Failing /\ Fails /\ UNCHANGED cohort
    /\ UNCHANGED <<registry, unread, script, opik, sessions, jobs>>

Members == IF cohort.versions = <<>> THEN {} ELSE Last(cohort.versions)
Additions(found) == found \ Members

ReadMembers ==
    /\ At("members")
    /\ \/ LET more == Additions(client.add)
          IN  client' = [client EXCEPT !.add = more, !.pc = IF more = {} THEN "done" ELSE "version"]
       \/ "sessions" \in Failing /\ Fails
    /\ OnlyClient

CreateVersion ==
    /\ At("version")
    /\ \/ cohort' = [cohort EXCEPT !.versions = Append(@, Members \union client.add)] /\ Goes("done")
       \/ "cohort" \in Failing /\ Fails /\ UNCHANGED cohort
    /\ UNCHANGED <<registry, unread, script, opik, sessions, jobs>>

\* evals mine: the signatures of what the presets find.
Mine(presets) ==
    /\ At("idle") /\ client.given < Invocations
    /\ client' = [Given("mine", "done") EXCEPT !.report = GroupHits(opik, presets)]
    /\ OnlyClient

Reported == At("done") /\ Fails /\ OnlyClient

Steps == GetResource \/ ListVersions \/ Register \/ Resolve \/ CollectThreads \/ ListSessions \/ SkipThread \/ FileThread
         \/ Settled \/ ResolveSessions \/ EnsureCohort \/ ReadMembers \/ CreateVersion \/ Reported

KitaruNext ==
    \/ \E k \in Edited : EditScript(k)
    \/ \E trace \in Growth : Grow(trace)
    \/ \E dry \in BOOLEAN : Bootstrap(dry)
    \/ \E request \in Requests : Import(request)
    \/ \E experiment \in Experiments : Freeze(experiment)
    \/ \E presets \in {Presets} \union {{p} : p \in Presets} : Mine(presets)
    \/ \E j \in DOMAIN jobs : Work(j)
    \/ Steps

KitaruSpec == KitaruInit /\ [][KitaruNext]_kitaruVars
-----------------------------------------------------------------------------
\* However often bootstrap is run, stopped half-way or fails, and scripts are edited to and
\* fro, a version is registered again only where the list of versions could not be read and
\* was taken to be empty, and a run that ends has registered what there is
\* (bootstrap_kitaru.py: a version is matched before it is registered).
RegisteredOnce == \A k \in ToSet(Kinds) :
    /\ \A i, j \in DOMAIN registry[k] : i < j /\ registry[k][i] = registry[k][j] => j \in unread[k]
    /\ client.command = "bootstrap" /\ At("done") /\ ~client.dry => script[k] \in ToSet(registry[k])

\* The lines of an import are true of the server, one for each thread asked for: "imported"
\* is all that was collected, and no turn is of two Sessions, whatever the Worker ran late
\* (kitaru_import.py:77-84).
ImportTellsTheTruth ==
    /\ \A i, j \in DOMAIN sessions : i # j => ToSet(sessions[i].turns) \intersect ToSet(sessions[j].turns) = {}
    /\ client.command = "import" /\ At("done") =>
          /\ DOMAIN client.outcomes = DOMAIN client.collected
          /\ \A key \in DOMAIN client.outcomes :
                LET of == {s \in ToSet(sessions) : s.key = key}
                    turns == {t.id : t \in client.collected[key]}
                IN  /\ client.outcomes[key] \in {"imported", "skipped", "duplicate"} => of # {}
                    /\ client.outcomes[key] = "imported" => \A s \in of : ToSet(s.turns) = turns

\* A cohort holds Sessions of trials that were graded nought, each version more of them than
\* the one before, and no member is ever added again, which the server would refuse
\* (kitaru_cohort.py:25-27).
CohortIsFailures ==
    /\ \A v \in DOMAIN cohort.versions :
          /\ \A i \in cohort.versions[v] : \E e \in Experiments : \E t \in e.trials :
                i \in DOMAIN sessions /\ t.score # 1 /\ t.status = "agent_fail"
                /\ (t.kitaru = i \/ t.session = sessions[i].name)
          /\ v > 1 => cohort.versions[v - 1] # cohort.versions[v] /\ cohort.versions[v - 1] \subseteq cohort.versions[v]
    /\ At("version") => client.add \intersect Members = {}

\* What is mined as denied did not run: that often a call was asked for and then refused, or
\* lost with its leg, which a trace does not tell apart (mine.py:21-31).
MinedIsDenied == client.command = "mine" =>
    \A sig \in DOMAIN client.report : sig[1] = "denied" =>
        \A t \in client.report[sig] : Cardinality({s \in t.spans : s.answer \in {"denied", "lost"}}) >= DeniedBar
\* Departures, refuted on the instance of the run or the one named:
\* "idempotent ... appends nothing the second time" (bootstrap_kitaru.py), if a list fails too;
RerunAddsNothing == \A k \in ToSet(Kinds) : IsInjective(registry[k])
\* what import and the Worker use, the latest version, is what bootstrap found to be there;
LatestIsCurrent == client.command = "bootstrap" /\ At("done") /\ ~client.dry =>
    \A k \in ToSet(Kinds) : Last(registry[k]) = script[k]
\* a thread that is said to be there is there with all its turns;
SkippedIsWhole == client.command = "import" /\ At("done") =>
    \A key \in DOMAIN client.outcomes : client.outcomes[key] = "skipped" =>
        \E s \in ToSet(sessions) : s.key = key /\ \A t \in client.collected[key] : t.id \in ToSet(s.turns)
\* a thread whose import is said to have failed is not there;
FailedIsAbsent == client.command = "import" /\ At("done") =>
    \A key \in DOMAIN client.outcomes : client.outcomes[key] = "failed" => \A s \in ToSet(sessions) : s.key # key
\* each trace asked for is collected, with its whole thread;
AskedIsCollected == client.command = "import" /\ At("done") =>
    \A t \in opik : t.id \in client.traces => \E key \in DOMAIN client.collected : t \in client.collected[key]
\* every span of a trace that is read becomes a node;
NoSpanLost == \A t \in opik : Unbuildable(t) \/ NodesOf(t) = t.spans
\* a cohort is refused when some failing trial has no Session (run.py:546-548);
NoHalfCohort == At("version") => \A t \in client.trials : Resolved(t) # {}
\* every denied call is mined.
DenialsAreMined == client.command = "mine" =>
    \A t \in opik : Cardinality({s \in t.spans : s.answer = "denied"}) >= DeniedBar =>
        \E sig \in DOMAIN client.report : sig[1] = "denied" /\ t \in client.report[sig]
=============================================================================
