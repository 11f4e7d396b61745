------------------------------- MODULE Traces -------------------------------
(* What is read out of Opik's traces: the importer that turns a thread of   *)
(* them into one Kitaru Session (importers/opik_importer.py) and the miner  *)
(* that looks for regressions in them (evals/harness/mine.py).  Pure        *)
(* functions of a trace and its spans; ids, thread keys and times are       *)
(* numbers, 0 for one that is missing.                                      *)
EXTENDS Integers, Sequences, SequencesExt, FiniteSets

\* A span: its parent, what it is, and of a tool call the tool, the arguments, whether it
\* is the leg that was deferred for approval, and its result; answer is what became of a
\* deferred call, which no reader sees.
Span == [id : Nat, parent : Nat, kind : {"llm", "tool", "span"}, tool : STRING, args : Nat, deferred : BOOLEAN,
         result : Nat, start : Nat, answer : {"none", "ran", "denied", "lost"}]
\* A trace: one turn of a thread, whose key is a column of it or in its metadata.
Trace == [id : Nat, thread : Nat, metaThread : Nat, start : Nat, error : STRING, input : Nat, model : STRING,
          tokens : Int, spans : SUBSET Span]

ThreadColumn(trace) == IF trace.thread # 0 THEN trace.thread ELSE trace.metaThread
ThreadKey(trace) == IF ThreadColumn(trace) # 0 THEN ThreadColumn(trace) ELSE trace.id

IsToolSpan(span) == span.kind = "tool"
ToolSpanName(span) == IF IsToolSpan(span) THEN span.tool ELSE ""
NodeOutputs(span) == IF span.deferred THEN 0 ELSE span.result

-----------------------------------------------------------------------------
\* _trace_trees: a parent that is not there makes a root.
Ids(trace) == {s.id : s \in trace.spans}
Conflicting(trace) == \E s, t \in trace.spans : s.id = t.id /\ s # t
GraphComplete(trace) == \A s \in trace.spans : s.parent \in Ids(trace) \union {0}
Roots(trace) == {s \in trace.spans : s.parent \notin Ids(trace)}
Unbuildable(trace) == Conflicting(trace) \/ (trace.spans # {} /\ Roots(trace) = {})

\* build: the nodes of the trees are the least set of spans with the roots and every child.
NodesOf(trace) ==
    LET built(nodes) == /\ Roots(trace) \subseteq nodes
                        /\ \A s \in trace.spans : s.parent \in {n.id : n \in nodes} => s \in nodes
    IN  {s \in trace.spans : \A nodes \in SUBSET trace.spans : built(nodes) => s \in nodes}

\* _replay_readiness.
Replayable(span) == span.tool # "" /\ span.args # 0 /\ NodeOutputs(span) # 0
Readiness(nodes, complete, input) ==
    CASE input = 0 -> "unavailable"
      [] complete /\ (\A s \in nodes : IsToolSpan(s) => Replayable(s)) -> "ready"
      [] OTHER -> "partial"

\* The turns of a thread by their clock, the id breaking a tie.
Earlier(t, u) == t.start < u.start \/ (t.start = u.start /\ t.id < u.id)
\* A set in an order: each is as far on as others are before it.
Ranked(S, before(_, _)) ==
    [i \in 1 .. Cardinality(S) |-> CHOOSE x \in S : Cardinality({y \in S : before(y, x)}) = i - 1]
InOrder(traces) == Ranked(traces, Earlier)

\* _session, of the turns of one thread in order.
Session(key, turns) ==
    LET nodes == UNION {NodesOf(turns[i]) : i \in DOMAIN turns}
        complete == \A i \in DOMAIN turns : GraphComplete(turns[i])
    IN  [key |-> key, failed |-> turns[Len(turns)].error # "", turns |-> [i \in DOMAIN turns |-> turns[i].id],
         readiness |-> Readiness(nodes, complete, turns[1].input), nodes |-> {s.id : s \in nodes}]

\* parse: one session, or one failure (of no session), for each thread of a document.
Groups(traces) == {ThreadKey(t) : t \in traces}
Parse(traces) ==
    [key \in Groups(traces) |->
        LET turns == InOrder({t \in traces : ThreadKey(t) = key})
        IN  IF \E i \in DOMAIN turns : Unbuildable(turns[i]) THEN {} ELSE {Session(key, turns)}]

-----------------------------------------------------------------------------
\* The miner.  A deferred leg that no completed leg of the same call answers was denied.
Legs(trace, deferred) == {s \in trace.spans : IsToolSpan(s) /\ s.deferred = deferred}
CallKey(span) == <<span.tool, span.args>>
Times(legs, key) == Cardinality({s \in legs : CallKey(s) = key})

DeniedToolCalls(trace) ==
    LET over(key) == Times(Legs(trace, TRUE), key) - Times(Legs(trace, FALSE), key)
    IN  Cardinality(UNION {{key} \X (1 .. over(key)) : key \in {CallKey(s) : s \in Legs(trace, TRUE)}})

LastToolName(trace) ==
    LET tools == {s \in trace.spans : ToolSpanName(s) # ""}
    IN  IF tools = {} THEN "" ELSE (CHOOSE s \in tools : \A t \in tools : t = s \/ Earlier(t, s)).tool

\* top_decile: a tenth of the traces whose length is known, rounded up, the longest first.
TopDecile(traces) ==
    LET known == {t \in traces : t.tokens >= 0}
        longer(t) == {u \in known : u.tokens > t.tokens \/ (u.tokens = t.tokens /\ u.id < t.id)}
    IN  {t \in known : Cardinality(longer(t)) < (Cardinality(known) + 9) \div 10}

Presets == {"errors", "long", "denied"}
DeniedBar == 2
MinePreset(traces, preset) ==
    CASE preset = "errors" -> {t \in traces : t.error # ""}
      [] preset = "long" -> TopDecile(traces)
      [] preset = "denied" -> {t \in traces : DeniedToolCalls(t) >= DeniedBar}

Signature(preset, trace) == <<preset, trace.error, LastToolName(trace), trace.model>>

\* group_hits, of what each preset finds: the traces of each signature.
GroupHits(traces, presets) ==
    LET hits == {h \in presets \X traces : h[2] \in MinePreset(traces, h[1])}
    IN  [sig \in {Signature(h[1], h[2]) : h \in hits} |->
            {h[2] : h \in {x \in hits : Signature(x[1], x[2]) = sig}}]
=============================================================================
