------------------------------ MODULE MCEvals ------------------------------
EXTENDS Evals
CONSTANTS a, b, c1, c2, c3

\* Two tasks of two tiers, one selected or refused by the filter, with items of older jobs.
MCTier == [t \in Tasks |-> IF t = a THEN "easy" ELSE "hard"]
MCFilters == {[ids |-> {a}, tier |-> "any"], [ids |-> {a, "other"}, tier |-> "hard"]}
Entry(t, v) == [task |-> t, version |-> v, id |-> TRUE]
MCDatasets == {<<>>, <<Entry(a, 0), Entry(a, 1), Entry(b, 0)>>,
               <<[Entry(a, 0) EXCEPT !.id = FALSE]>>}
MCOperators == {[v \in EnvVars |-> "operator"]}
PlainSeed == [setup |-> "absent", git |-> FALSE, committed |-> FALSE, main |-> FALSE, clean |-> FALSE, remote |-> FALSE]
MCRecipes == {PlainSeed, [PlainSeed EXCEPT !.setup = "failed"]}

\* A case whose gate denies, one that compacts a history, and one that cannot be built.
Case == [tier |-> "easy", skip |-> FALSE, cap |-> 1, keys |-> {}, denies |-> {}, compacts |-> FALSE,
         prefill |-> 0, metrics |-> {"answered", "max_steps", "not_succeeded", "judge"}]
MCDeclared == [c \in Cases |->
    CASE c = c1 -> [Case EXCEPT !.denies = {"bash"}]
      [] c = c2 -> [Case EXCEPT !.tier = "hard", !.keys = {"window"}, !.prefill = 1, !.compacts = TRUE,
                                !.metrics = {"contains"}]
      [] OTHER -> [Case EXCEPT !.tier = "medium", !.keys = {"unknown"}, !.metrics = {"answered", "file_diff", "called"}]]
MCSlices == {[case |-> "any", tier |-> "any"], [case |-> "any", tier |-> "easy"]}
MCSurfaces == {[dataset |-> <<>>, suite |-> {}],
               [dataset |-> <<[case |-> c1, version |-> 0], [case |-> c1, version |-> 0]>>,
                suite |-> {[case |-> c2, version |-> 1], [case |-> c1, version |-> 0]}]}
Say(text) == [text |-> text, tool |-> "none", good |-> TRUE]
Use(tool_, good) == [text |-> "none", tool |-> tool_, good |-> good]
MCReplies == {Say("plain"), Say("asked"), Use("write", TRUE), Use("bash", FALSE)}

\* Traces 1 and 2 are turns of thread 7, 5 and 6 of thread 9 by their metadata, 3 and 4 of none.
Node(id, parent) == [id |-> id, parent |-> parent, kind |-> "span", tool |-> "", args |-> 0, deferred |-> FALSE,
                     result |-> 0, start |-> id, answer |-> "none"]
Ran(id, parent, args) == [Node(id, parent) EXCEPT !.kind = "tool", !.tool = "bash", !.args = args, !.result = 1]
Deferred(id, parent, args, answer) ==
    [Node(id, parent) EXCEPT !.kind = "tool", !.tool = "bash", !.args = args, !.deferred = TRUE, !.answer = answer]
Turn(id, thread, meta, spans) ==
    [id |-> id, thread |-> thread, metaThread |-> meta, start |-> id, error |-> "", input |-> 1,
     model |-> "m", tokens |-> id, spans |-> spans]
T1 == Turn(1, 7, 0, {Node(1, 0), Deferred(2, 1, 1, "denied"), Deferred(3, 1, 2, "denied"), Ran(4, 9, 3)})
T2 == Turn(2, 7, 0, {Node(1, 0), Deferred(2, 1, 1, "ran"), Deferred(3, 1, 2, "ran"), Ran(4, 1, 1), Ran(5, 1, 2)})
T3 == [Turn(3, 0, 0, {Node(1, 0)}) EXCEPT !.error = "e", !.tokens = -1]
T4 == Turn(4, 0, 0, {})
T5 == Turn(5, 0, 9, {Node(1, 2), Node(2, 1)})
T6 == Turn(6, 0, 9, {Node(1, 0), Node(2, 3), Node(3, 2)})
MCProjects == {{}, {T1, T3, T4}, {T1, T2, T5, T6}}
MCGrowth == {T2}
\* Sessions 1 and 4 are of trials that failed, 2 of one that was won, 3 of one never graded.
MCSessions == {[i \in 1 .. 4 |-> [name |-> <<"r1", "r2", "r3", "r4">>[i], key |-> 100 + i, turns |-> <<>>]]}
MCRegistries == {[k \in ToSet(Kinds) |-> v] : v \in {<<>>, <<0>>}}
MCRequests == {[traces |-> {}, threads |-> {}, wait |-> TRUE], [traces |-> {3, 4}, threads |-> {7}, wait |-> TRUE],
               [traces |-> {1, 5, 6}, threads |-> {}, wait |-> FALSE], [traces |-> {}, threads |-> {8}, wait |-> TRUE]}
Row(status, score, reward, session, kitaru) ==
    [status |-> status, score |-> score, reward |-> reward, session |-> session, kitaru |-> kitaru]
MCExperiments ==
    {[agent |-> TRUE, trials |-> {Row("agent_fail", 0, 0, "r1", 0), Row("agent_ok", 1, 1, "r2", 0),
                                  Row("infra_error", -1, -1, "r3", 0)}],
     [agent |-> TRUE, trials |-> {Row("agent_fail", 0, 0, "r1", 1), Row("agent_fail", -1, 0, "x", 4),
                                  Row("agent_fail", 0, 0, "y", 0)}],
     [agent |-> FALSE, trials |-> {Row("agent_fail", 0, 0, "r1", 1)}]}
=============================================================================
