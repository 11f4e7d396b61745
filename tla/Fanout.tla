------------------------------- MODULE Fanout -------------------------------
(* The agent tool's fan-out (tools/agent.py): one response of the parent    *)
(* model may hold several agent calls, each spawns one read-only Explore    *)
(* child per prompt, and all the children of one event loop share one       *)
(* semaphore.  A rejected call raises ModelRetry; pydantic-ai counts the    *)
(* consecutive responses with a rejected call and aborts the run past the   *)
(* tool's retry budget.                                                     *)
EXTENDS Truncate

CONSTANTS
    Calls,          \* the agent calls one response may hold
    MaxParallel,    \* settings.subagent_max_parallel
    MaxFanout,      \* MAX_FANOUT_PROMPTS
    RetryBudget,    \* AGENT_TOOL_RETRIES
    Budget,         \* settings.subagent_result_max_bytes
    MaxLines,       \* settings.max_output_lines
    Reports,        \* the usable reports a child may write
    MaxResponses    \* bound: responses of the parent model

ASSUME FanoutAssumption ==
    /\ {MaxParallel, MaxFanout, Budget, MaxLines} \subseteq Nat \ {0}
    /\ RetryBudget \in Nat

VARIABLES
    leg,        \* the parent's run: "live" or "aborted"
    nags,       \* consecutive earlier responses in which a call was rejected
    responses,  \* responses so far
    call,       \* the calls of the current response
    child,      \* the children of each call, by prompt
    waiting,    \* the semaphore's waiters, first come first served
    held        \* the children that hold a slot of the semaphore

fanoutVars == <<leg, nags, responses, call, child, waiting, held>>

\* A prompt has the words the substance guard asks for or not.
Prompts == {"brief", "terse"}
PromptLists == UNION {[1 .. n -> Prompts] : n \in 0 .. MaxFanout + 1}

\* How an attempt ends: a bad report is empty, deferred or backed by no tool call.
Outcomes == {"good", "bad", "raise"}

\* A section of the fold: a report cut to its share, or one of the two notes.
Report(r, share) == [note |-> "none", text |-> r, kept |-> Kept(r, MaxLines, share)]
Note(n) == [note |-> n, text |-> <<>>, kept |-> 0]
NoSection == Note("pending")
NoUsableReport == Note("no usable report")
ChildFailed == Note("child failed")

NewChild == [at |-> "new", seen |-> <<>>, section |-> NoSection]
Idle == [at |-> "idle", prompts |-> <<>>, fold |-> <<>>]

FanoutInit ==
    /\ leg = "live" /\ nags = 0 /\ responses = 0
    /\ call = [c \in Calls |-> Idle]
    /\ child = [c \in Calls |-> <<>>]
    /\ waiting = <<>> /\ held = {}

\* The three guards, in front of any child.
Rejected(prompts) ==
    \/ prompts = <<>>
    \/ Len(prompts) > MaxFanout
    \/ \E i \in DOMAIN prompts : prompts[i] = "terse"

\* Each child's share of the fold.
Share(c) == Budget \div Len(call[c].prompts)

\* The parent model answers once every call of its last response has ended.
\* ToolManager: the count grows over a response with a rejected call and starts
\* over otherwise; a rejection past the budget ends the run.
Nags == IF \E c \in Calls : call[c].at = "rejected" THEN nags + 1 ELSE 0

Respond ==
    /\ leg = "live" /\ responses < MaxResponses
    /\ \A c \in Calls : call[c].at # "gather"
    /\ \E C \in SUBSET Calls, prompts \in [Calls -> PromptLists] :
          LET bad == {c \in C : Rejected(prompts[c])}
          IN  /\ \A c \in Calls \ C : prompts[c] = <<>>
              /\ call' = [c \in Calls |->
                    IF c \notin C THEN Idle
                    ELSE [at |-> IF c \in bad THEN "rejected" ELSE "gather",
                          prompts |-> prompts[c], fold |-> <<>>]]
              /\ child' = [c \in Calls |->
                    IF c \in C \ bad THEN [i \in DOMAIN prompts[c] |-> NewChild] ELSE <<>>]
              /\ nags' = Nags
              /\ responses' = responses + 1
              /\ leg' = IF bad # {} /\ Nags >= RetryBudget THEN "aborted" ELSE "live"
    /\ UNCHANGED <<waiting, held>>

-----------------------------------------------------------------------------
\* asyncio.Semaphore: a free slot goes to the caller when nobody waits, and a
\* released one to the first waiter.
Granted(k, w, h) == w = <<>> /\ Cardinality(h) < MaxParallel

Acquire(k, w, h) ==
    /\ waiting' = IF Granted(k, w, h) THEN w ELSE Append(w, k)
    /\ held' = IF Granted(k, w, h) THEN h \union {k} ELSE h

\* The release forgets to wake a waiter.
WaitersAfterKept(k) == waiting

\* The waiters and the holders once the child k has left the semaphore.
WaitersAfter(k) == IF k \in held /\ waiting # <<>> THEN Tail(waiting)
                   ELSE RemoveFirst(waiting, k)
HoldersAfter(k) == (held \ {k}) \union
                   (IF k \in held /\ waiting # <<>> THEN {Head(waiting)} ELSE {})

\* asyncio.gather starts the children of a call in prompt order.
Start(c, i) ==
    /\ i \in DOMAIN child[c] /\ child[c][i].at = "new"
    /\ \A j \in 1 .. i - 1 : child[c][j].at # "new"
    /\ child' = [child EXCEPT ![c][i].at = "spawned"]
    /\ Acquire(<<c, i>>, waiting, held)
    /\ UNCHANGED <<leg, nags, responses, call>>

\* A child that raises is retried like a bad report.
VerdictRetriesRaise(seen, outcome, report, share) ==
    IF outcome = "good" THEN Report(report, share)
    ELSE IF seen = <<>> THEN NoSection ELSE NoUsableReport

\* _spawn_child's verdict on an attempt that ended so: the section it folds, or
\* NoSection when it is to try again.
Verdict(seen, outcome, report, share) ==
    CASE outcome = "good" -> Report(report, share)
      [] outcome = "raise" -> ChildFailed
      [] outcome = "bad" -> IF seen = <<>> THEN NoSection ELSE NoUsableReport

\* The semaphore's slot is not given back when the attempt ends.
EndAttemptLeaks(c, i) ==
    /\ <<c, i>> \in held /\ i \in DOMAIN child[c] /\ child[c][i].at = "spawned"
    /\ \E outcome \in Outcomes, report \in Reports :
          LET s == Verdict(child[c][i].seen, outcome, report, Share(c))
          IN  /\ outcome # "good" => report = CHOOSE r \in Reports : TRUE
              /\ child' = [child EXCEPT
                    ![c][i].at = IF s = NoSection THEN @ ELSE "done",
                    ![c][i].seen = Append(@, outcome),
                    ![c][i].section = s]
              /\ IF outcome = "raise" THEN waiting' = waiting /\ held' = held
                 ELSE IF s = NoSection
                 THEN Acquire(<<c, i>>, WaitersAfter(<<c, i>>), HoldersAfter(<<c, i>>))
                 ELSE waiting' = WaitersAfter(<<c, i>>) /\ held' = HoldersAfter(<<c, i>>)
    /\ UNCHANGED <<leg, nags, responses, call>>

\* An attempt ends and frees its slot; a first bad report asks for a new slot,
\* behind whoever waits.
EndAttempt(c, i) ==
    /\ <<c, i>> \in held
    /\ \E outcome \in Outcomes, report \in Reports :
          LET s == Verdict(child[c][i].seen, outcome, report, Share(c))
          IN  /\ outcome # "good" => report = CHOOSE r \in Reports : TRUE
              /\ child' = [child EXCEPT
                    ![c][i].at = IF s = NoSection THEN @ ELSE "done",
                    ![c][i].seen = Append(@, outcome),
                    ![c][i].section = s]
              /\ IF s = NoSection
                 THEN Acquire(<<c, i>>, WaitersAfter(<<c, i>>), HoldersAfter(<<c, i>>))
                 ELSE waiting' = WaitersAfter(<<c, i>>) /\ held' = HoldersAfter(<<c, i>>)
    /\ UNCHANGED <<leg, nags, responses, call>>

\* An aborted run may cancel the tool calls still under way.
Cancel(c, i) ==
    /\ leg = "aborted" /\ i \in DOMAIN child[c] /\ child[c][i].at = "spawned"
    /\ child' = [child EXCEPT ![c][i].at = "cancelled"]
    /\ waiting' = WaitersAfter(<<c, i>>) /\ held' = HoldersAfter(<<c, i>>)
    /\ UNCHANGED <<leg, nags, responses, call>>

\* The call returns when all its children are done: one section per prompt, in
\* prompt order.
Fold(c) ==
    /\ call[c].at = "gather"
    /\ \A i \in DOMAIN child[c] : child[c][i].at = "done"
    /\ call' = [call EXCEPT ![c].at = "folded",
                            ![c].fold = [i \in DOMAIN child[c] |-> child[c][i].section]]
    /\ UNCHANGED <<leg, nags, responses, child, waiting, held>>

FanoutNext ==
    \/ Respond
    \/ \E c \in Calls : Fold(c)
    \/ \E c \in Calls, i \in 1 .. MaxFanout : Start(c, i) \/ EndAttempt(c, i) \/ Cancel(c, i)

\* The loop runs every task, and a child ends: its requests are limited in
\* number and each one is answered or fails.
FanoutFairness == \A c \in Calls :
    /\ WF_fanoutVars(Fold(c))
    /\ \A i \in 1 .. MaxFanout : WF_fanoutVars(Start(c, i)) /\ WF_fanoutVars(EndAttempt(c, i))

FanoutSpec == FanoutInit /\ [][FanoutNext]_fanoutVars /\ FanoutFairness
-----------------------------------------------------------------------------
Children == {k \in Calls \X (1 .. MaxFanout) : k[2] \in DOMAIN child[k[1]]}

\* What the variables may hold; no child makes a third attempt.
FanoutTypeOK ==
    /\ leg \in {"live", "aborted"} /\ nags \in 0 .. RetryBudget
    /\ \A c \in Calls :
          /\ call[c].at \in {"idle", "rejected", "gather", "folded"}
          /\ call[c].prompts \in PromptLists
    /\ \A k \in Children :
          /\ child[k[1]][k[2]].at \in {"new", "spawned", "done", "cancelled"}
          /\ Len(child[k[1]][k[2]].seen) <= 2
    /\ held \subseteq Children /\ Range(waiting) \subseteq Children

\* The per-loop semaphore over all the calls of a response (tools/agent.py,
\* _semaphore): the slots taken never exceed the ceiling, every child that is
\* under way holds one or waits once, nobody waits while a slot is free, and a call
\* that is rejected has no child at all ("Whole-call rejection: one lazy angle nags
\* the entire call").
SlotsExact ==
    /\ \A c \in Calls : "terse" \in Range(call[c].prompts) => child[c] = <<>>
    /\ Cardinality(held) <= MaxParallel
    /\ held \union Range(waiting) = {k \in Children : child[k[1]][k[2]].at = "spawned"}
    /\ Len(waiting) = Cardinality(Range(waiting) \ held)
    /\ waiting # <<>> => Cardinality(held) = MaxParallel

\* What a folded section says is what its own child did: a report means the last
\* attempt was good and at most one bad one came before it, the first note two
\* bad reports, the second an exception - and no prompt is left without one.
FoldTellsTheTruth ==
    \A c \in Calls : call[c].at = "folded" =>
        /\ DOMAIN call[c].fold = DOMAIN call[c].prompts
        /\ \A i \in DOMAIN call[c].fold :
              LET seen == child[c][i].seen
                  s == call[c].fold[i]
              IN  /\ s.note = "none" <=> seen \in {<<"good">>, <<"bad", "good">>}
                  /\ s.note = "no usable report" <=> seen = <<"bad", "bad">>
                  /\ s.note = "child failed" <=> seen \in {<<"raise">>, <<"bad", "raise">>}

\* Every accepted call returns its fold, whatever its children do, unless the
\* run itself was aborted.
EveryCallFolds ==
    \A c \in Calls : call[c].at = "gather" ~> (call[c].at = "folded" \/ leg = "aborted")

\* "The fold costs ~subagent_result_max_bytes at ANY width" (tools/agent.py): the
\* reports of one fold together stay within the shared budget.
FoldWithinBudget ==
    \A c \in Calls :
        FoldLeft(LAMBDA n, s : n + Bytes(s.text, s.kept), 0, call[c].fold) <= Budget

=============================================================================
