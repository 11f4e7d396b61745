------------------------------ MODULE Headless ------------------------------
(* One decode run (cli.py run, runtime/): where the task comes from, the    *)
(* guards, the scope, the recording seam, the agent's requests, and the     *)
(* finally clause that reaps the sandbox, hands the Workspace back and      *)
(* writes the summary, in this order, whatever ended the run.               *)
(*                                                                          *)
(* Everything but the agent is one thread, so an action is one step of the  *)
(* pipeline.  The operator may interrupt at any step, a deadline may kill   *)
(* the process at any step, and every service may fail.  Work is the number *)
(* of changes the tools made; a copy holds the first so many of them.       *)
EXTENDS Naturals

CONSTANTS
    Launches,       \* how the command may be launched, records as in Launch
    MaxRequests     \* bound: requests to the model

\* worker: KITARU_TASK_ID is set.  explicit: TASK is on the command line.  prompt:
\* the Worker Task's inputs hold one.  opted: KITARU_AGENT_ID and KITARU_API_URL are
\* set.  cap: --max-requests, 0 for none.  summary: --summary-json is given.
Launch == [worker : BOOLEAN, explicit : BOOLEAN, prompt : BOOLEAN, opted : BOOLEAN,
           mode : {"none", "docker", "modal"}, repo : BOOLEAN, cap : Nat, summary : BOOLEAN]

ASSUME HeadlessAssumption == Launches \subseteq Launch /\ MaxRequests \in Nat

VARIABLES
    launch,     \* how the command was launched
    pc,         \* the step of the pipeline; "done" is exited, "killed" is not by itself
    task,       \* the source of the prompt: "none", "explicit" or "recorded"
    agent,      \* "none", "bare" or "wrapped" for recording
    session,    \* the recorded session: "none", or "made" by the first use of the agent
    requests,   \* requests made to the model
    state,      \* the run state: exit reason, whether it holds an error and an output
    failure,    \* what ended the run, "none" while nothing did
    work,       \* changes made by the tools
    host,       \* those of them in the host Workspace
    box,        \* the sandbox the Backend holds by name: "none", "up" or "gone"
    left,       \* sandboxes that may be up with nobody holding them: "asked" to end in
                \*     vain, or "unnamed", lost while they were being made
    branch,     \* the Session Branch, here and on origin: the changes it holds, 0 for no branch
    handback,   \* the hand-back's result for the summary, NoHandback otherwise
    temp,       \* whether the temporary file of the summary lies there
    file,       \* what the summary path holds: Old, or a summary
    shown,      \* lines printed: "answer" on stdout; "notice", "limit", "recording",
                \*     "usage", and "escape" for what Click or Python prints, on stderr
    exit,       \* the exit code, "none" before the end
    faults      \* history: which best-effort steps failed, "late" for an interrupt in them

vars == <<launch, pc, task, agent, session, requests, state, failure, work, host, box, left,
          branch, handback, temp, file, shown, exit, faults>>
run == <<task, agent, session, requests, state, failure>>
boxes == <<box, left>>
disk == <<work, host, boxes, branch>>
ending == <<handback, temp, file, faults>>
console == <<shown, exit>>

NoHandback == [branch |-> 0, pushed |-> FALSE]
Old == [reason |-> "old"]

Init ==
    /\ launch \in Launches /\ pc = "launch"
    /\ task = "none" /\ agent = "none" /\ session = "none" /\ requests = 0
    /\ state = [reason |-> "error", error |-> FALSE, output |-> FALSE] /\ failure = "none"
    /\ work = 0 /\ host = 0 /\ box = "none" /\ left = {} /\ branch = [here |-> 0, origin |-> 0]
    /\ handback = NoHandback /\ temp = FALSE /\ file = Old /\ faults = {}
    /\ shown = {} /\ exit = "none"

Isolated == launch.mode # "none"

-----------------------------------------------------------------------------
\* run up to run_headless_task: the source of the task, then the guards.
Resolve ==
    /\ pc = "launch"
    /\ \/ /\ task' = IF launch.explicit THEN "explicit" ELSE "recorded"
          /\ launch.explicit \/ (launch.worker /\ launch.prompt)
          /\ launch.repo => Isolated
          /\ pc' = "prepare" /\ UNCHANGED console
       \/ /\ pc' = "done" /\ shown' = {"usage"} /\ exit' = "1" /\ UNCHANGED task
    /\ UNCHANGED <<launch, agent, session, requests, state, failure, disk, ending>>

\* The run raises, and the finally clause follows: the ceiling is no error.
Raise(kind) ==
    /\ failure' = kind /\ pc' = "reap"
    /\ state' = IF kind = "limit" THEN [state EXCEPT !.reason = "request_limit"]
                                  ELSE [state EXCEPT !.error = TRUE]

\* create: a sandbox is the session's once it is up.  A modal one whose bootstrap
\* fails is asked to end, and a failure of that is suppressed.
Create ==
    \/ box' = "up" /\ UNCHANGED left
    \/ /\ UNCHANGED box
       /\ left' = left \/ (launch.mode = "modal" /\ left' = left \union {"asked"})

\* A create, or the revival of an expired modal sandbox, that is cut off: what it had
\* started stays up, its name not stored yet.
CutOff ==
    /\ UNCHANGED box
    /\ \/ UNCHANGED left
       \/ /\ Isolated /\ (box # "up" \/ launch.mode = "modal")
          /\ left' = left \union {"unnamed"}

\* destroy: the name is forgotten first, and a failure is swallowed.
Destroy ==
    /\ box' = IF box = "up" THEN "gone" ELSE box
    /\ left' = left \/ (box = "up" /\ left' = left \union {"asked"})

\* _prepare_headless_tool_scope: a failed clone is fatal, a failed warm-up is not.
Prepare ==
    /\ pc = "prepare"
    /\ \/ pc' = "wrap" /\ UNCHANGED <<boxes, state, failure>>
       \/ Isolated /\ pc' = "wrap" /\ Create /\ UNCHANGED <<state, failure>>
       \/ launch.repo /\ Raise("clone") /\ UNCHANGED boxes
    /\ UNCHANGED <<launch, task, agent, session, requests, work, host, branch, ending, console>>

Configured == launch.worker \/ launch.opted

\* wrap_for_recording: any failure of the setup costs the notice, or the Worker Task.
Wrap ==
    /\ pc = "wrap"
    /\ \/ /\ agent' = IF Configured THEN "wrapped" ELSE "bare"
          /\ pc' = "run" /\ UNCHANGED <<state, failure, shown>>
       \/ /\ Configured /\ ~launch.worker
          /\ agent' = "bare" /\ shown' = shown \union {"notice"}
          /\ pc' = "run" /\ UNCHANGED <<state, failure>>
       \/ launch.worker /\ Raise("recording") /\ UNCHANGED <<agent, shown>>
    /\ UNCHANGED <<launch, task, session, requests, disk, ending, exit>>

\* The adapter makes the session lazily, inside agent.run, and may be refused.
OpenSession ==
    /\ pc = "run" /\ agent = "wrapped" /\ session = "none"
    /\ \/ session' = "made" /\ UNCHANGED <<pc, state, failure>>
       \/ Raise("session") /\ UNCHANGED session
    /\ UNCHANGED <<launch, task, agent, requests, disk, ending, console>>

Ready == pc = "run" /\ (agent = "wrapped" => session = "made")

\* A request whose response calls tools, which may change the Workspace; the first
\* tool makes the sandbox that a failed warm-up left to it.
ToolRequest ==
    /\ Ready /\ requests < MaxRequests /\ (launch.cap = 0 \/ requests < launch.cap)
    /\ requests' = requests + 1
    /\ \/ UNCHANGED <<work, host>>
       \/ /\ work' = work + 1 /\ (Isolated => box' = "up")
          /\ host' = IF launch.mode = "modal" THEN host ELSE work'
    /\ IF Isolated /\ box # "up" THEN Create \/ UNCHANGED boxes ELSE UNCHANGED boxes
    /\ UNCHANGED <<launch, pc, task, agent, session, state, failure, branch, ending, console>>

\* A request whose response is the answer.
LastRequest ==
    /\ Ready /\ requests < MaxRequests /\ (launch.cap = 0 \/ requests < launch.cap)
    /\ requests' = requests + 1
    /\ state' = [reason |-> "completed", error |-> FALSE, output |-> TRUE]
    /\ pc' = "reap"
    /\ UNCHANGED <<launch, task, agent, session, failure, disk, ending, console>>

\* UsageLimits: the request after the last allowed one raises.
CapFires ==
    /\ Ready /\ launch.cap # 0 /\ requests = launch.cap
    /\ Raise("limit")
    /\ UNCHANGED <<launch, task, agent, session, requests, disk, ending, console>>

\* The provider, a tool, or a response the runner does not expect, raises; the tools
\* under way beside it are cancelled.
AgentFails ==
    /\ Ready /\ Raise("agent") /\ CutOff
    /\ UNCHANGED <<launch, task, agent, session, requests, work, host, branch, ending, console>>

\* SIGINT while asyncio.run runs _run_task.
Interrupt ==
    /\ pc \in {"prepare", "wrap", "run"} /\ Raise("interrupt")
    /\ IF pc = "wrap" THEN UNCHANGED boxes ELSE CutOff
    /\ UNCHANGED <<launch, task, agent, session, requests, work, host, branch, ending, console>>

-----------------------------------------------------------------------------
(* The finally clause. *)

\* A teardown whose failure is not swallowed ends the finally clause.
ReapRaises ==
    /\ pc = "reap"
    /\ \/ host' = work /\ pc' = "ship" /\ UNCHANGED faults
       \/ launch.mode = "modal" /\ pc' = "report" /\ faults' = faults \union {"sweep"} /\ host' \in host .. work
    /\ Destroy
    /\ UNCHANGED <<launch, run, work, branch, handback, temp, file, console>>

\* _reap_executor: the sweep of a modal sandbox may fail, half-way too, and the
\* teardown follows.
Reap ==
    /\ pc = "reap" /\ pc' = "ship"
    /\ \/ host' = work /\ UNCHANGED faults
       \/ launch.mode = "modal" /\ faults' = faults \union {"sweep"} /\ host' \in host .. work
    /\ Destroy
    /\ UNCHANGED <<launch, run, work, branch, handback, temp, file, console>>

\* ship_workspace, as far as the run sees it: nothing to hand back, or the branch is
\* set here and then pushed or not.
HandedBack ==
    \/ (~launch.repo \/ host = 0) /\ UNCHANGED <<branch, handback>>
    \/ /\ launch.repo /\ host # 0
       /\ \E pushed \in BOOLEAN :
            /\ branch' = [here |-> host, origin |-> IF pushed THEN host ELSE branch.origin]
            /\ handback' = [branch |-> host, pushed |-> pushed]

\* _ship_headless_workspace: a failure is no result, and no failure of the run.
Ship ==
    /\ pc = "ship" /\ pc' = IF launch.summary THEN "write" ELSE "report"
    /\ \/ HandedBack /\ UNCHANGED faults
       \/ launch.repo /\ faults' = faults \union {"ship"} /\ UNCHANGED <<branch, handback>>
    /\ UNCHANGED <<launch, run, work, host, boxes, temp, file, console>>

\* A summary that takes its usage from a result only a completed run has.
SummaryFromResult ==
    [reason |-> state.reason, error |-> state.error, output |-> state.output,
     requests |-> IF state.output THEN requests ELSE 0, handback |-> handback]

\* build_summary, with the usage from the captured messages.
Summary ==
    [reason |-> state.reason, error |-> state.error, output |-> state.output,
     requests |-> requests, handback |-> handback]

\* write_summary: first a temporary file beside the path ...
Write ==
    /\ pc = "write"
    /\ \/ pc' = "replace" /\ temp' = TRUE /\ UNCHANGED faults
       \/ pc' = "report" /\ temp' \in BOOLEAN /\ faults' = faults \union {"write"}
    /\ UNCHANGED <<launch, run, disk, handback, file, console>>

\* ... that takes the path's place as a whole.
Replace ==
    /\ pc = "replace" /\ pc' = "report"
    /\ \/ file' = Summary /\ temp' = FALSE /\ UNCHANGED faults
       \/ UNCHANGED file /\ temp' \in BOOLEAN /\ faults' = faults \union {"write"}
    /\ UNCHANGED <<launch, run, disk, handback, console>>

\* SIGINT in the finally clause: what is under way ends anywhere, the rest is skipped.
InterruptFinally ==
    /\ pc \in {"reap", "ship", "write", "replace"}
    /\ pc' = "report" /\ failure' = "interrupt" /\ faults' = faults \union {"late"}
    /\ \/ UNCHANGED <<disk, temp, file>>
       \/ /\ pc = "reap" /\ host' \in host .. work
          /\ Destroy \/ UNCHANGED boxes
          /\ UNCHANGED <<work, branch, temp, file>>
       \/ /\ pc = "ship" /\ launch.repo /\ host # 0
          /\ branch' \in [here : {host}, origin : {branch.origin, host}]
          /\ UNCHANGED <<work, host, boxes, temp, file>>
       \/ pc = "write" /\ temp' = TRUE /\ UNCHANGED <<disk, file>>
       \/ pc = "replace" /\ file' = Summary /\ temp' = FALSE /\ UNCHANGED disk
    /\ UNCHANGED <<launch, task, agent, session, requests, state, handback, console>>

\* run after run_headless_task: the answer, or one line for the failures it knows.
Report ==
    /\ pc = "report" /\ pc' = "done"
    /\ exit' = IF failure = "none" THEN "0" ELSE "1"
    /\ shown' = shown \union
         CASE failure = "none" -> {"answer"}
           [] failure = "limit" -> {"limit"}
           [] failure = "recording" \/ (failure = "session" /\ launch.worker) -> {"recording"}
           [] OTHER -> {"escape"}
    /\ UNCHANGED <<launch, run, disk, ending>>

\* SIGKILL, at the end of a trial's grace period or by a scheduler.
Kill ==
    /\ pc \notin {"done", "killed"} /\ pc' = "killed"
    /\ UNCHANGED <<launch, run, disk, ending, console>>

Next ==
    \/ Resolve \/ Prepare \/ Wrap \/ OpenSession
    \/ ToolRequest \/ LastRequest \/ CapFires \/ AgentFails \/ Interrupt
    \/ Reap \/ Ship \/ Write \/ Replace \/ InterruptFinally \/ Report \/ Kill

Spec == Init /\ [][Next]_vars
-----------------------------------------------------------------------------
\* What a Benchmark Trial reads as ground truth is true (runtime/summary.py): the
\* exit reason tells an answer from a ceiling from an error, the requests are those
\* made, however the run ended, and a branch it names is there with the swept work.
SummaryIsTrue ==
    file # Old =>
        /\ (file.reason = "completed") = file.output
        /\ file.reason = "completed" => requests > 0 /\ ~file.error
        /\ file.reason = "request_limit" => requests = launch.cap /\ ~file.error
        /\ file.reason = "error" => file.error
        /\ file.requests = requests
        /\ file.handback.branch = branch.here /\ file.handback.branch \in {0, host}
        /\ file.handback.pushed => branch.origin = branch.here
        /\ file.handback.branch # 0 /\ "sweep" \notin faults => branch.here = work

\* "Both run on error too: a crashed run still ships its work" (run_headless_task),
\* unless an interrupt lands in the finally clause itself: every sandbox was asked to
\* end but one whose making was cut off, swept work is on the Session Branch, and the
\* summary is there.
DebtsArePaid ==
    pc = "done" /\ task # "none" /\ "late" \notin faults =>
        /\ box # "up" /\ ("unnamed" \in left => failure \in {"interrupt", "agent"})
        /\ launch.repo /\ host # 0 /\ "ship" \notin faults => branch.here = host
        /\ "sweep" \notin faults => host = work
        /\ launch.summary /\ "write" \notin faults => file # Old

\* Departure: "Reap the run's sandbox executor at completion" (_reap_executor), and no
\* sandbox is left.
NoSandboxLeft == pc = "done" /\ task # "none" /\ "late" \notin faults => box # "up" /\ left = {}

\* "Recording is an observer, never an availability dependency" (recording.py): it
\* never ends a run that no Worker launched.
RecordingObserves == failure = "session" => launch.worker
=============================================================================
