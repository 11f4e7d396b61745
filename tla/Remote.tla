------------------------------- MODULE Remote -------------------------------
(***************************************************************************)
(* Headless runs on Modal: the commands of the laptop (remote/cli.py), the *)
(* triggers that need none (remote/app.py), and what one call of run_task  *)
(* does in its container (remote/headless.py), around the decode run it    *)
(* starts there (runtime/headless.py).                                     *)
(*                                                                         *)
(* A container stays warm: its files outlive the call.  The branch of a    *)
(* call is named after its session, so both are the number of the call.    *)
(***************************************************************************)
EXTENDS Naturals, Sequences, FiniteSetsExt

CONSTANTS Containers, Repos,
          MaxCalls,      \* bound: calls of run_task in all
          MaxAttempts,   \* bound: attempts of one fan-out
          Triggers,      \* the ways to launch that are in use
          Requests,      \* what is asked for: mode, repository, and whether the
                         \* time-out is over the ceiling of the Function
          MayKeepLog     \* whether the unlink of a left-over log may fail

CONSTANTS NoRepo

ASSUME RemoteAssumption ==
  /\ {MaxCalls, MaxAttempts} \subseteq Nat /\ MayKeepLog \in BOOLEAN /\ NoRepo \notin Repos
  /\ Triggers \subseteq {"run", "attempts", "detach", "webhook", "nightly", "direct"}
  /\ Requests \subseteq [mode : {"none", "modal", "docker"}, repo : Repos \union {NoRepo}, over : BOOLEAN]

VARIABLES
  calls,     \* the calls of run_task, in the order they were made
  container, \* the containers: the call each has, its step, and the files that outlive a call
  origin,    \* the session branches on the repositories
  laptop,    \* the command that waits, or waited last
  mismatch   \* whether the Secret carries the DECODE_ENV of another deployment

remoteVars == <<calls, container, origin, laptop, mismatch>>

NoTree == [repo |-> NoRepo, work |-> {}]
Cold == [call |-> 0, step |-> "idle", code |-> 0, log |-> <<>>, scratch |-> NoTree, ws |-> NoTree]

NoResult == [code |-> 0, session |-> 0, branch |-> 0, note |-> ""]

RemoteInit ==
  /\ calls = <<>> /\ origin = {} /\ mismatch \in BOOLEAN
  /\ container = [k \in Containers |-> Cold]
  /\ laptop = [kind |-> "run", first |-> 1, last |-> 0, state |-> "done", rows |-> <<>>, code |-> 0]

-----------------------------------------------------------------------------
(* What the payload says. *)

\* sandbox_mode_error.
ModeError(mode) == mode \notin {"none", "modal"}

\* attempts_input_error.
AttemptsInputError(n, q) == ModeError(q.mode) \/ n < 1 \/ (n > 1 /\ q.repo = NoRepo)

\* The call of the last line of the log that is one of these, 0 without any.
LastOf(log, lines) ==
  LET found == {i \in DOMAIN log : log[i].line \in lines}
  IN  IF found = {} THEN 0 ELSE log[Max(found)].of

\* Fault: a branch in the log is taken for one that was pushed.
BuildResultTrusting(q, code, log) ==
  [code |-> code, session |-> LastOf(log, {"id"}), branch |-> LastOf(log, {"pushed", "unpushed"}),
   note |-> IF q.mode = "none" /\ q.repo # NoRepo THEN "no hand-back" ELSE ""]

\* build_result: the ids are those logged last; the note says what did not come home.
BuildResult(q, code, log) ==
  LET branch == LastOf(log, {"pushed", "unpushed"})
  IN  [code |-> code, session |-> LastOf(log, {"id"}), branch |-> branch,
       note |-> IF q.mode = "none" /\ q.repo # NoRepo THEN "no hand-back"
                ELSE IF branch # 0 /\ \E i \in DOMAIN log : log[i].line = "unpushed" THEN "unpushed"
                ELSE ""]

\* failed_attempt_result: the row of an attempt that never returned one.
FailedAttempt == [NoResult EXCEPT !.code = 1000, !.note = "never returned"]

\* attempt_status, in one of its values.
Shipped(r) == r.branch # 0 /\ r.note = ""

-----------------------------------------------------------------------------
(* Launching. *)

Spawn(q, n) ==
  /\ Len(calls) + n <= MaxCalls
  /\ calls' = calls \o [i \in 1 .. n |-> [of |-> q, state |-> "queued", result |-> NoResult, kept |-> FALSE]]

Wait(kind, n) ==
  laptop' = [kind |-> kind, first |-> Len(calls) + 1, last |-> Len(calls) + n,
             state |-> "waiting", rows |-> <<>>, code |-> 0]

\* decode remote run: the guard is on the laptop.
RunCommand(q) ==
  /\ "run" \in Triggers /\ laptop.state = "done" /\ ~ModeError(q.mode)
  /\ Spawn(q, 1) /\ Wait("run", 1)
  /\ UNCHANGED <<container, origin, mismatch>>

\* decode remote attempts, and with --detach nobody waits; nor does anybody for those
\* spawned before a spawn that raises.
AttemptsCommand(n, q) ==
  /\ laptop.state = "done" /\ ~AttemptsInputError(n, q)
  /\ \/ "attempts" \in Triggers /\ Spawn(q, n) /\ Wait("attempts", n)
     \/ "detach" \in Triggers /\ Spawn(q, n) /\ UNCHANGED laptop
     \/ /\ {"attempts", "detach"} \intersect Triggers # {}
        /\ \E m \in 1 .. n - 1 : Spawn(q, m)
        /\ UNCHANGED laptop
  /\ UNCHANGED <<container, origin, mismatch>>

\* webhook and nightly: checked by the endpoint and at deploy; a direct call by
\* nobody.  The time-out of each is any positive number.
Trigger(q) ==
  /\ \/ {"webhook", "nightly"} \intersect Triggers # {} /\ ~ModeError(q.mode)
     \/ "direct" \in Triggers
  /\ Spawn(q, 1)
  /\ UNCHANGED <<container, origin, laptop, mismatch>>

-----------------------------------------------------------------------------
(* One call in its container. *)

Of(k) == calls[container[k].call].of
Cloned(k) == Of(k).mode = "none" /\ Of(k).repo # NoRepo

\* Modal gives a call to a container, cold or warm, that has none.
Start(k, n) ==
  /\ container[k].step = "idle" /\ n \in DOMAIN calls /\ calls[n].state = "queued"
  /\ calls' = [calls EXCEPT ![n].state = "running"]
  /\ container' = [container EXCEPT ![k].call = n, ![k].step = "guard"]
  /\ UNCHANGED <<origin, laptop, mismatch>>

\* An idle container is stopped.
Retire(k) ==
  /\ container[k].step = "idle" /\ container[k] # Cold
  /\ container' = [container EXCEPT ![k] = Cold]
  /\ UNCHANGED <<calls, origin, laptop, mismatch>>

Return(k, result) ==
  calls' = [calls EXCEPT ![container[k].call].state = "returned", ![container[k].call].result = result]

Lose(k) == calls' = [calls EXCEPT ![container[k].call].state = "lost"]

Go(k, step) == container' = [container EXCEPT ![k].step = step]

\* The container waits for another call, with the files it has.
Rest(k) == container' = [container EXCEPT ![k].step = "idle", ![k].call = 0, ![k].code = 0]

\* run_task and execute_run: a request that cannot run here is a payload.
Guard(k) ==
  /\ container[k].step = "guard"
  /\ IF mismatch \/ ModeError(Of(k).mode)
     THEN Return(k, BuildResult(Of(k), 2, <<>>)) /\ Rest(k)
     ELSE Go(k, "reset") /\ UNCHANGED calls
  /\ UNCHANGED <<origin, laptop, mismatch>>

\* reset_child_log: an unlink that fails is suppressed.
ResetLog(k) ==
  /\ container[k].step = "reset"
  /\ \/ /\ container' = [container EXCEPT ![k].step = "setup", ![k].log = <<>>]
        /\ UNCHANGED calls
     \/ /\ MayKeepLog /\ container[k].log # <<>> /\ Go(k, "setup")
        /\ calls' = [calls EXCEPT ![container[k].call].kept = TRUE]
  /\ UNCHANGED <<origin, laptop, mismatch>>

\* git config fails: execute_run raises.
CredentialFails(k) ==
  /\ container[k].step = "setup" /\ Lose(k) /\ Rest(k)
  /\ UNCHANGED <<origin, laptop, mismatch>>

NoCloneNeeded(k) ==
  /\ container[k].step = "setup" /\ ~Cloned(k) /\ Go(k, "child")
  /\ UNCHANGED <<calls, origin, laptop, mismatch>>

\* clone_for_none_mode: what is there goes first; a failure is fatal.
CloneForNoneMode(k) ==
  /\ container[k].step = "setup" /\ Cloned(k)
  /\ \/ /\ container' = [container EXCEPT ![k].step = "child", ![k].scratch = [repo |-> Of(k).repo, work |-> {}]]
        /\ UNCHANGED calls
     \/ /\ container' = [container EXCEPT ![k].step = "idle", ![k].call = 0, ![k].scratch = NoTree]
        /\ Lose(k)
  /\ UNCHANGED <<origin, laptop, mismatch>>

Log(k, what, step) ==
  container' = [container EXCEPT ![k].step = step, ![k].log = Append(@, [line |-> what, of |-> container[k].call])]

\* The child names its session, unless the operator's LOG_LEVEL hides the line.
ChildStart(k) ==
  /\ container[k].step = "child"
  /\ Log(k, "id", "prepare") \/ Go(k, "prepare")
  /\ UNCHANGED <<calls, origin, laptop, mismatch>>

\* Its prepare_workspace: what is populated is reused; a failed clone ends it.
PrepareWorkspace(k) ==
  /\ container[k].step = "prepare"
  /\ IF Of(k).mode = "modal" /\ Of(k).repo # NoRepo /\ container[k].ws = NoTree
     THEN \/ container' = [container EXCEPT ![k].step = "work", ![k].ws = [repo |-> Of(k).repo, work |-> {}]]
          \/ container' = [container EXCEPT ![k].step = "read", ![k].code = 1]
     ELSE Go(k, "work")
  /\ UNCHANGED <<calls, origin, laptop, mismatch>>

\* The model works, or changes nothing, and the run ends well or not.
Work(k) ==
  /\ container[k].step = "work"
  /\ \E code \in {0, 1}, done \in {{}, {container[k].call}} :
       container' = [container EXCEPT ![k].step = "ship", ![k].code = code,
                 ![k].scratch.work = IF Cloned(k) THEN @ \union done ELSE @,
                 ![k].ws.work = IF Of(k).mode = "modal" /\ container[k].ws # NoTree THEN @ \union done ELSE @]
  /\ UNCHANGED <<calls, origin, laptop, mismatch>>

\* Its hand-back: to the origin of the Workspace, and only then a line in the log.
Push(k) ==
  /\ container[k].step = "ship"
  /\ LET ws == container[k].ws
         ships == Of(k).mode = "modal" /\ Of(k).repo # NoRepo /\ ws.work # {}
     IN  \/ ~ships /\ Go(k, "read") /\ UNCHANGED origin
         \/ /\ ships /\ Go(k, "pushed")
            /\ origin' = origin \union {[repo |-> ws.repo, branch |-> container[k].call, work |-> ws.work]}
         \/ ships /\ Go(k, "unpushed") /\ UNCHANGED origin
  /\ UNCHANGED <<calls, laptop, mismatch>>

LogPush(k) ==
  /\ container[k].step \in {"pushed", "unpushed"} /\ Log(k, container[k].step, "read")
  /\ UNCHANGED <<calls, origin, laptop, mismatch>>

InChild(k) == container[k].step \in {"child", "prepare", "work", "ship", "pushed", "unpushed"}

\* stream_subprocess: the timer kills the child.
TimerKill(k) ==
  /\ InChild(k) /\ ~Of(k).over
  /\ container' = [container EXCEPT ![k].step = "read", ![k].code = 247]
  /\ UNCHANGED <<calls, origin, laptop, mismatch>>

\* read_child_log, build_result.
ReadBack(k) ==
  /\ container[k].step = "read"
  /\ Return(k, BuildResult(Of(k), container[k].code, container[k].log)) /\ Rest(k)
  /\ UNCHANGED <<origin, laptop, mismatch>>

\* The ceiling of the Function, above the timer of a child that has less.
Ceiling(k) ==
  /\ container[k].step # "idle" /\ (InChild(k) => Of(k).over)
  /\ Lose(k) /\ container' = [container EXCEPT ![k] = Cold]
  /\ UNCHANGED <<origin, laptop, mismatch>>

\* The container dies.
Die(k) ==
  /\ container[k].step # "idle"
  /\ Lose(k) /\ container' = [container EXCEPT ![k] = Cold]
  /\ UNCHANGED <<origin, laptop, mismatch>>

-----------------------------------------------------------------------------
(* Waiting on the laptop. *)

Awaited == laptop.first + Len(laptop.rows)

\* run: the exit code of the child is the command's; a call that is lost raises.
FinishRun ==
  /\ laptop.state = "waiting" /\ laptop.kind = "run" /\ calls[Awaited].state \in {"returned", "lost"}
  /\ laptop' = IF calls[Awaited].state = "lost" THEN [laptop EXCEPT !.state = "done", !.code = 1]
               ELSE [laptop EXCEPT !.state = "done", !.code = calls[Awaited].result.code,
                       !.rows = <<calls[Awaited].result>>]
  /\ UNCHANGED <<calls, container, origin, mismatch>>

\* Fault: what a call raises ends the command.
CollectRaises ==
  /\ laptop.state = "waiting" /\ laptop.kind = "attempts" /\ Awaited <= laptop.last
  /\ calls[Awaited].state \in {"returned", "lost"}
  /\ laptop' = IF calls[Awaited].state = "lost" THEN [laptop EXCEPT !.state = "done", !.code = 1]
               ELSE [laptop EXCEPT !.rows = Append(@, calls[Awaited].result)]
  /\ UNCHANGED <<calls, container, origin, mismatch>>

\* collect_attempt, in the order of the launch.
Collect ==
  /\ laptop.state = "waiting" /\ laptop.kind = "attempts" /\ Awaited <= laptop.last
  /\ calls[Awaited].state \in {"returned", "lost"}
  /\ laptop' = [laptop EXCEPT !.rows =
                  Append(@, IF calls[Awaited].state = "lost" THEN FailedAttempt ELSE calls[Awaited].result)]
  /\ UNCHANGED <<calls, container, origin, mismatch>>

\* attempts_table, attempts_exit_code.
PrintTable ==
  /\ laptop.state = "waiting" /\ laptop.kind = "attempts" /\ Awaited > laptop.last
  /\ laptop' = [laptop EXCEPT !.state = "done",
                  !.code = IF \E i \in DOMAIN laptop.rows : laptop.rows[i].code = 0 THEN 0 ELSE 1]
  /\ UNCHANGED <<calls, container, origin, mismatch>>

-----------------------------------------------------------------------------
Commanded ==
  \E q \in Requests : RunCommand(q) \/ Trigger(q) \/ \E n \in 1 .. MaxAttempts : AttemptsCommand(n, q)

\* What the container does by itself, the network and the model aside.
Prompt(k) == Guard(k) \/ ResetLog(k) \/ NoCloneNeeded(k) \/ ChildStart(k) \/ LogPush(k) \/ ReadBack(k)

Slow(k) == CredentialFails(k) \/ CloneForNoneMode(k) \/ PrepareWorkspace(k) \/ Work(k) \/ Push(k)

Schedule == \E k \in Containers, n \in 1 .. MaxCalls : Start(k, n)

RemoteNext ==
  \/ Commanded \/ Schedule
  \/ \E k \in Containers : Retire(k) \/ Prompt(k) \/ Slow(k) \/ TimerKill(k) \/ Ceiling(k) \/ Die(k)
  \/ FinishRun \/ Collect \/ PrintTable

Fairness ==
  /\ WF_remoteVars(Schedule)
  /\ \A k \in Containers : WF_remoteVars(Prompt(k)) /\ WF_remoteVars(TimerKill(k)) /\ WF_remoteVars(Ceiling(k))
  /\ WF_remoteVars(FinishRun) /\ WF_remoteVars(Collect) /\ WF_remoteVars(PrintTable)

RemoteSpec == RemoteInit /\ [][RemoteNext]_remoteVars /\ Fairness

-----------------------------------------------------------------------------
Steps == {"idle", "guard", "reset", "setup", "child", "prepare", "work", "ship", "pushed", "unpushed", "read"}

\* Every variable has its type.
TypeOK ==
  /\ Len(calls) <= MaxCalls /\ mismatch \in BOOLEAN
  /\ \A n \in DOMAIN calls : calls[n].of \in Requests /\ calls[n].state \in {"queued", "running", "returned", "lost"}
  /\ \A k \in Containers : container[k].step \in Steps /\ container[k].call \in 0 .. Len(calls)
  /\ laptop.state \in {"waiting", "done"}

\* A payload that counts as shipped is of a call whose branch, with its own work
\* or not, is on an origin: a push that failed, a clone that died with its
\* container or a kill in between never reads as shipped (attempt_status).
ShippedIsOnOrigin ==
  \A n \in DOMAIN calls :
    calls[n].state = "returned" /\ ~calls[n].kept /\ Shipped(calls[n].result)
      => \E b \in origin : b.branch = n

\* A warm container hands nothing of an earlier call on to the next: the ids of a
\* payload are those of its own call, unless the left-over log could not be removed
\* (reset_child_log: "the ids must belong to THIS attempt"), and a child in mode
\* none works in a clone of its own repository in which nobody has worked before
\* (clone_for_none_mode).
NothingLeftOver ==
  /\ \A n \in DOMAIN calls :
       calls[n].state = "returned" /\ ~calls[n].kept
         => {calls[n].result.session, calls[n].result.branch} \subseteq {0, n}
  /\ \A k \in Containers :
       InChild(k) /\ Cloned(k) => container[k].scratch.repo = Of(k).repo /\ container[k].scratch.work \subseteq {container[k].call}

\* A payload says what became of its own call and of no other, be the push lost, the
\* container warm or the child killed.
PayloadIsTrue == ShippedIsOnOrigin /\ NothingLeftOver

\* A fan-out ends in a table with a row for every attempt, whatever became of
\* them: a child that hangs, a container that dies (collect_attempt).
TableIsWhole ==
  laptop.state = "waiting" /\ laptop.kind = "attempts"
    ~> laptop.state = "done" /\ Len(laptop.rows) = laptop.last - laptop.first + 1

\* "Each call gets its own gVisor container, its own Workspace": remote/cli.py:120.
OwnWorkspace ==
  \A k \in Containers :
    InChild(k) /\ container[k].step # "child" /\ Of(k).mode = "modal" /\ Of(k).repo # NoRepo
      => container[k].ws.work \subseteq {container[k].call}

\* "The Function's own ceiling sits above it so the child is killed first":
\* remote/headless.py:153.
CeilingIsAbove == [][\A k \in Containers : Ceiling(k) => ~InChild(k)]_remoteVars
=============================================================================
