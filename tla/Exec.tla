-------------------------------- MODULE Exec --------------------------------
(***************************************************************************)
(* One bash command: the host executor with its process group and its two  *)
(* deadlines (tools/exec.py), the docker backend with its keeper container *)
(* (sandbox/docker_backend.py), and the gated tool in front of them        *)
(* (tools/bash.py).                                                        *)
(*                                                                         *)
(* Commands run one at a time.  A command is a group of host processes: the *)
(* lead, which is the shell or the docker exec client, and what it forked. *)
(* A process may hold the output pipe, ignore SIGTERM, and have left the   *)
(* group for a session of its own.  Reading the output ends when the event *)
(* loop has collected the exit of the lead and nobody holds the pipe.      *)
(* Under docker the command itself runs inside the keeper container.       *)
(***************************************************************************)
EXTENDS Naturals, FiniteSets

CONSTANTS MaxCalls,   \* bound: commands of a session
          MaxGroup,   \* bound: processes of a command on the host
          MaxWritten  \* bound: pieces of output of a command

ASSUME ExecAssumption == {MaxCalls, MaxGroup, MaxWritten} \subseteq Nat

Proc == [lead : BOOLEAN, holds : BOOLEAN, ignores : BOOLEAN, apart : BOOLEAN]

Lead(ignores) == [lead |-> TRUE, holds |-> TRUE, ignores |-> ignores, apart |-> FALSE]

VARIABLES
  mode,     \* SANDBOX_MODE: "none" or "docker"
  session,  \* "open", "closed" by close_executor, or "crashed"
  calls,    \* number of the current or last command
  pc,       \* where bash is in it
  group,    \* live host processes of the command
  doomed,   \* those of them a SIGTERM has reached and will end
  reaped,   \* process.returncode is set
  written,  \* pieces of output in the pipe
  cid,      \* DockerBackend._container_id is set
  keeper,   \* the keeper container: "none", "up" or "gone"
  inside,   \* what runs in it: numbers of commands, 0 for the git install
  reply     \* the last ExecResult

command == <<group, doomed, reaped, written>>
backend == <<cid, keeper, inside>>
vars == <<mode, session, calls, pc, command, backend, reply>>

NoReply == [late |-> FALSE, out |-> 0, ran |-> FALSE]

Init ==
  /\ mode \in {"none", "docker"} /\ session = "open" /\ calls = 0 /\ pc = "idle"
  /\ group = {} /\ doomed = {} /\ reaped = TRUE /\ written = 0
  /\ cid = FALSE /\ keeper = "none" /\ inside = {}
  /\ reply = NoReply

----------------------------------------------------------------------------
(* The processes, which nothing in decode schedules. *)

Held == \E p \in group : p.holds

\* The lead has ended: a client ends with its command, or without the container.
LeadMayEnd == mode = "docker" => calls \notin inside

Ends(p) ==
  /\ p \in group /\ (p.lead => LeadMayEnd)
  /\ group' = group \ {p} /\ doomed' = doomed \ {p}
  /\ UNCHANGED <<mode, session, calls, pc, reaped, written, backend, reply>>

\* A process that a SIGTERM reached ends, in its own time.
Dies(p) ==
  /\ p \in doomed
  /\ group' = group \ {p} /\ doomed' = doomed \ {p}
  /\ UNCHANGED <<mode, session, calls, pc, reaped, written, backend, reply>>

\* On the host a command forks: "&", a pipeline, setsid, redirected or not.
Fork(p) ==
  /\ mode = "none" /\ pc \in {"waiting", "grace"} /\ group # {}
  /\ ~p.lead /\ p \notin group /\ Cardinality(group) < MaxGroup
  /\ p.holds => Held
  /\ group' = group \cup {p}
  /\ UNCHANGED <<mode, session, calls, pc, doomed, reaped, written, backend, reply>>

Writes ==
  /\ Held /\ written < MaxWritten
  /\ written' = written + 1
  /\ UNCHANGED <<mode, session, calls, pc, group, doomed, reaped, backend, reply>>

\* What runs in the container ends there; the container itself is lost.
InsideEnds(c) ==
  /\ c \in inside
  /\ inside' = inside \ {c}
  /\ UNCHANGED <<mode, session, calls, pc, command, cid, keeper, reply>>

KeeperDies ==
  /\ keeper = "up"
  /\ keeper' = "gone" /\ inside' = {}
  /\ UNCHANGED <<mode, session, calls, pc, command, cid, reply>>

----------------------------------------------------------------------------
(* The command. *)

(* bash, approved and with a usable time-out: under docker the container   *)
(* comes first.                                                            *)
Begin ==
  /\ session = "open" /\ pc = "idle" /\ calls < MaxCalls
  /\ calls' = calls + 1 /\ reply' = NoReply /\ written' = 0
  /\ pc' = IF mode = "none" \/ cid THEN "ready" ELSE "creating"
  /\ group' = {} /\ doomed' = {} /\ reaped' = TRUE
  /\ UNCHANGED <<mode, session, backend>>

(* create: docker run gives the container, whose git is installed next...  *)
KeeperUp ==
  /\ pc = "creating" /\ pc' = "installing"
  /\ cid' = TRUE /\ keeper' = "up" /\ inside' = {0}
  /\ UNCHANGED <<mode, session, calls, command, reply>>

(* ... or refuses it, which the reply renders.                             *)
KeeperFails ==
  /\ pc = "creating" /\ pc' = "idle"
  /\ UNCHANGED <<mode, session, calls, command, backend, reply>>

(* _install_git ends, or is given up at its bound with the install still   *)
(* at work inside; a failed install is no failure of the command.          *)
Installed ==
  /\ pc = "installing" /\ pc' = "ready"
  /\ UNCHANGED <<mode, session, calls, command, backend, reply>>

(* The shell, or docker exec on the container the backend remembers.       *)
Spawn ==
  /\ pc = "ready" /\ pc' = "waiting"
  /\ \E ignores \in BOOLEAN : group' = {Lead(ignores)}
  /\ reaped' = FALSE
  /\ inside' = IF keeper = "up" THEN inside \cup {calls} ELSE inside
  /\ UNCHANGED <<mode, session, calls, doomed, written, cid, keeper, reply>>

(* The docker client cannot be spawned: exit 125, rendered.                *)
SpawnFails ==
  /\ mode = "docker" /\ pc = "ready" /\ pc' = "idle"
  /\ UNCHANGED <<mode, session, calls, command, backend, reply>>

\* The child watcher collects the exit of the lead.
Reap ==
  /\ ~reaped /\ \A p \in group : ~p.lead
  /\ reaped' = TRUE
  /\ UNCHANGED <<mode, session, calls, pc, group, doomed, written, backend, reply>>

\* Fault: once the group was killed, the output is read no further.
CommDoneAfterKill == reaped /\ (~Held \/ pc = "drain")

\* communicate() is done: the exit of the lead, and the end of the pipe.
CommDone == reaped /\ ~Held

\* The processes os.killpg reaches.
InGroup == {p \in group : ~p.apart}

(* _signal_group: nothing is sent once the exit of the lead is known.      *)
Signal(reached) ==
  \/ reaped /\ UNCHANGED <<group, doomed>>
  \/ ~reaped /\ reached

(* The time-out: SIGTERM.                                                  *)
Deadline ==
  /\ pc = "waiting" /\ ~CommDone /\ pc' = "grace"
  /\ Signal(/\ doomed' = doomed \cup {p \in InGroup : ~p.ignores}
            /\ UNCHANGED group)
  /\ UNCHANGED <<mode, session, calls, reaped, written, backend, reply>>

\* Fault: SIGTERM a second time.
GraceOverPolitely ==
  /\ pc = "grace" /\ ~CommDone /\ pc' = "drain"
  /\ Signal(/\ doomed' = doomed \cup {p \in InGroup : ~p.ignores}
            /\ UNCHANGED group)
  /\ UNCHANGED <<mode, session, calls, reaped, written, backend, reply>>

(* The grace is over: SIGKILL, then the output is read to its end.         *)
GraceOver ==
  /\ pc = "grace" /\ ~CommDone /\ pc' = "drain"
  /\ Signal(group' = group \ InGroup /\ doomed' = doomed \ InGroup)
  /\ UNCHANGED <<mode, session, calls, reaped, written, backend, reply>>

(* The result; what of the command is still alive stays behind.            *)
Return ==
  /\ pc \in {"waiting", "grace", "drain"} /\ CommDone /\ pc' = "idle"
  /\ reply' = [late |-> pc # "waiting", out |-> written, ran |-> TRUE]
  /\ UNCHANGED <<mode, session, calls, command, backend>>

----------------------------------------------------------------------------
(* The session. *)

(* close_executor: the container is forgotten, then removed if docker does. *)
Close ==
  /\ session = "open" /\ pc = "idle" /\ session' = "closed"
  /\ cid' = FALSE
  /\ \/ cid /\ keeper' = "gone" /\ inside' = {}
     \/ UNCHANGED <<keeper, inside>>
  /\ UNCHANGED <<mode, calls, pc, command, reply>>

(* The process of decode ends where it is; containers and groups do not.   *)
Crash ==
  /\ session = "open" /\ session' = "crashed" /\ pc' = "dead"
  /\ cid' = FALSE
  /\ UNCHANGED <<mode, calls, command, keeper, inside, reply>>

Outside ==
  \/ Writes \/ KeeperDies
  \/ \E p \in group : Ends(p)
  \/ \E p \in Proc : Fork(p)
  \/ \E c \in inside : InsideEnds(c)

Answered == KeeperUp \/ KeeperFails \/ Installed \/ Spawn \/ SpawnFails

Next ==
  \/ Begin \/ Answered \/ Reap \/ Deadline \/ GraceOver \/ Return
  \/ Close \/ Crash \/ Outside \/ \E p \in doomed : Dies(p)

(* The docker client answers, the event loop and both timers run, and a    *)
(* signalled process ends; no command owes anybody its end.                *)
Fairness ==
  /\ WF_vars(Answered) /\ WF_vars(Reap) /\ WF_vars(Return)
  /\ WF_vars(Deadline) /\ WF_vars(GraceOver)
  /\ WF_vars(\E p \in doomed : Dies(p))

Spec == Init /\ [][Next]_vars /\ Fairness

----------------------------------------------------------------------------
(* Every variable has its type; only a live process is doomed.             *)
TypeOK ==
  /\ mode \in {"none", "docker"} /\ session \in {"open", "closed", "crashed"}
  /\ calls \in 0..MaxCalls /\ written \in 0..MaxWritten
  /\ pc \in {"idle", "creating", "installing", "ready", "waiting", "grace", "drain", "dead"}
  /\ group \subseteq Proc /\ doomed \subseteq group /\ reaped \in BOOLEAN
  /\ cid \in BOOLEAN /\ keeper \in {"none", "up", "gone"} /\ inside \subseteq 0..calls
  /\ reply \in [late : BOOLEAN, out : 0..MaxWritten, ran : BOOLEAN]

(* The reply holds everything that is ever written to the pipe of the      *)
(* command, in time or late: nobody is left behind who could write more.   *)
ReplyIsWhole == reply.ran => reply.out = written

\* A process no signal of _terminate will reach keeps the pipe open.
Orphaned == \E p \in group : p.holds /\ (p.apart \/ reaped)

(* A command ends by its deadlines at the latest, unless it leaves a       *)
(* process to hold its pipe that outlives the lead or left its group.      *)
CallEndsUnlessOrphaned == (pc = "waiting") ~> (pc \in {"idle", "dead"} \/ Orphaned)

(* "a runaway bash is bounded by bash_timeout_s":                          *)
(* docs/adr/0002-milestone-1-vanilla-agent-architecture.md:104.            *)
CallEnds == (pc = "waiting") ~> pc \in {"idle", "dead"}

(* "Timeout = no leaked processes": tools/exec.py:8.                       *)
NoLeakedProcess == reply.late => group = {}

(* "If a command times out, only that command is killed": tools/bash.py:60. *)
TimeoutKillsCommand == reply.late => calls \notin inside

(* "--rm (docker) / the modal timeout remain the crash backstops":         *)
(* tools/bash.py:136.                                                      *)
CrashReapsKeeper == (session = "crashed") ~> keeper # "up"
=============================================================================
