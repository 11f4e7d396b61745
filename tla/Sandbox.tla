------------------------------ MODULE Sandbox ------------------------------
(***************************************************************************)
(* The sandbox of one decode session: the executor every tool call goes    *)
(* through (sandbox/executor.py), its modal backend with bootstrap,        *)
(* liveness probe and revival (sandbox/modal_backend.py), and the seam     *)
(* that warms, exports and closes it (tools/bash.py, tools/files.py).      *)
(*                                                                         *)
(* A caller is one tool call in flight.  The methods hold no lock: a call  *)
(* runs from one await on the remote service to the next as one action,    *)
(* and calls of one model response interleave at those awaits.  Remote     *)
(* sandboxes are numbered in the order they are made and may reach the end *)
(* of their lifetime at any moment.  Contents are sets of writes.          *)
(***************************************************************************)
EXTENDS Naturals, Sequences, FiniteSets

CONSTANTS Caller,     \* tool calls that may be in flight together
          MaxBoxes,   \* bound: remote sandboxes the service grants
          MaxWrites   \* bound: files written

ASSUME BoundsAssumption == MaxBoxes \in Nat /\ MaxWrites \in Nat

\* The calls a tool makes: the warm-up at launch; exec, as bash and as the
\* search of glob and grep; and a file operation.
Op == {"warm", "bash", "search", "write"}

Execs == {"bash", "search"}

VARIABLES
  created,    \* SandboxExecutor._created
  handle,     \* ModalBackend._sandbox; 0 is None
  recreated,  \* ModalBackend._recreated
  call,       \* what each caller does, and the remote sandbox it works on
  boxes,      \* the remote sandboxes: status and contents of /workspace
  host,       \* contents of the host Workspace
  closed,     \* close_executor has run
  \* history variables
  asked,      \* sandboxes the service was asked to terminate while they were up
  outcome,    \* how the last call of each caller ended
  acked,      \* writes the tool layer reported as done
  told,       \* writes a result's restore note declared possibly lost
  muted,      \* writes whose restore note a search result left out
  swept,      \* the export of close_executor worked
  overlapped  \* two tool calls have been in flight together

session == <<created, handle, recreated>>
history == <<acked, told, muted, swept, overlapped>>
vars == <<session, call, boxes, host, closed, asked, outcome, history>>

Idle == [op |-> "none", pc |-> "idle", box |-> 0, retried |-> FALSE]

Init ==
  /\ created = FALSE /\ handle = 0 /\ recreated = FALSE
  /\ call = [c \in Caller |-> Idle]
  /\ boxes = <<>> /\ host = {} /\ closed = FALSE /\ asked = {}
  /\ outcome = [c \in Caller |-> "none"]
  /\ acked = {} /\ told = {} /\ muted = {} /\ swept = FALSE
  /\ overlapped = FALSE

Up(b) == b # 0 /\ boxes[b].status = "up"

AllIdle == \A c \in Caller : call[c].pc = "idle"

----------------------------------------------------------------------------
(* Where a call goes next, within the stretch of code that gets there. *)

End(c, result) ==
  /\ call' = [call EXCEPT ![c] = Idle]
  /\ outcome' = [outcome EXCEPT ![c] = result]

Goto(c, op, pc, box) ==
  /\ call' = [call EXCEPT ![c] = [op |-> op, pc |-> pc, box |-> box,
                                  retried |-> call[c].retried]]
  /\ UNCHANGED outcome

(* The executor has a created backend: an exec begins with its liveness    *)
(* probe, a file operation with its first attempt; the warm-up is done.    *)
Enter(c, op, box) ==
  CASE op = "warm"                -> End(c, "ok")
    [] op \in Execs /\ box # 0    -> Goto(c, op, "probing", box)
    [] op \in Execs /\ box = 0    -> Goto(c, op, "reviving", 0)
    [] op = "write" /\ box # 0    -> Goto(c, op, "running", box)
    [] op = "write" /\ box = 0    -> End(c, "noSandbox")

\* Fault: the revival leaves no trace for the next result to tell.
ReviveSilently(c, retried) ==
  /\ handle' = 0 /\ UNCHANGED recreated
  /\ call' = [call EXCEPT ![c].pc = "reviving", ![c].box = 0, ![c].retried = retried]
  /\ UNCHANGED outcome

(* The remote sandbox is gone: drop the handle, remember to tell, respawn. *)
Revive(c, retried) ==
  /\ handle' = 0 /\ recreated' = TRUE
  /\ call' = [call EXCEPT ![c].pc = "reviving", ![c].box = 0, ![c].retried = retried]
  /\ UNCHANGED outcome

----------------------------------------------------------------------------
(* run, start or file_backend: _ensure_created up to its first await.      *)
(* Nothing marks the creation as under way.  The warm-up comes before the  *)
(* first turn.                                                             *)
Begin(c, op) ==
  /\ call[c].pc = "idle" /\ ~closed
  /\ \A d \in Caller : /\ op = "warm" => call[d] = Idle /\ outcome[d] = "none"
                       /\ call[d].op # "warm"
  /\ IF created \/ handle # 0
     THEN created' = TRUE /\ Enter(c, op, handle)
     ELSE Goto(c, op, "creating", 0) /\ UNCHANGED created
  /\ overlapped' = (overlapped \/ ~AllIdle)
  /\ UNCHANGED <<handle, recreated, boxes, host, closed, asked, acked, told, muted, swept>>

Building(c) == call[c].pc \in {"creating", "reviving"}

(* _spawn_and_bootstrap: the service grants a sandbox... *)
MakeBox(c) ==
  /\ Building(c) /\ call[c].box = 0 /\ Len(boxes) < MaxBoxes
  /\ boxes' = Append(boxes, [status |-> "up", files |-> {}])
  /\ call' = [call EXCEPT ![c].box = Len(boxes')]
  /\ UNCHANGED <<session, host, closed, asked, outcome, history>>

(* ... it receives the host Workspace and becomes the session's sandbox; a *)
(* first creation goes on like Begin, a revival runs what it was made for. *)
Bootstrapped(c) ==
  LET b == call[c].box IN
  /\ Building(c) /\ Up(b)
  /\ boxes' = [boxes EXCEPT ![b].files = host]
  /\ handle' = b
  /\ \/ /\ call[c].pc = "creating" /\ created' = TRUE
        /\ Enter(c, call[c].op, b)
     \/ /\ call[c].pc = "reviving" /\ UNCHANGED created
        /\ Goto(c, call[c].op, "running", b)
  /\ UNCHANGED <<recreated, host, closed, asked, history>>

\* Fault: the sandbox whose bootstrap failed is not terminated.
SpawnFailsLeaks(c) ==
  /\ Building(c) /\ End(c, "failed")
  /\ UNCHANGED <<session, boxes, host, closed, asked, history>>

(* terminate: the request may fail, which is suppressed, and then the       *)
(* sandbox stays up until its lifetime ends.                               *)
Terminate(b) ==
  /\ asked' = IF Up(b) THEN asked \cup {b} ELSE asked
  /\ \/ UNCHANGED boxes
     \/ Up(b) /\ boxes' = [boxes EXCEPT ![b].status = "terminated"]

(* The service or the bootstrap fails: a half-built sandbox is asked to     *)
(* terminate and the failure rendered.                                     *)
SpawnFails(c) ==
  /\ Building(c) /\ (call[c].box = 0 \/ Up(call[c].box))
  /\ Terminate(call[c].box)
  /\ End(c, IF call[c].pc = "creating" THEN "failed" ELSE "lost")
  /\ UNCHANGED <<session, host, closed, history>>

(* The sandbox ends while it is bootstrapped: NotFoundError, which a first *)
(* creation lets through to all but the warm-up, a first exec revives from *)
(* and a retry renders.                                                    *)
BootGone(c) ==
  /\ Building(c) /\ call[c].box # 0 /\ ~Up(call[c].box)
  /\ \/ /\ call[c].pc = "creating"
        /\ End(c, IF call[c].op = "warm" THEN "failed" ELSE "raised")
        /\ UNCHANGED <<handle, recreated>>
     \/ /\ call[c].pc = "reviving" /\ ~call[c].retried
        /\ Revive(c, TRUE)
     \/ /\ call[c].pc = "reviving" /\ call[c].retried
        /\ End(c, "lost") /\ UNCHANGED <<handle, recreated>>
  /\ UNCHANGED <<created, boxes, host, closed, asked, history>>

(* poll() answered for the sandbox that was probed; what runs next is      *)
(* whatever the handle holds now, None included.                           *)
Probed(c) ==
  /\ call[c].pc = "probing"
  /\ \/ ~Up(call[c].box) /\ Revive(c, FALSE)
     \/ /\ Up(call[c].box) /\ handle # 0
        /\ Goto(c, call[c].op, "running", handle) /\ UNCHANGED <<handle, recreated>>
     \/ /\ Up(call[c].box) /\ handle = 0
        /\ End(c, "raised") /\ UNCHANGED <<handle, recreated>>
  /\ UNCHANGED <<created, boxes, host, closed, asked, history>>

Running(c) == call[c].pc = "running"

Fresh == IF Cardinality(acked) < MaxWrites THEN {Cardinality(acked) + 1} ELSE {}

(* A file operation or a command changed the Workspace and says so. *)
Write(b) ==
  /\ acked' = acked \cup Fresh
  /\ boxes' = [boxes EXCEPT ![b].files = @ \cup Fresh]

(* The process ran and its result takes the one-shot restore note along:   *)
(* bash shows it, glob and grep read only the output.                      *)
ExecDone(c) ==
  LET b    == call[c].box
      lost == IF recreated THEN acked \ boxes[b].files ELSE {} IN
  /\ Running(c) /\ call[c].op \in Execs /\ Up(b)
  /\ recreated' = FALSE
  /\ \/ call[c].op = "bash" /\ Write(b) /\ told' = told \cup lost /\ UNCHANGED muted
     \/ /\ call[c].op = "search" /\ muted' = muted \cup lost
        /\ UNCHANGED <<acked, boxes, told>>
  /\ End(c, "ok")
  /\ UNCHANGED <<created, handle, host, closed, asked, swept, overlapped>>

(* A file operation has no note to carry. *)
WriteDone(c) ==
  /\ Running(c) /\ call[c].op = "write" /\ Up(call[c].box)
  /\ Write(call[c].box)
  /\ End(c, "ok")
  /\ UNCHANGED <<session, host, closed, asked, told, muted, swept, overlapped>>

\* Fault: the retry goes to the sandbox that is gone, again and again.
GoneRetriesInPlace(c) ==
  /\ Running(c) /\ ~Up(call[c].box)
  /\ call' = [call EXCEPT ![c].retried = TRUE]
  /\ UNCHANGED <<session, boxes, host, closed, asked, outcome, history>>

(* The sandbox ended under the running operation: revive and retry once. *)
Gone(c) ==
  /\ Running(c) /\ ~Up(call[c].box)
  /\ \/ ~call[c].retried /\ Revive(c, TRUE)
     \/ call[c].retried /\ End(c, "lost") /\ UNCHANGED <<handle, recreated>>
  /\ UNCHANGED <<created, boxes, host, closed, asked, history>>

(* The service does not answer, though the sandbox lives: rendered. *)
Unreachable(c) ==
  /\ call[c].pc \in {"probing", "running"}
  /\ End(c, "lost")
  /\ UNCHANGED <<session, boxes, host, closed, asked, history>>

----------------------------------------------------------------------------
(* The session around the calls. *)

(* A remote sandbox reaches the end of its lifetime. *)
Expire(b) ==
  /\ boxes[b].status = "up"
  /\ boxes' = [boxes EXCEPT ![b].status = "gone"]
  /\ UNCHANGED <<session, call, host, closed, asked, outcome, history>>

(* The export sweep: best-effort, the tree replaces what the host has. *)
Export(works) ==
  host' = IF works /\ Up(handle) THEN host \cup boxes[handle].files ELSE host

(* /ship: idle only; the session goes on. *)
Ship(works) ==
  /\ AllIdle /\ ~closed /\ Up(handle)
  /\ Export(works)
  /\ UNCHANGED <<session, call, boxes, closed, asked, outcome, history>>

(* close_executor: sweep, then terminate whatever came of the sweep; the    *)
(* handle is dropped whatever comes of that.                               *)
Close(works) ==
  /\ AllIdle /\ ~closed /\ closed' = TRUE
  /\ Export(works)
  /\ Terminate(handle)
  /\ created' = FALSE /\ handle' = 0 /\ recreated' = FALSE /\ swept' = works
  /\ UNCHANGED <<call, outcome, acked, told, muted, overlapped>>

Step(c) ==
  \/ MakeBox(c) \/ Bootstrapped(c) \/ SpawnFails(c) \/ BootGone(c) \/ Probed(c)
  \/ ExecDone(c) \/ WriteDone(c) \/ Gone(c)

Next ==
  \/ \E c \in Caller : Step(c) \/ Unreachable(c) \/ \E op \in Op : Begin(c, op)
  \/ \E b \in DOMAIN boxes : Expire(b)
  \/ \E works \in BOOLEAN : Ship(works) \/ Close(works)

(* A call under way is scheduled and the service grants, refuses or ends   *)
(* what it is asked for; nothing obliges it to be unreachable, nor anybody *)
(* to begin a call, to ship or to close.                                   *)
Fairness == \A c \in Caller : WF_vars(Step(c))

Spec == Init /\ [][Next]_vars /\ Fairness

----------------------------------------------------------------------------
(* Every variable has its type, and the session's sandbox is one the       *)
(* service made; a running operation has a sandbox to run on.              *)
TypeOK ==
  /\ created \in BOOLEAN /\ recreated \in BOOLEAN /\ closed \in BOOLEAN
  /\ swept \in BOOLEAN /\ overlapped \in BOOLEAN
  /\ boxes \in Seq([status : {"up", "gone", "terminated"}, files : SUBSET (1..MaxWrites)])
  /\ Len(boxes) <= MaxBoxes
  /\ handle \in 0..Len(boxes)
  /\ call \in [Caller -> [op : Op \cup {"none"}, box : 0..Len(boxes), retried : BOOLEAN,
                          pc : {"idle", "creating", "probing", "reviving", "running"}]]
  /\ \A c \in Caller : Running(c) => call[c].box # 0
  /\ outcome \in [Caller -> {"none", "ok", "failed", "lost", "raised", "noSandbox"}]
  /\ asked \subseteq DOMAIN boxes /\ host \cup acked \cup told \cup muted \subseteq 1..MaxWrites

(* While no two calls have overlapped (OneSandbox says what then happens):  *)
(* no remote sandbox is forgotten.  Each one up is the session's, or some  *)
(* call is still building it, or the service was asked to terminate it and *)
(* did not, when only its lifetime is left.                                *)
NoLeak ==
  ~overlapped => \A b \in DOMAIN boxes : Up(b) =>
    \/ b = handle
    \/ \E c \in Caller : Building(c) /\ call[c].box = b
    \/ b \in asked

(* While no two calls have overlapped: a write the tool layer reported as  *)
(* done and that the session's sandbox does not hold has been declared     *)
(* possibly lost, is still to be, or was in a note that a search swallowed. *)
LossIsAccounted ==
  ~overlapped /\ handle # 0 /\ ~recreated
    => acked \ boxes[handle].files \subseteq told \cup muted

\* A sandbox reached its lifetime before anybody asked for its end.
EndedEarly == \E b \in DOMAIN boxes : boxes[b].status = "gone" /\ b \notin asked

(* When no two calls overlapped, no sandbox ended early and the last sweep *)
(* worked, everything the tool layer reported as written is on the host    *)
(* after the session.                                                      *)
CloseKeepsWrites == ~overlapped /\ closed /\ swept /\ ~EndedEarly => acked \subseteq host

(* A write the tool layer reported is never lost without a word, neither   *)
(* when a sandbox expires nor when the session closes.                     *)
WritesAreAccounted == LossIsAccounted /\ CloseKeepsWrites

(* A call ends, however often its sandbox goes away. *)
CallEnds == \A c \in Caller : (call[c].pc # "idle") ~> (call[c].pc = "idle")

(* "The model still learns the Workspace was restored": a reported write   *)
(* that the session's sandbox does not hold was declared possibly lost, or *)
(* is still to be.  tests/unit/decode/sandbox/test_modal_backend.py:981.   *)
LossIsTold ==
  handle # 0 /\ ~recreated => acked \ boxes[handle].files \subseteq told

(* "no leaked half-built sandbox": sandbox/modal_backend.py:415.            *)
NoneLeftUp == \A b \in asked : ~Up(b)

(* "One sandbox per session", tools/bash.py:54: beside the session's no     *)
(* other bootstrapped one is up.                                           *)
OneSandbox ==
  \A b \in DOMAIN boxes : Up(b) /\ (\A c \in Caller : Building(c) => call[c].box # b)
    => b = handle

(* "A backend create failure is rendered as exit-125 (never a crash)", and *)
(* no call of a tool raises: sandbox/executor.py:133.                      *)
NeverCrashes == \A c \in Caller : outcome[c] # "raised"

(* A dead sandbox is revived by a file operation:                          *)
(* sandbox/modal_backend.py:239.                                           *)
FileOpsRevive == \A c \in Caller : outcome[c] # "noSandbox"
============================================================================
