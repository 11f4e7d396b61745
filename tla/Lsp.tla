--------------------------------- MODULE Lsp ---------------------------------
(* The Language Server of one project root (services/lsp): the service's    *)
(* cache of the client, its lazy spawn, and the client's JSON-RPC           *)
(* conversation with the process.                                           *)
(*                                                                          *)
(* A caller is the lsp tool or the diagnostics of a write or an edit.  Its  *)
(* op runs on the event loop and yields at every await, so two calls of one *)
(* model response interleave here.  One file stands for all; its contents   *)
(* are numbered by the edits made to it.  The bytes of a response are its   *)
(* frame: a header, which tells how much to read, and a body.  A write goes *)
(* into the client's buffer at once and waits for the buffer to drain,      *)
(* without a bound: a server that reads no more holds it there.             *)
EXTENDS Integers, FiniteSets, Sequences, SequencesExt

CONSTANTS
    Callers,    \* what may run at the same time
    Servers,    \* the processes the spawn seam can start (a bound)
    MaxCalls,   \* bound: ops in a session
    MaxEdits    \* bound: edits of the file

None == "none"
Broken == "broken"

ASSUME LspAssumption == {None, Broken} \cap Servers = {} /\ {MaxCalls, MaxEdits} \subseteq Nat

VARIABLES
    cache,      \* the entry of the root in _CLIENTS: None, Broken or a server
    proc,       \* each process: "unborn", "up", "exiting" (its pipes are closed), "dead"
    nextId,     \* each client's request counter
    pending,    \* the requests a server has received and not answered
    arrived,    \* the frames in the client's stream reader, oldest first
    misread,    \* whether the reader's position is inside a frame for good
    opened,     \* the contents of the file as each server last heard, -1 before didOpen
    disk,       \* the contents of the file
    caller,     \* what each caller is at
    full,       \* whether what was written to a server has not drained: it does not read
    calls,      \* ops begun
    overlapped, \* history: two ops have been under way together
    exit        \* shutdown_all: not yet ("open"), "closing", "closed"

count == <<calls, overlapped>>
vars == <<cache, proc, nextId, pending, arrived, misread, opened, disk, caller, full, count, exit>>
wire == <<nextId, pending, arrived, misread, opened>>

\* A frame answers the request id, from what the server held then.
Frame(id, text) == [id |-> id, text |-> text]
NoFrame == Frame(0, -1)

Resting == [at |-> "idle", srv |-> None, op |-> "query", id |-> 0, began |-> 0, answer |-> NoFrame]

Init ==
    /\ cache = None /\ disk = 0 /\ calls = 0 /\ overlapped = FALSE /\ exit = "open"
    /\ proc = [s \in Servers |-> "unborn"]
    /\ nextId = [s \in Servers |-> 1]
    /\ pending = [s \in Servers |-> {}]
    /\ arrived = [s \in Servers |-> <<>>]
    /\ misread = [s \in Servers |-> FALSE]
    /\ full = [s \in Servers |-> FALSE]
    /\ opened = [s \in Servers |-> -1]
    /\ caller = [c \in Callers |-> Resting]

\* LspClient.is_alive: the exit status has not been collected yet.
Alive(s) == proc[s] \in {"up", "exiting"}

\* The op ends with UNAVAILABLE, or with the answer in the frame f.
Unavailable(c) == caller' = [caller EXCEPT ![c].at = "unavailable"]
Answered(c, f) == caller' = [caller EXCEPT ![c].at = "answered", ![c].answer = f]

Busy(c) == caller[c].at \notin {"idle", "answered", "unavailable"}

\* _get_client: the cached live client, nothing for a broken root, and a new
\* client otherwise; a dead one is dropped first.
Get(c) ==
    LET go(at, s) == caller' = [caller EXCEPT
            ![c] = [Resting EXCEPT !.at = at, !.srv = s, !.began = disk]]
    IN  /\ ~Busy(c) /\ calls < MaxCalls /\ exit = "open"
        /\ calls' = calls + 1
        /\ overlapped' = (overlapped \/ \E d \in Callers \ {c} : Busy(d))
        /\ \/ cache = Broken /\ go("unavailable", None) /\ UNCHANGED cache
           \/ cache \in Servers /\ Alive(cache) /\ go("sync", cache) /\ UNCHANGED cache
           \/ cache \in Servers /\ ~Alive(cache) /\ go("spawn", None) /\ cache' = None
           \/ cache = None /\ go("spawn", None) /\ UNCHANGED cache
        /\ UNCHANGED <<proc, wire, disk, full, exit>>

\* _write: the bytes may be more than the pipe and the buffer take before the server
\* reads.  It may be busy, or wait for room in its stderr, a pipe that nobody reads.  The
\* few hundred bytes of a handshake always fit.
Write(s) == \E much \in BOOLEAN : full' = [full EXCEPT ![s] = @ \/ (much /\ proc[s] = "up")]

\* What drain waits for: the server has read, or its end of the pipe is closed.
Drains(s) == ~full[s]

\* LspClient._request: the next id goes out; a dead server's pipe takes the bytes
\* with no one to read them.
Send(s, up) ==
    /\ nextId' = [nextId EXCEPT ![s] = @ + 1]
    /\ pending' = IF up THEN [pending EXCEPT ![s] = @ \union {nextId[s]}] ELSE pending

\* _start_client: spawn a process and send initialize.
Spawn(c) ==
    /\ caller[c].at = "spawn"
    /\ \/ \E s \in Servers :
             /\ proc[s] = "unborn"
             /\ proc' = [proc EXCEPT ![s] = "up"]
             /\ Send(s, TRUE)
             /\ caller' = [caller EXCEPT ![c].at = "header", ![c].srv = s,
                                         ![c].op = "initialize", ![c].id = nextId[s]]
             /\ UNCHANGED cache
       \/ cache' = Broken /\ Unavailable(c) /\ UNCHANGED <<proc, nextId, pending>>
    /\ UNCHANGED <<arrived, misread, opened, disk, full, count, exit>>

\* A diagnostic op that opens the file once and never tells of its changes.
SyncOpensOnce(c) ==
    LET s == caller[c].srv IN
    /\ caller[c].at = "sync"
    /\ opened' = [opened EXCEPT ![s] = IF @ = -1 THEN disk ELSE @]
    /\ Write(s)
    /\ caller' = [caller EXCEPT ![c].at = "notified"]
    /\ UNCHANGED <<cache, proc, nextId, pending, arrived, misread, disk, count, exit>>

\* _sync: the file as it is now on disk is written ahead of the query.
Sync(c) ==
    LET s == caller[c].srv IN
    /\ caller[c].at = "sync"
    /\ opened' = [opened EXCEPT ![s] = disk]
    /\ Write(s)
    /\ caller' = [caller EXCEPT ![c].at = "notified"]
    /\ UNCHANGED <<cache, proc, nextId, pending, arrived, misread, disk, count, exit>>

\* _notify's drain, then the query of _request; a pipe that broke may fail the drain.
Request(c) ==
    LET s == caller[c].srv IN
    /\ caller[c].at = "notified" /\ Drains(s)
    /\ \/ /\ Send(s, proc[s] = "up") /\ Write(s)
          /\ caller' = [caller EXCEPT ![c].at = IF full'[s] THEN "requested" ELSE "header",
                                      ![c].op = "query", ![c].id = nextId[s]]
       \/ proc[s] # "up" /\ Unavailable(c) /\ UNCHANGED <<nextId, pending, full>>
    /\ UNCHANGED <<cache, proc, arrived, misread, opened, disk, count, exit>>

\* _request's drain, where it waits; only then does the time limit begin.
Requested(c) ==
    LET s == caller[c].srv IN
    /\ caller[c].at = "requested" /\ Drains(s)
    /\ \/ caller' = [caller EXCEPT ![c].at = "header"]
       \/ proc[s] # "up" /\ Unavailable(c)
    /\ UNCHANGED <<cache, proc, wire, disk, full, count, exit>>

-----------------------------------------------------------------------------
\* What a request that failed means for the op: a query is unavailable; a failed
\* initialize goes on to shut the new process down.
Failed(c) ==
    IF caller[c].op = "initialize" THEN caller' = [caller EXCEPT ![c].at = "reap"]
    ELSE Unavailable(c)

\* _read_header: the next frame's header, unless another reader is inside a frame.
ReadHeader(c) ==
    LET s == caller[c].srv IN
    /\ caller[c].at = "header" /\ ~misread[s]
    /\ \A d \in Callers : ~(caller[d].at = "body" /\ caller[d].srv = s)
    /\ arrived[s] # <<>>
    /\ caller' = [caller EXCEPT ![c].at = "body"]
    /\ UNCHANGED <<cache, proc, wire, disk, full, count, exit>>

\* _read_result's test of a message: the response to this request.
Matches(c, f) == f.id = caller[c].id

\* _read_result: a frame that answers another request is skipped.  The client of
\* an answered initialize enters the cache.
ReadBody(c) ==
    LET s == caller[c].srv
        f == Head(arrived[s])
    IN  /\ caller[c].at = "body" /\ ~misread[s]
        /\ arrived' = [arrived EXCEPT ![s] = Tail(@)]
        /\ IF ~Matches(c, f) THEN caller' = [caller EXCEPT ![c].at = "header"] /\ UNCHANGED cache
           ELSE IF caller[c].op = "initialize"
                THEN caller' = [caller EXCEPT ![c].at = "sync"] /\ cache' = s
                ELSE Answered(c, f) /\ UNCHANGED cache
        /\ UNCHANGED <<proc, nextId, pending, misread, opened, disk, full, count, exit>>

\* Only the queries are bounded in time.
TimeoutQueries(c) ==
    LET s == caller[c].srv IN
    /\ caller[c].at \in {"header", "body"} /\ caller[c].op = "query"
    /\ misread' = [misread EXCEPT ![s] = @ \/ caller[c].at = "body"]
    /\ Failed(c)
    /\ UNCHANGED <<cache, proc, nextId, pending, arrived, opened, disk, full, count, exit>>

\* A frame is in the reader once its header has come; its body may be late.
\* settings.lsp_request_timeout_s: the reader is cancelled where it stands.  A
\* header already read is gone from the stream and its body stays.
Timeout(c) ==
    LET s == caller[c].srv IN
    /\ caller[c].at \in {"header", "body"}
    /\ misread' = [misread EXCEPT ![s] = @ \/ caller[c].at = "body"]
    /\ Failed(c)
    /\ UNCHANGED <<cache, proc, nextId, pending, arrived, opened, disk, full, count, exit>>

\* A reader that stands inside a frame finds no Content-Length ("missing
\* Content-Length header") or no JSON, now and at every frame to come.
ReadMisread(c) ==
    LET s == caller[c].srv IN
    /\ caller[c].at \in {"header", "body"} /\ misread[s] /\ arrived[s] # <<>>
    /\ arrived' = [arrived EXCEPT ![s] = Tail(@)]
    /\ Failed(c)
    /\ UNCHANGED <<cache, proc, nextId, pending, misread, opened, disk, full, count, exit>>

\* Two readers of one stream: asyncio raises RuntimeError when a second one has to
\* wait, and one that need not wait reads the other's body as a header.
Collide(c, d) ==
    LET s == caller[c].srv IN
    /\ c # d /\ caller[d].srv = s
    /\ caller[c].at = "header" /\ caller[d].at \in {"header", "body"}
    /\ \E b \in BOOLEAN :
          /\ b => caller[d].at = "body"
          /\ misread' = [misread EXCEPT ![s] = @ \/ b]
    /\ Failed(c)
    /\ UNCHANGED <<cache, proc, nextId, pending, arrived, opened, disk, full, count, exit>>

\* A closed pipe ends the read.
ReadClosed(c) ==
    LET s == caller[c].srv IN
    /\ caller[c].at \in {"header", "body"} /\ proc[s] # "up" /\ arrived[s] = <<>>
    /\ Failed(c)
    /\ UNCHANGED <<cache, proc, wire, disk, full, count, exit>>

\* A failed handshake leaves its process behind.
ReapMarksOnly(c) ==
    /\ caller[c].at = "reap"
    /\ cache' = Broken
    /\ Unavailable(c)
    /\ UNCHANGED <<proc, wire, disk, full, count, exit>>

\* LspClient.shutdown of a client whose handshake failed, then the broken mark.
Reap(c) ==
    LET s == caller[c].srv IN
    /\ caller[c].at = "reap"
    /\ proc' = [proc EXCEPT ![s] = "dead"]
    /\ cache' = Broken
    /\ Unavailable(c)
    /\ UNCHANGED <<wire, disk, full, count, exit>>

\* run_app's exit, when no op runs: shutdown_all writes the cached client a "shutdown".
BeginExit ==
    /\ exit = "open" /\ \A c \in Callers : ~Busy(c)
    /\ exit' = "closing"
    /\ IF cache \in Servers THEN Write(cache) ELSE UNCHANGED full
    /\ UNCHANGED <<cache, proc, wire, disk, caller, count>>

\* shutdown_all: once that has drained, the process is ended whatever it answers.
ShutdownAll ==
    /\ exit = "closing" /\ (cache \in Servers => Drains(cache))
    /\ exit' = "closed" /\ cache' = None
    /\ proc' = IF cache \in Servers THEN [proc EXCEPT ![cache] = "dead"] ELSE proc
    /\ UNCHANGED <<wire, disk, caller, full, count>>

-----------------------------------------------------------------------------
\* The server answers a request from the contents it last heard of; it may be
\* late, answer out of order, and stop at any moment.
Answer(s) ==
    /\ proc[s] = "up"
    /\ \E id \in pending[s] :
          /\ pending' = [pending EXCEPT ![s] = @ \ {id}]
          /\ arrived' = [arrived EXCEPT ![s] = Append(@, Frame(id, opened[s]))]
    /\ UNCHANGED <<cache, proc, nextId, misread, opened, disk, caller, full, count, exit>>

Crash(s) ==
    /\ \/ proc[s] = "up" /\ proc' = [proc EXCEPT ![s] = "exiting"]
       \/ proc[s] = "exiting" /\ proc' = [proc EXCEPT ![s] = "dead"]
    /\ pending' = [pending EXCEPT ![s] = {}]
    /\ full' = [full EXCEPT ![s] = FALSE]
    /\ UNCHANGED <<cache, nextId, arrived, misread, opened, disk, caller, count, exit>>

\* The server reads on.
Reads(s) ==
    /\ full[s]
    /\ full' = [full EXCEPT ![s] = FALSE]
    /\ UNCHANGED <<cache, proc, wire, disk, caller, count, exit>>

Edit ==
    /\ disk < MaxEdits
    /\ disk' = disk + 1
    /\ UNCHANGED <<cache, proc, wire, caller, full, count, exit>>

\* The steps of an op that wait for a pipe to drain.
Drained(c) == Request(c) \/ Requested(c)

Op(c) == \/ Spawn(c) \/ Sync(c) \/ Drained(c)
         \/ ReadHeader(c) \/ ReadBody(c) \/ ReadMisread(c) \/ ReadClosed(c) \/ Timeout(c) \/ Reap(c)

Next ==
    \/ \E c \in Callers : Get(c) \/ Op(c)
    \/ \E c, d \in Callers : Collide(c, d)
    \/ \E s \in Servers : Answer(s) \/ Crash(s) \/ Reads(s)
    \/ Edit
    \/ BeginExit \/ ShutdownAll

\* The event loop runs every op on, and its timer cancels the read that waits.  Who
\* waits for a pipe to drain is woken whenever it has drained, though it may fill again
\* before the next one waits (asyncio's FlowControlMixin.resume_writing).
Fairness ==
    /\ \A c \in Callers : WF_vars(Op(c)) /\ SF_vars(Drained(c))
    /\ SF_vars(ShutdownAll)

Spec == Init /\ [][Next]_vars /\ Fairness
-----------------------------------------------------------------------------
\* Every variable has its type, and a request that was sent has an id no later one
\* gets.
TypeOK ==
    /\ cache \in Servers \union {None, Broken}
    /\ proc \in [Servers -> {"unborn", "up", "exiting", "dead"}]
    /\ disk \in 0 .. MaxEdits /\ calls \in 0 .. MaxCalls /\ overlapped \in BOOLEAN
    /\ exit \in {"open", "closing", "closed"} /\ full \in [Servers -> BOOLEAN]
    /\ \A s \in Servers : opened[s] \in -1 .. disk /\ pending[s] \subseteq 1 .. nextId[s] - 1
    /\ \A c \in Callers :
          /\ caller[c].at \in {"idle", "spawn", "sync", "notified", "requested", "header", "body", "reap",
                               "answered", "unavailable"}
          /\ Busy(c) /\ caller[c].at # "spawn" => caller[c].srv \in Servers
          /\ caller[c].at = "body" /\ ~misread[caller[c].srv] => arrived[caller[c].srv] # <<>>

\* The id discipline of client.py ("matched by JSON-RPC id"): an op is answered by
\* the response to its own request, however many late answers of ops that timed
\* out came before it on the stream.
AnswerIsMine == \A c \in Callers : caller[c].at = "answered" => caller[c].answer.id = caller[c].id

\* The on-disk file is the source of truth (client.py): an answer is never about
\* contents older than those the op began with, so diagnostics that follow an
\* edit are diagnostics of that edit.
AnswerIsFresh == \A c \in Callers : caller[c].at = "answered" => caller[c].answer.text >= caller[c].began

\* Both, of one answer: it is the response to this op and about these contents.
AnswerIsRight == AnswerIsMine /\ AnswerIsFresh

\* "One Language Server per project root" (service.py), while no two ops overlapped:
\* a second process starts only when the first one has stopped, and none is left
\* once the app has shut its servers down.  (_get_client reads the cache before the
\* await that spawns: ops that overlap can make a second one.)
OneServer ==
    ~overlapped => Cardinality({s \in Servers : proc[s] = "up"}) <= IF exit = "closed" THEN 0 ELSE 1

\* Frames are read whole ("Read frames until the response matching req_id arrives,
\* skipping everything else", client.py): a live client in the cache can still
\* find the next frame of its stream.
FramesStayWhole == cache \in Servers /\ Alive(cache) => ~misread[cache]

\* Whoever writes to s waits for a pipe that is full.
Holds(s) == proc[s] = "up" /\ full[s]

Under(c) == caller[c].at = "spawn" \/ caller[c].at = "sync"
Ended(c) == caller[c].at \in {"answered", "unavailable"}

\* Every op and the exit end, whatever the server does or fails to do, but for one thing:
\* a server that is up and never reads again holds who writes to it, for the time limit
\* of a request (client.py, _request) does not cover its write.
EveryOpEnds ==
    /\ \A c \in Callers :
          Under(c) ~> (Ended(c) \/ [](caller[c].at \in {"notified", "requested"} /\ Holds(caller[c].srv)))
    /\ exit = "closing" ~> (exit = "closed" \/ [](cache \in Servers /\ Holds(cache)))

\* "One Language Server per project root" (service.py), also for ops that overlap.
OneServerPerRoot == Cardinality({s \in Servers : proc[s] = "up"}) <= 1

\* "Keep everything best-effort so a missing/slow server never breaks a turn"
\* (ADR-0007): every op ends, without the exception.
NeverHeld == \A c \in Callers : Under(c) ~> Ended(c)
=============================================================================
