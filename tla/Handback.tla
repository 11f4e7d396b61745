------------------------------ MODULE Handback ------------------------------
(* The git hand-back (sandbox/handback.py): how the Workspace of a session  *)
(* becomes a decode/<session> branch, secured locally and then pushed, over *)
(* the /ship commands and the exits of several sessions.                    *)
(*                                                                          *)
(* A copy of the Workspace is its branches, the branch checked out, and the *)
(* files present in the worktree.  The sandbox's copy is where the model    *)
(* works and the host's is the one git ships: one directory under docker's  *)
(* bind mount, two under modal, where an export overlays the first onto the *)
(* second (sandbox/modal_backend.py, sandbox/workspace.py).                 *)
EXTENDS Naturals, FiniteSets, Sequences, Functions

CONSTANTS
    Backends,       \* the backends a session may have: "docker", "modal"
    ExportFails,    \* whether a sweep of the sandbox may fail
    Files,          \* the files there may be
    Tracked,        \* those of the commit that is cloned
    Sessions,       \* the sessions, in the order they run
    MaxCommits,     \* bound: commits in all
    MaxShips        \* bound: hand-backs in all

ASSUME HandbackAssumption ==
    /\ Backends \subseteq {"docker", "modal"} /\ ExportFails \in BOOLEAN
    /\ {MaxCommits, MaxShips} \subseteq Nat
    /\ Tracked \subseteq Files
    /\ Sessions \in Seq(STRING) \ {<<>>} /\ IsInjective(Sessions)

VARIABLES
    commits,    \* every commit made: its parent and its files; the clone is commit 1
    copies,     \* the sandbox's and the host's copy of the Workspace
    backend,    \* the backend of the session
    cloned,     \* whether the Workspace is the clone of a repository
    remote,     \* the session branches on origin
    current,    \* the number of the session that runs
    phase,      \* of the REPL: "idle", "shipping", "exiting", "exited" or "crashed"
    step,       \* what the hand-back does next
    outcome,    \* how the last one ended: "none", "skipped", "pushed", "local" or "failed"
    ships,      \* hand-backs begun
    unanswered, \* history: this hand-back took a question that git failed for an answer
    outside     \* whether git ever wrote to the repository around the Workspace

handbackVars == <<commits, copies, backend, cloned, remote, current, phase, step, outcome, ships, unanswered, outside>>

Range0 == Range(Sessions)
Branches == {"main", "feature"} \union Range0
NoCommit == 0
ClonedCommit == 1     \* origin/HEAD stays at the commit that was cloned

Workspace == [branch : [Branches -> Nat], head : Branches, work : SUBSET Files]

\* prepare_workspace, _git_clone: the clone, or the empty directory it degrades to.
Prepared(clone) ==
    [branch |-> [b \in Branches |-> IF b = "main" THEN ClonedCommit ELSE NoCommit],
     head |-> "main", work |-> IF clone THEN Tracked ELSE {}]

HandbackInit ==
    /\ commits = <<[parent |-> NoCommit, files |-> Tracked]>>
    /\ backend \in Backends
    /\ cloned \in BOOLEAN
    /\ copies = [side \in {"box", "host"} |-> Prepared(cloned)]
    /\ remote = [s \in Range0 |-> NoCommit]
    /\ current = 1 /\ phase = "idle" /\ step = "none" /\ outcome = "none" /\ ships = 0
    /\ unanswered = FALSE /\ outside = FALSE

Box == copies["box"]
Host == copies["host"]
Branch == Sessions[current]
Tip(w) == w.branch[w.head]
Tips == Host.branch
Dirty(w) == w.work # commits[Tip(w)].files

\* One directory under docker, the given side's own under modal.
Put(side, w) == copies' = IF backend = "modal" THEN [copies EXCEPT ![side] = w] ELSE [s \in DOMAIN copies |-> w]

\* The commits a commit builds on, itself included.
Behind(c) ==
    LET up[n \in 0 .. Len(commits)] == IF n = 0 THEN {} ELSE {n} \union up[commits[n].parent]
    IN  up[c]

\* A commit of everything in the worktree on the branch checked out.
Committed(w) == [w EXCEPT !.branch[w.head] = Len(commits) + 1]
AddCommit(w) == commits' = Append(commits, [parent |-> Tip(w), files |-> w.work])

-----------------------------------------------------------------------------
\* The model at work in the sandbox: files come and go, commits, other branches.
Touch(f) ==
    /\ phase = "idle"
    /\ Put("box", [Box EXCEPT !.work = IF f \in @ THEN @ \ {f} ELSE @ \union {f}])
    /\ UNCHANGED <<commits, backend, cloned, remote, current, phase, step, outcome, ships, unanswered, outside>>

ModelCommits ==
    /\ phase = "idle" /\ cloned /\ Dirty(Box) /\ Len(commits) < MaxCommits
    /\ AddCommit(Box) /\ Put("box", Committed(Box))
    /\ UNCHANGED <<backend, cloned, remote, current, phase, step, outcome, ships, unanswered, outside>>

ModelSwitches(b) ==
    /\ phase = "idle" /\ cloned /\ ~Dirty(Box) /\ b # Box.head
    /\ Box.branch[b] # NoCommit \/ b = "feature"
    /\ LET at == IF Box.branch[b] = NoCommit THEN Tip(Box) ELSE Box.branch[b]
       IN  Put("box", [Box EXCEPT !.branch[b] = at, !.head = b, !.work = commits[at].files])
    /\ UNCHANGED <<commits, backend, cloned, remote, current, phase, step, outcome, ships, unanswered, outside>>

-----------------------------------------------------------------------------
\* /ship while the runner is idle, or the exit of the app.
Begin(to) ==
    /\ phase = "idle" /\ ships < MaxShips
    /\ phase' = to /\ step' = "export" /\ ships' = ships + 1 /\ unanswered' = FALSE
    /\ UNCHANGED <<commits, copies, backend, cloned, remote, current, outcome, outside>>

\* extract_tar: what the sandbox holds is laid over the host's copy.
Overlay(b, h) ==
    [branch |-> [n \in Branches |-> IF b.branch[n] # NoCommit THEN b.branch[n] ELSE h.branch[n]],
     head |-> b.head,
     work |-> b.work \union h.work]

\* extract_tar fails half-way: some of the files came over.  (Of refs/ and HEAD only all
\* or nothing is modelled: a branch checked out whose ref did not come is left out.)
Part(b, h, some, git) ==
    LET whole == Overlay(b, h)
    IN  [branch |-> IF git THEN whole.branch ELSE h.branch, head |-> IF git THEN b.head ELSE h.head,
         work |-> some \union h.work]

\* export: best-effort under modal, nothing to do under docker.
Export ==
    /\ step = "export" /\ step' = "check"
    /\ \/ Put("host", Overlay(Box, Host))
       \/ /\ backend = "modal" /\ ExportFails
          /\ \E some \in SUBSET Box.work, git \in BOOLEAN : Put("host", Part(Box, Host, some, git))
    /\ UNCHANGED <<commits, backend, cloned, remote, current, phase, outcome, ships, unanswered, outside>>

\* The hand-back ends: a failure leaves ship_workspace as an exception, which the
\* exit swallows and the /ship command lets through the REPL's loop.
End(how) ==
    /\ outcome' = how /\ step' = "none"
    /\ phase' = CASE phase = "exiting" -> "exited"
                  [] phase = "shipping" -> IF how = "failed" THEN "crashed" ELSE "idle"

\* _has_origin: the Workspace itself is a repository with an origin; git alone
\* would find the one around it.  A git that fails reads as no repository.
HasOrigin(answers) == cloned /\ answers

\* _is_dirty: a status that fails reads as a clean worktree.
IsDirty(answers) == answers /\ Dirty(Host)

\* _is_unchanged: a clean worktree on the commit that was cloned, as far as HEAD and
\* origin/HEAD resolve.
Unchanged(answers, resolves) == ~IsDirty(answers) /\ resolves /\ Tip(Host) = ClonedCommit

Check ==
    /\ step = "check"
    /\ \E origin, status, resolves \in BOOLEAN :
          /\ unanswered' = ~(origin /\ status)
          /\ IF ~HasOrigin(origin) \/ Unchanged(status, resolves) THEN End("skipped")
             ELSE step' = "secure" /\ UNCHANGED <<phase, outcome>>
    /\ UNCHANGED <<commits, copies, backend, cloned, remote, current, ships, outside>>

\* The capture replaces the model's last commit.
CaptureAmends ==
    /\ step = "secure"
    /\ outside' = (outside \/ ~cloned)
    /\ \E status \in BOOLEAN :
          /\ unanswered' = (unanswered \/ ~status)
          /\ \/ /\ ~IsDirty(status) /\ step' = "point"
                /\ UNCHANGED <<commits, copies, phase, outcome>>
             \/ /\ IsDirty(status) /\ Len(commits) < MaxCommits
                /\ commits' = Append(commits, [parent |-> commits[Tip(Host)].parent, files |-> Host.work])
                /\ Put("host", Committed(Host)) /\ step' = "point"
                /\ UNCHANGED <<phase, outcome>>
    /\ UNCHANGED <<backend, cloned, remote, current, ships>>

\* _secure_session_branch, first half: a dirty worktree is committed on top of
\* whatever branch the model left checked out.
Capture ==
    /\ step = "secure"
    /\ outside' = (outside \/ ~cloned)
    /\ \E status \in BOOLEAN :
          /\ unanswered' = (unanswered \/ ~status)
          /\ \/ /\ ~IsDirty(status) /\ step' = "point"
                /\ UNCHANGED <<commits, copies, phase, outcome>>
             \/ /\ IsDirty(status) /\ Len(commits) < MaxCommits
                /\ AddCommit(Host) /\ Put("host", Committed(Host)) /\ step' = "point"
                /\ UNCHANGED <<phase, outcome>>
             \/ IsDirty(status) /\ End("failed") /\ UNCHANGED <<commits, copies>>
    /\ UNCHANGED <<backend, cloned, remote, current, ships>>

\* A branch that, once made, stays where it is.
PointOnce ==
    /\ step = "point"
    /\ IF Host.head = Branch THEN End("failed") /\ UNCHANGED copies
       ELSE /\ Put("host", [Host EXCEPT !.branch[Branch] = IF @ = NoCommit THEN Tip(Host) ELSE @])
            /\ step' = "push" /\ UNCHANGED <<phase, outcome>>
    /\ UNCHANGED <<commits, backend, cloned, remote, current, ships, unanswered, outside>>

\* git branch -f <session branch> HEAD, which git refuses for the branch that is
\* checked out, and which may fail for any other reason.
Point ==
    /\ step = "point"
    /\ \/ End("failed") /\ UNCHANGED copies
       \/ /\ Host.head # Branch
          /\ Put("host", [Host EXCEPT !.branch[Branch] = Tip(Host)])
          /\ step' = "push" /\ UNCHANGED <<phase, outcome>>
    /\ UNCHANGED <<commits, backend, cloned, remote, current, ships, unanswered, outside>>

\* _push, not forced: origin takes the branch when it moves its own forward, and
\* the push may fail for any other reason.
Accepts(c) == remote[Branch] = NoCommit \/ remote[Branch] \in Behind(c)

PushBranch ==
    /\ step = "push"
    /\ \/ /\ Accepts(Host.branch[Branch])
          /\ remote' = [remote EXCEPT ![Branch] = Host.branch[Branch]]
          /\ End("pushed")
       \/ UNCHANGED remote /\ End("local")
    /\ UNCHANGED <<commits, copies, backend, cloned, current, ships, unanswered, outside>>

\* The next session reuses a populated Workspace as the last one left it on the
\* host, clones again otherwise, and its sandbox, of either backend, is made from that.
NextSession ==
    /\ phase \in {"exited", "crashed"} /\ current < Len(Sessions)
    /\ current' = current + 1 /\ phase' = "idle" /\ outcome' = "none" /\ backend' \in Backends
    /\ IF cloned \/ Host.work # {} THEN Put("box", Host) /\ UNCHANGED cloned
       ELSE cloned' \in BOOLEAN /\ copies' = [side \in {"box", "host"} |-> Prepared(cloned')]
    /\ UNCHANGED <<commits, remote, step, ships, unanswered, outside>>

HandbackNext ==
    \/ \E f \in Files : Touch(f)
    \/ ModelCommits
    \/ \E b \in Branches : ModelSwitches(b)
    \/ \E to \in {"shipping", "exiting"} : Begin(to)
    \/ Export \/ Check \/ Capture \/ Point \/ PushBranch
    \/ NextSession

HandbackSpec == HandbackInit /\ [][HandbackNext]_handbackVars
-----------------------------------------------------------------------------
\* Every variable has its type, a branch checked out has a commit, commits build on
\* earlier ones, and a hand-back has a next step exactly while it runs.
HandbackTypeOK ==
    /\ backend \in Backends
    /\ copies \in [{"box", "host"} -> Workspace]
    /\ \A side \in DOMAIN copies : Tip(copies[side]) \in 1 .. Len(commits)
    /\ \A c \in 1 .. Len(commits) : commits[c].parent < c /\ commits[c].files \subseteq Files
    /\ phase \in {"idle", "shipping", "exiting", "exited", "crashed"}
    /\ step \in {"none", "export", "check", "secure", "point", "push"}
    /\ phase \in {"shipping", "exiting"} <=> step # "none"
    /\ outcome \in {"none", "skipped", "pushed", "local", "failed"}
    /\ unanswered \in BOOLEAN

\* What a branch of the host builds on after a step.
BehindNext(b) == Behind(Tips[b])'

\* At the end of a hand-back, before the model works on.
JustShipped == phase' # phase /\ step = "push" /\ step' = "none"

\* Secure before push (handback.py: "the branch is secured locally BEFORE the
\* non-forced push"): whatever becomes of the export and of the push, the hand-back leaves
\* the commit checked out on the session branch, with the host's whole worktree in it, and
\* an accepted push leaves the same commit on origin; and a hand-back passed over as
\* unchanged leaves no file in the worktree behind.  The exception is a question to git
\* that failed: it reads as "clean" or "no repository", and files may stay behind.  They
\* stay in the Workspace, then as ever: no step takes one away.  And nothing is secured in
\* the user's checkout around a Workspace that is no repository (_has_origin).
WorkIsSecured ==
    [][/\ JustShipped =>
            /\ Host.branch[Branch] # NoCommit /\ Host.branch[Branch] = Tip(Host)
            /\ unanswered \/ commits[Host.branch[Branch]].files = Host.work
            /\ outcome' = "pushed" => remote'[Branch] = Host.branch[Branch]
       /\ step = "check" /\ step' = "none" /\ cloned => unanswered' \/ Host.work = Tracked
       /\ step \in {"check", "secure", "point", "push"} => Host.work' = Host.work
       /\ ~outside']_handbackVars

\* "Ship rather than silently drop results" (handback.py), without the exception: a
\* hand-back that came to its end has every file of the worktree on a branch.
AlwaysSecured ==
    [][/\ JustShipped => commits[Host.branch[Branch]].files = Host.work
       /\ step = "check" /\ step' = "none" /\ cloned => Host.work = Tracked]_handbackVars

\* Every branch but the session's stays or moves to a commit that builds on its own.
KeepsModelCommits ==
    step \in {"check", "secure", "point", "push"} =>
        \A b \in Branches \ {Branch} :
            Host.branch[b] # NoCommit => Host.branch[b] \in BehindNext(b)

\* "The model's own commits are preserved, never rewritten" (handback.py): no step
\* of a hand-back after the export takes a commit off a branch of the model's.
ModelCommitsKept == [][KeepsModelCommits]_handbackVars

\* "The branch is pointed at the final state" (ADR-0012): after a hand-back whose
\* export succeeded, the session branch holds the files the sandbox holds.
FinalStateIsShipped ==
    [][JustShipped => commits[Host.branch[Branch]].files = Box.work]_handbackVars

\* "A re-ship fast-forwards the SAME ref" (handback.py): origin can take the
\* session branch whenever a hand-back comes to the push.
ReshipFastForwards == step = "push" => Accepts(Host.branch[Branch])

\* "Ship rather than silently drop results" (handback.py): a Workspace is passed
\* over only when origin has every commit on its branches.
SkipMeansNothing ==
    [][step = "check" /\ outcome' = "skipped" /\ step' = "none" /\ cloned =>
        \A b \in Branches : Host.branch[b] \in {NoCommit, ClonedCommit} \union {remote[s] : s \in Range0}]_handbackVars

\* "Callers wrap best-effort so a hand-back failure never blocks exit or a flow"
\* (handback.py): no hand-back ends the REPL.
ShipNeverCrashes == phase # "crashed"
=============================================================================
