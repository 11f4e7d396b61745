--------------------------- MODULE HeadlessProofs ---------------------------
(* Proofs about the runs without a terminal.  Headless, for every way to    *)
(* launch the command and any number of requests: the summary is true and   *)
(* the finally clause pays.  Remote, for any containers, repositories,      *)
(* requests and triggers: what a call comes back with is its own.           *)
(* Handback, for any sessions, files and failures: the work is secured, and *)
(* nothing the model committed is lost.                                     *)
EXTENDS Headless, Remote, Handback, FiniteSetTheorems, SequenceTheorems, TLAPS

Early == {"launch", "prepare", "wrap", "run"}
After == {"report", "done"}

Typed ==
    /\ launch \in Launch /\ {requests, work, host} \subseteq Nat
    /\ pc \in Early \union {"reap", "ship", "write", "replace", "killed"} \union After
    /\ state \in [reason : {"error", "completed", "request_limit"}, error : BOOLEAN, output : BOOLEAN]
    /\ branch \in [here : Nat, origin : Nat] /\ handback \in [branch : Nat, pushed : BOOLEAN]
    /\ pc = "launch" => task = "none"

\* What the run state says is so from the moment the run has ended.
StateIsTrue ==
    /\ (state.reason = "completed") = state.output
    /\ state.reason = "completed" => requests > 0 /\ ~state.error
    /\ state.reason = "request_limit" => requests = launch.cap /\ ~state.error
    /\ pc \in Early => state.reason = "error" /\ ~state.error
    /\ pc \in {"reap", "ship", "write", "replace"} => (state.reason = "error" => state.error)

\* No branch before the hand-back, and the one it names afterwards.
NoBranchYet == branch.here = 0 /\ branch.origin = 0 /\ handback.branch = 0 /\ ~handback.pushed
BranchIsTrue ==
    /\ handback.branch = branch.here /\ handback.branch \in {0, host}
    /\ handback.pushed => branch.origin = branch.here
    /\ handback.branch # 0 /\ "sweep" \notin faults => branch.here = work

\* The debts that are paid by a step, unless an interrupt lands in the finally clause.
Owing == task # "none" /\ "late" \notin faults
Reaped == box # "up" /\ ("sweep" \notin faults => host = work)
BranchPaid == launch.repo /\ host # 0 /\ "ship" \notin faults => branch.here = host
Told == launch.summary /\ "write" \notin faults => file # Old

Inv ==
    /\ Typed /\ StateIsTrue
    /\ pc \in Early \union {"reap", "ship"} => NoBranchYet
    /\ pc \in {"ship"} \union Early => ("sweep" \notin faults => pc \in Early \/ host = work)
    /\ pc \in {"write", "replace"} => BranchIsTrue
    /\ file # Old => pc \in After \union {"killed"} /\ SummaryIsTrue
    /\ Owing /\ pc \in {"ship", "write", "replace"} \union After => Reaped
    /\ Owing /\ pc \in {"write", "replace"} \union After => BranchPaid
    /\ Owing /\ pc \in After => Told

\* A sandbox is left behind unasked only by a run that was cut off while making it.
Boxed ==
    /\ left \subseteq {"asked", "unnamed"}
    /\ "unnamed" \in left => failure \in {"interrupt", "agent"} /\ pc \notin Early

LEMMA BoxedStarts == Init => Boxed
  BY DEF Init, Boxed

LEMMA BoxedKeeps == Boxed /\ [Next]_vars => Boxed'
<1> SUFFICES ASSUME Boxed, [Next]_vars PROVE Boxed'
  OBVIOUS
<1> USE DEF run, disk, boxes, ending, console
<1>1. CASE UNCHANGED left /\ (pc \in Early \/ UNCHANGED <<pc, failure>>)
  BY <1>1 DEF Boxed
<1>2. CASE UNCHANGED left /\ pc \notin Early /\ pc' \notin Early /\ failure' \in {failure, "interrupt"}
  BY <1>2 DEF Boxed
<1>3. CASE Resolve \/ Wrap \/ OpenSession \/ LastRequest \/ CapFires
  BY <1>1, <1>3 DEF Resolve, Wrap, OpenSession, LastRequest, CapFires, Ready, Early
<1>4. CASE Prepare \/ ToolRequest
  <2>1. pc \in Early /\ left' \in {left, left \union {"asked"}}
    BY <1>4 DEF Prepare, ToolRequest, Create, Ready, Early
  <2>2. QED
    BY <2>1 DEF Boxed
<1>5. CASE AgentFails \/ Interrupt
  <2>1. /\ pc \in Early /\ pc' = "reap" /\ failure' \in {"interrupt", "agent"}
        /\ left' \in {left, left \union {"unnamed"}}
    BY <1>5 DEF AgentFails, Interrupt, CutOff, Raise, Ready, Early
  <2>2. QED
    BY <2>1 DEF Boxed, Early
<1>6. CASE Reap \/ InterruptFinally
  <2>1. /\ pc \notin Early /\ pc' \notin Early /\ failure' \in {failure, "interrupt"}
        /\ left' \in {left, left \union {"asked"}}
    BY <1>6 DEF Reap, InterruptFinally, Destroy, Early
  <2>2. QED
    BY <2>1 DEF Boxed
<1>7. CASE Ship \/ Write \/ Replace \/ Report
  <2>1. UNCHANGED left /\ pc \notin Early /\ pc' \notin Early /\ failure' = failure
    BY <1>7 DEF Ship, Write, Replace, Report, Early
  <2>2. QED
    BY <1>2, <2>1
<1>8. CASE Kill
  <2>1. UNCHANGED left /\ UNCHANGED failure /\ pc' \notin Early
    BY <1>8 DEF Kill, Early
  <2>2. QED
    BY <2>1 DEF Boxed
<1>9. CASE UNCHANGED vars
  BY <1>1, <1>9 DEF vars
<1>10. QED
  BY <1>3, <1>4, <1>5, <1>6, <1>7, <1>8, <1>9 DEF Next

LEMMA InitInv == Init => Inv
<1> SUFFICES ASSUME Init PROVE Inv
  OBVIOUS
<1>1. Typed
  BY HeadlessAssumption DEF Init, Typed, NoHandback, Early
<1>2. StateIsTrue /\ NoBranchYet
  BY DEF Init, StateIsTrue, NoBranchYet, NoHandback
<1>3. QED
  BY <1>1, <1>2 DEF Init, Inv, Early, After

LEMMA RaiseKeeps ==
  ASSUME Inv, pc \in Early, NEW kind, kind = "limit" => requests = launch.cap,
         Raise(kind), UNCHANGED <<launch, task, requests, work, host, branch, handback, file, faults>>
  PROVE  Inv'
<1>1. state' \in [reason : {"error", "completed", "request_limit"}, error : BOOLEAN, output : BOOLEAN]
  BY DEF Inv, Typed, Raise
<1>2. /\ pc' = "reap" /\ ~state'.output /\ state'.reason # "completed"
      /\ state'.reason = "request_limit" => requests = launch.cap /\ ~state'.error
      /\ state'.reason = "error" => state'.error
  BY DEF Inv, Typed, StateIsTrue, Raise
<1>3. QED
  BY <1>1, <1>2 DEF Inv, Typed, StateIsTrue, NoBranchYet, Early, After, Owing
\* The steps before the finally clause that go on.
LEMMA EarlyKeeps ==
  ASSUME Inv, pc \in Early, pc' \in Early \ {"launch"},
         UNCHANGED <<launch, state, requests, handback, file, faults, branch>>, {work', host'} \subseteq Nat
  PROVE  Inv'
  BY DEF Inv, Typed, StateIsTrue, NoBranchYet, Early, After, Owing

LEMMA LaunchKeeps ==
  ASSUME Inv, Resolve \/ Prepare \/ Wrap \/ OpenSession \/ ToolRequest
  PROVE  Inv'
<1> USE DEF run, disk, boxes, ending, console
<1>1. CASE Resolve
  <2>1. CASE pc' = "prepare"
    BY <1>1, <2>1, EarlyKeeps DEF Resolve, Early, Inv, Typed
  <2>2. CASE pc' = "done"
    <3>1. task' = "none"
      BY <1>1, <2>2 DEF Resolve, Inv, Typed
    <3>2. UNCHANGED <<launch, state, requests, handback, file, faults, branch, work, host>> /\ pc = "launch"
      BY <1>1 DEF Resolve
    <3>3. QED
      BY <2>2, <3>1, <3>2 DEF Inv, Typed, StateIsTrue, Early, After, Owing
  <2>3. QED
    BY <1>1, <2>1, <2>2 DEF Resolve
<1>2. CASE Prepare
  BY <1>2, EarlyKeeps, RaiseKeeps DEF Prepare, Early, Inv, Typed
<1>3. CASE Wrap
  BY <1>3, EarlyKeeps, RaiseKeeps DEF Wrap, Early, Inv, Typed
<1>4. CASE OpenSession
  BY <1>4, EarlyKeeps, RaiseKeeps DEF OpenSession, Early, Inv, Typed
<1>5. CASE ToolRequest
  <2>1. requests' \in Nat /\ {work', host'} \subseteq Nat
    BY <1>5 DEF ToolRequest, Inv, Typed
  <2>2. UNCHANGED <<launch, pc, task, state, handback, file, faults, branch>> /\ pc = "run"
    BY <1>5 DEF ToolRequest, Ready
  <2>3. QED
    BY <2>1, <2>2 DEF Inv, Typed, StateIsTrue, NoBranchYet, Early, After, Owing
<1>6. QED
  BY <1>1, <1>2, <1>3, <1>4, <1>5

\* The run ends, with an answer or by raising.
LEMMA RunEnds ==
  ASSUME Inv, LastRequest \/ CapFires \/ AgentFails \/ Interrupt
  PROVE  Inv'
<1> USE DEF run, disk, boxes, ending, console
<1>1. CASE LastRequest
  <2>1. requests' \in Nat /\ requests' > 0
    BY <1>1 DEF LastRequest, Inv, Typed
  <2>2. /\ state' = [reason |-> "completed", error |-> FALSE, output |-> TRUE] /\ pc = "run" /\ pc' = "reap"
        /\ UNCHANGED <<launch, task, handback, file, faults, branch, work, host>>
    BY <1>1 DEF LastRequest, Ready
  <2>3. QED
    BY <2>1, <2>2 DEF Inv, Typed, StateIsTrue, NoBranchYet, Early, After, Owing
<1>2. CASE CapFires
  BY <1>2, RaiseKeeps DEF CapFires, Ready, Early
<1>3. CASE AgentFails
  BY <1>3, RaiseKeeps DEF AgentFails, Ready, Early
<1>4. CASE Interrupt
  BY <1>4, RaiseKeeps DEF Interrupt, Early
<1>5. QED
  BY <1>1, <1>2, <1>3, <1>4

\* The finally clause in its order.
LEMMA ReapKeeps == ASSUME Inv, Reap PROVE Inv'
<1> USE DEF run, boxes, console
<1>1. /\ pc = "reap" /\ pc' = "ship" /\ host' \in Nat
      /\ host' = work \/ "sweep" \in faults'
      /\ UNCHANGED <<launch, task, state, requests, work, branch, handback, file>> /\ box' # "up"
  BY DEF Reap, Destroy, Inv, Typed
<1>2. QED
  BY <1>1 DEF Inv, Typed, StateIsTrue, NoBranchYet, Early, After, Owing, Reaped

LEMMA ShipKeeps == ASSUME Inv, Ship PROVE Inv'
<1> USE DEF run, boxes, console
<1>1. /\ pc = "ship" /\ pc' \in {"write", "report"} /\ (pc' = "report" => ~launch.summary)
      /\ UNCHANGED <<launch, task, state, requests, work, host, box, file>> /\ NoBranchYet
      /\ "sweep" \notin faults => host = work
  BY DEF Ship, Inv, Early
<1>2. CASE UNCHANGED <<branch, handback>> /\ (faults' = faults \/ faults' = faults \union {"ship"})
           /\ (BranchPaid' \/ "ship" \in faults')
  BY <1>1, <1>2 DEF Inv, Typed, StateIsTrue, NoBranchYet, BranchIsTrue, Early, After, Owing, Reaped, BranchPaid, Told
<1>3. ASSUME NEW pushed \in BOOLEAN, faults' = faults, host # 0,
             branch' = [here |-> host, origin |-> IF pushed THEN host ELSE branch.origin],
             handback' = [branch |-> host, pushed |-> pushed]
      PROVE  Inv'
  <2>1. branch' \in [here : Nat, origin : Nat] /\ handback' \in [branch : Nat, pushed : BOOLEAN]
    BY <1>3 DEF Inv, Typed
  <2>2. BranchIsTrue' /\ BranchPaid'
    BY <1>1, <1>3 DEF BranchIsTrue, BranchPaid
  <2>3. QED
    BY <1>1, <1>3, <2>1, <2>2 DEF Inv, Typed, StateIsTrue, Early, After, Owing, Reaped, Told
<1>4. QED
  <2>1. CASE HandedBack /\ faults' = faults
    BY <1>1, <1>2, <1>3, <2>1 DEF HandedBack, BranchPaid
  <2>2. CASE faults' = faults \union {"ship"} /\ UNCHANGED <<branch, handback>>
    BY <1>2, <2>2
  <2>3. QED
    BY <2>1, <2>2 DEF Ship

\* A summary that reaches its path is true there.
LEMMA SummaryTells ==
  ASSUME Inv, pc = "replace", file' = Summary,
         UNCHANGED <<launch, requests, host, work, branch>>, "sweep" \in faults => "sweep" \in faults'
  PROVE  SummaryIsTrue' /\ file' # Old
<1>1. /\ file'.reason = state.reason /\ file'.error = state.error /\ file'.output = state.output
      /\ file'.requests = requests /\ file'.handback = handback
  BY DEF Summary
<1>2. Summary # Old
  BY DEF Summary, Old, Inv, Typed
<1>3. QED
  BY <1>1, <1>2 DEF Inv, StateIsTrue, BranchIsTrue, SummaryIsTrue

LEMMA WriteKeeps == ASSUME Inv, Write \/ Replace PROVE Inv'
<1> USE DEF run, disk, boxes, console
<1>1. CASE Write
  BY <1>1 DEF Write, Inv, Typed, StateIsTrue, BranchIsTrue, Early, After, Owing, Reaped, BranchPaid, Told
<1>2. CASE Replace
  <2>1. /\ pc = "replace" /\ pc' = "report"
        /\ UNCHANGED <<launch, task, state, requests, work, host, box, branch, handback>>
        /\ \/ file' = Summary /\ faults' = faults
           \/ file' = file /\ faults' = faults \union {"write"}
    BY <1>2 DEF Replace
  <2>2. file' # Old => SummaryIsTrue'
    BY <2>1, SummaryTells DEF Inv, After
  <2>3. Told'
    BY <2>1, SummaryTells DEF Told
  <2>4. QED
    BY <2>1, <2>2, <2>3 DEF Inv, Typed, StateIsTrue, Early, After, Owing, Reaped, BranchPaid
<1>3. QED
  BY <1>1, <1>2

LEMMA InterruptKeeps == ASSUME Inv, InterruptFinally PROVE Inv'
<1> USE DEF disk, boxes, console
<1>1. /\ pc \in {"reap", "ship", "write", "replace"} /\ pc' = "report" /\ ~Owing'
      /\ UNCHANGED <<launch, task, requests, state, handback>>
  BY DEF InterruptFinally, Owing
<1>2. host' \in Nat /\ work' = work /\ branch' \in [here : Nat, origin : Nat]
  BY DEF InterruptFinally, Inv, Typed
<1>3. file' # Old => SummaryIsTrue'
  <2>1. CASE file' = file
    BY <1>1, <2>1 DEF Inv, After
  <2>2. CASE pc = "replace" /\ file' = Summary /\ UNCHANGED disk
    BY <1>1, <2>2, SummaryTells DEF InterruptFinally
  <2>3. QED
    BY <2>1, <2>2 DEF InterruptFinally
<1>4. QED
  BY <1>1, <1>2, <1>3 DEF Inv, Typed, StateIsTrue, Early, After

LEMMA EndKeeps == ASSUME Inv, Report \/ Kill \/ UNCHANGED vars PROVE Inv'
<1> USE DEF run, disk, boxes, ending, console
<1>1. /\ UNCHANGED <<launch, task, state, requests, work, host, box, branch, handback, file, faults>>
      /\ pc' = pc \/ pc' = "killed" \/ (pc = "report" /\ pc' = "done")
  BY DEF Report, Kill, vars
<1>2. SummaryIsTrue' = SummaryIsTrue
  BY <1>1 DEF SummaryIsTrue
<1>3. QED
  BY <1>1, <1>2 DEF Inv, Typed, StateIsTrue, NoBranchYet, BranchIsTrue, Early, After, Owing, Reaped, BranchPaid, Told

\* The inductive invariant.
THEOREM HeadlessInv == Spec => [](Inv /\ Boxed)
<1>1. Inv /\ [Next]_vars => Inv'
  BY LaunchKeeps, RunEnds, ReapKeeps, ShipKeeps, WriteKeeps, InterruptKeeps, EndKeeps DEF Next
<1>2. QED
  BY InitInv, BoxedStarts, BoxedKeeps, <1>1, PTL DEF Spec

\* However the run ended and whatever failed or was interrupted after it, a summary that is
\* there is true (runtime/summary.py).
THEOREM HeadlessSummaryIsTrue == Spec => []SummaryIsTrue
<1>1. Inv => SummaryIsTrue
  BY DEF Inv, SummaryIsTrue
<1>2. QED
  BY HeadlessInv, <1>1, PTL

\* The finally clause leaves no sandbox it knows of unasked to end, no swept work off the
\* branch and no summary unwritten; the sandboxes it does not know of were being made when
\* the run was cut off
\* (runtime/headless.py, run_headless_task).
THEOREM HeadlessDebtsArePaid == Spec => []DebtsArePaid
<1>1. Inv /\ Boxed => DebtsArePaid
  BY DEF Inv, Boxed, DebtsArePaid, After, Owing, Reaped, BranchPaid, Told
<1>2. QED
  BY HeadlessInv, <1>1, PTL

-----------------------------------------------------------------------------
(* A call of run_task in its container *)

LEMMA NatInSet ==
  ASSUME NEW T, 0 \in T, \A n \in Nat : n \in T => n + 1 \in T
  PROVE  Nat \subseteq T
<1>. SUFFICES ASSUME NEW n \in Nat, n \notin T PROVE FALSE
  OBVIOUS
<1>. DEFINE A == {i \in 0..n : i \notin T}
            f == [i \in A |-> i - 1]
<1>1. IsFiniteSet(A) /\ IsFiniteSet(A \ {n}) /\ n \in A
  <2>1. IsFiniteSet(0..n)
    BY FS_Interval
  <2>2. QED
    BY <2>1, FS_Subset
<1>2. f \in [A -> A \ {n}]
  OBVIOUS
<1>3. \A i, j \in A : f[i] = f[j] => i = j
  OBVIOUS
<1>. HIDE DEF A, f
<1>4. Cardinality(A \ {n}) < Cardinality(A)
  <2>1. Cardinality(A) \in Nat /\ Cardinality(A \ {n}) = Cardinality(A) - 1
    BY <1>1, FS_CardinalityType, FS_RemoveElement
  <2>2. QED
    BY <2>1
<1>5. \E i, j \in A : i # j /\ f[i] = f[j]
  BY <1>1, <1>2, <1>4, FS_PigeonHole
<1>6. QED
  BY <1>3, <1>5

LEMMA MaxIs ==
  ASSUME NEW S \in SUBSET Nat, S # {}, NEW b \in Nat, \A x \in S : x <= b
  PROVE  Max(S) \in S /\ \A x \in S : x <= Max(S)
<1>. DEFINE T == {n \in Nat : \A R \in SUBSET Nat :
                    R # {} /\ (\A x \in R : x <= n) => \E m \in R : \A x \in R : m >= x}
<1>1. 0 \in T
  <2>1. ASSUME NEW R \in SUBSET Nat, R # {}, \A x \in R : x <= 0
        PROVE  \E m \in R : \A x \in R : m >= x
    <3>1. \A x \in R : x = 0
      BY <2>1
    <3>2. QED
      BY <2>1, <3>1
  <2>2. QED
    BY <2>1
<1>2. ASSUME NEW n \in Nat, n \in T PROVE n + 1 \in T
  <2>1. ASSUME NEW R \in SUBSET Nat, R # {}, \A x \in R : x <= n + 1
        PROVE  \E m \in R : \A x \in R : m >= x
    <3>1. CASE n + 1 \in R
      BY <2>1, <3>1
    <3>2. CASE n + 1 \notin R
      <4>1. \A x \in R : x <= n
        BY <2>1, <3>2
      <4>2. QED
        BY <1>2, <2>1, <4>1
    <3>3. QED
      BY <3>1, <3>2
  <2>2. QED
    BY <2>1
<1>3. Nat \subseteq T
  <2>. HIDE DEF T
  <2>1. QED
    BY <1>1, <1>2, NatInSet
<1>4. PICK m \in S : \A x \in S : m >= x
  BY <1>3
<1>5. Max(S) \in S /\ \A x \in S : Max(S) >= x
  BY <1>4 DEF Max
<1>6. QED
  BY <1>5

Lines == {"id", "pushed", "unpushed"}
Tree == [repo : Repos \union {NoRepo}, work : SUBSET Nat]
Result == [code : Nat, session : Nat, branch : Nat, note : {"", "no hand-back", "unpushed", "never returned"}]
CallRecord == [of : Requests, state : {"queued", "running", "returned", "lost"}, result : Result, kept : BOOLEAN]
ContainerRecord ==
  [call : Nat, step : Steps, code : Nat, log : Seq([line : Lines, of : Nat]), scratch : Tree, ws : Tree]

RemoteTyped == calls \in Seq(CallRecord) /\ container \in [Containers -> ContainerRecord]

\* A call is in one container at most, and runs there.
OneEach ==
  /\ \A k \in Containers : container[k].step # "idle" =>
        container[k].call \in DOMAIN calls /\ calls[container[k].call].state = "running"
  /\ \A j, k \in Containers :
        container[j].step # "idle" /\ container[k].step # "idle" /\ container[j].call = container[k].call => j = k

\* From its reset on the log of a container speaks of its call, unless it was kept.
LogOf(k) == \A i \in DOMAIN container[k].log : container[k].log[i].of = container[k].call
LogsAreOwn ==
  \A k \in Containers :
    container[k].step \notin {"idle", "guard", "reset"} /\ ~calls[container[k].call].kept => LogOf(k)

\* A line that tells of a push, of this call or an earlier one, is written after the push.
OnOrigin(n) == \E b \in origin : b.branch = n
PushedLines ==
  \A k \in Containers :
    /\ container[k].step = "pushed" => OnOrigin(container[k].call)
    /\ \A i \in DOMAIN container[k].log :
          container[k].log[i].line = "pushed" => OnOrigin(container[k].log[i].of)

ClonesAreOwn ==
  \A k \in Containers :
    InChild(k) /\ Cloned(k) => container[k].scratch.repo = Of(k).repo /\ container[k].scratch.work \subseteq {container[k].call}

\* What came back is of its own call, and shipped when it says so.
ResultTrue(n, c) ==
  c.state = "returned" /\ ~c.kept
    => {c.result.session, c.result.branch} \subseteq {0, n} /\ (Shipped(c.result) => OnOrigin(n))
ResultsTrue == \A n \in DOMAIN calls : ResultTrue(n, calls[n])

RemoteInv == RemoteTyped /\ OneEach /\ LogsAreOwn /\ PushedLines /\ ClonesAreOwn /\ ResultsTrue

LEMMA RemoteInvImplies == RemoteInv => PayloadIsTrue
<1> SUFFICES ASSUME RemoteInv PROVE PayloadIsTrue
  OBVIOUS
<1>1. \A n \in DOMAIN calls : ResultTrue(n, calls[n])
  BY DEF RemoteInv, ResultsTrue
<1>2. ClonesAreOwn
  BY DEF RemoteInv
<1>3. ShippedIsOnOrigin
  BY <1>1 DEF ShippedIsOnOrigin, ResultTrue, OnOrigin
<1>4. NothingLeftOver
  BY <1>1, <1>2 DEF NothingLeftOver, ResultTrue, ClonesAreOwn
<1>5. QED
  BY <1>3, <1>4 DEF PayloadIsTrue

LEMMA RemoteStarts == RemoteInit => RemoteInv
<1> SUFFICES ASSUME RemoteInit PROVE RemoteInv
  OBVIOUS
<1>1. Cold \in ContainerRecord
  BY DEF Cold, NoTree, ContainerRecord, Tree, Steps
<1>2. container \in [Containers -> ContainerRecord] /\ \A k \in Containers : container[k] = Cold
  BY <1>1 DEF RemoteInit
<1>3. calls = <<>> /\ calls \in Seq(CallRecord)
  BY DEF RemoteInit
<1>4. \A k \in Containers : container[k].step = "idle" /\ DOMAIN container[k].log = {}
  BY <1>2 DEF Cold
<1>5. RemoteTyped /\ OneEach /\ LogsAreOwn /\ PushedLines /\ ClonesAreOwn /\ ResultsTrue
  BY <1>2, <1>3, <1>4 DEF RemoteTyped, OneEach, LogsAreOwn, PushedLines, ClonesAreOwn, ResultsTrue, InChild
<1>6. QED
  BY <1>5 DEF RemoteInv

\* What the last line of some kinds says, 0 when there is none.
LEMMA LastOfIs ==
  ASSUME NEW log \in Seq([line : Lines, of : Nat]), NEW lines
  PROVE  LET found == {i \in DOMAIN log : log[i].line \in lines}
         IN  /\ found = {} => LastOf(log, lines) = 0
             /\ found # {} => \E m \in found : LastOf(log, lines) = log[m].of
<1> DEFINE found == {i \in DOMAIN log : log[i].line \in lines}
<1>1. found \in SUBSET Nat /\ Len(log) \in Nat /\ \A i \in found : i <= Len(log)
  OBVIOUS
<1>2. ASSUME found # {} PROVE Max(found) \in found
  <2> HIDE DEF found
  <2>1. QED
    BY <1>1, <1>2, MaxIs
<1>3. LastOf(log, lines) = IF found = {} THEN 0 ELSE log[Max(found)].of
  BY DEF LastOf
<1>4. QED
  BY <1>2, <1>3

\* The record of a container that goes on with its call, or is done with it.
Lawful(r, c, n) ==
  /\ r.step \notin {"idle", "guard", "reset"} /\ ~c.kept => \A i \in DOMAIN r.log : r.log[i].of = n
  /\ r.step \in {"child", "prepare", "work", "ship", "pushed", "unpushed"} /\ c.of.mode = "none" /\ c.of.repo # NoRepo
       => r.scratch.repo = c.of.repo /\ r.scratch.work \subseteq {n}

LEMMA LawfulIs ==
  ASSUME RemoteInv, NEW k \in Containers, container[k].step # "idle"
  PROVE  /\ container[k] \in ContainerRecord /\ container[k].call \in DOMAIN calls
         /\ calls[container[k].call] \in CallRecord /\ calls[container[k].call].state = "running"
         /\ Lawful(container[k], calls[container[k].call], container[k].call)
         /\ calls = [calls EXCEPT ![container[k].call] = calls[container[k].call]]
<1>1. RemoteTyped /\ OneEach /\ LogsAreOwn /\ ClonesAreOwn
  BY DEF RemoteInv
<1>2. container[k] \in ContainerRecord /\ container[k].call \in DOMAIN calls /\ calls[container[k].call].state = "running"
  BY <1>1 DEF RemoteTyped, OneEach
<1>3. calls[container[k].call] \in CallRecord /\ calls = [calls EXCEPT ![container[k].call] = calls[container[k].call]]
  BY <1>1, <1>2 DEF RemoteTyped
<1>4. Lawful(container[k], calls[container[k].call], container[k].call)
  BY <1>1 DEF LogsAreOwn, LogOf, ClonesAreOwn, InChild, Cloned, Of, Lawful
<1>5. QED
  BY <1>2, <1>3, <1>4

\* A container takes a step with its call, or ends it.
LEMMA ContainerMoves ==
  ASSUME RemoteInv, NEW k \in Containers, container[k].step # "idle", NEW n, n = container[k].call,
         NEW r \in ContainerRecord, container' = [container EXCEPT ![k] = r],
         r.step # "idle" => r.call = n,
         NEW c \in CallRecord, c.of = calls[n].of,
         calls' = [calls EXCEPT ![n] = c],
         r.step # "idle" => c.state = "running" /\ Lawful(r, c, n),
         ResultTrue(n, c)', origin \subseteq origin',
         r.step = "pushed" => OnOrigin(n)',
         \A i \in DOMAIN r.log : r.log[i].line = "pushed" => OnOrigin(r.log[i].of)'
  PROVE  RemoteInv'
<1>1. RemoteTyped /\ OneEach /\ LogsAreOwn /\ PushedLines /\ ClonesAreOwn /\ ResultsTrue
  BY DEF RemoteInv
<1>2. n \in DOMAIN calls /\ calls \in Seq(CallRecord) /\ container \in [Containers -> ContainerRecord]
  BY <1>1 DEF RemoteTyped, OneEach
<1>3. /\ container' \in [Containers -> ContainerRecord] /\ container'[k] = r
      /\ \A j \in Containers : j # k => container'[j] = container[j]
  BY <1>2
<1>4. /\ calls' \in Seq(CallRecord) /\ DOMAIN calls' = DOMAIN calls /\ calls'[n] = c
      /\ \A m \in DOMAIN calls : m # n => calls'[m] = calls[m]
  BY <1>2
<1>5. \A m : OnOrigin(m) => OnOrigin(m)'
  BY DEF OnOrigin
<1>6. \A j \in Containers : j # k /\ container[j].step # "idle" => container[j].call \in DOMAIN calls /\ container[j].call # n
  BY <1>1 DEF OneEach
<1>7. OneEach'
  <2>1. ASSUME NEW j \in Containers, container'[j].step # "idle"
        PROVE  container'[j].call \in DOMAIN calls' /\ calls'[container'[j].call].state = "running"
    BY <1>1, <1>2, <1>3, <1>4, <1>6, <2>1 DEF OneEach
  <2>2. ASSUME NEW i \in Containers, NEW j \in Containers, container'[i].step # "idle", container'[j].step # "idle",
               container'[i].call = container'[j].call
        PROVE  i = j
    BY <1>1, <1>3, <1>6, <2>2 DEF OneEach
  <2>3. QED
    BY <2>1, <2>2 DEF OneEach
<1>8. LogsAreOwn'
  <2>1. ASSUME NEW j \in Containers, container'[j].step \notin {"idle", "guard", "reset"}, ~calls'[container'[j].call].kept,
               NEW i \in DOMAIN container'[j].log
        PROVE  container'[j].log[i].of = container'[j].call
    <3>1. CASE j = k
      BY <1>3, <1>4, <2>1, <3>1 DEF Lawful
    <3>2. CASE j # k
      BY <1>1, <1>3, <1>4, <1>6, <2>1, <3>2 DEF LogsAreOwn, LogOf
    <3>3. QED
      BY <3>1, <3>2
  <2>2. QED
    BY <2>1 DEF LogsAreOwn, LogOf
<1>9. PushedLines'
  <2>1. ASSUME NEW j \in Containers PROVE (container[j].step = "pushed" => OnOrigin(container[j].call))'
    <3>1. CASE j = k
      BY <1>3, <3>1
    <3>2. CASE j # k
      BY <1>1, <1>3, <1>5, <3>2 DEF PushedLines
    <3>3. QED
      BY <3>1, <3>2
  <2>2. ASSUME NEW j \in Containers, NEW i \in DOMAIN container'[j].log, container'[j].log[i].line = "pushed"
        PROVE  OnOrigin(container[j].log[i].of)'
    <3>1. CASE j = k
      BY <1>3, <2>2, <3>1
    <3>2. CASE j # k
      BY <1>1, <1>3, <1>5, <2>2, <3>2 DEF PushedLines
    <3>3. QED
      BY <3>1, <3>2
  <2>3. QED
    BY <2>1, <2>2 DEF PushedLines
<1>10. ClonesAreOwn'
  <2>1. ASSUME NEW j \in Containers, InChild(j)', Cloned(j)'
        PROVE  container'[j].scratch.repo = Of(j)'.repo /\ container'[j].scratch.work \subseteq {container'[j].call}
    <3>1. CASE j = k
      BY <1>3, <1>4, <2>1, <3>1 DEF Lawful, InChild, Cloned, Of
    <3>2. CASE j # k
      <4>1. InChild(j) /\ Cloned(j) /\ Of(j)' = Of(j)
        BY <1>3, <1>4, <1>6, <2>1, <3>2 DEF InChild, Cloned, Of
      <4>2. QED
        BY <1>1, <1>3, <3>2, <4>1 DEF ClonesAreOwn
    <3>3. QED
      BY <3>1, <3>2
  <2>2. QED
    BY <2>1 DEF ClonesAreOwn
<1>11. ResultsTrue'
  <2>1. ASSUME NEW m \in DOMAIN calls' PROVE ResultTrue(m, calls[m])'
    <3>1. CASE m = n
      BY <1>4, <3>1
    <3>2. CASE m # n
      <4>1. ResultTrue(m, calls[m]) /\ calls'[m] = calls[m]
        BY <1>1, <1>4, <2>1, <3>2 DEF ResultsTrue
      <4>2. QED
        BY <1>5, <4>1 DEF ResultTrue
    <3>3. QED
      BY <3>1, <3>2
  <2>2. QED
    BY <2>1 DEF ResultsTrue
<1>12. QED
  BY <1>3, <1>4, <1>7, <1>8, <1>9, <1>10, <1>11 DEF RemoteInv, RemoteTyped

\* Calls are launched, and the laptop waits for them.
LEMMA CallsGrow ==
  ASSUME RemoteInv, NEW q \in Requests, NEW n \in Nat, Spawn(q, n), UNCHANGED <<container, origin>>
  PROVE  RemoteInv'
<1> DEFINE made == [i \in 1 .. n |-> [of |-> q, state |-> "queued", result |-> NoResult, kept |-> FALSE]]
<1>1. RemoteTyped /\ OneEach /\ LogsAreOwn /\ PushedLines /\ ClonesAreOwn /\ ResultsTrue
  BY DEF RemoteInv
<1>2. calls \in Seq(CallRecord) /\ calls' = calls \o made
  BY <1>1 DEF RemoteTyped, Spawn
<1>3. made \in Seq(CallRecord) /\ Len(made) = n
  <2>1. NoResult \in Result
    BY DEF NoResult, Result
  <2>2. QED
    BY <2>1 DEF CallRecord
<1>4. \A i \in DOMAIN made : made[i].state = "queued"
  OBVIOUS
<1> HIDE DEF made
<1>5. /\ calls' \in Seq(CallRecord) /\ DOMAIN calls \subseteq DOMAIN calls'
      /\ \A m \in DOMAIN calls : calls'[m] = calls[m]
      /\ \A m \in DOMAIN calls' \ DOMAIN calls : calls'[m].state = "queued"
  BY <1>2, <1>3, <1>4
<1>6. RemoteTyped' /\ OneEach'
  BY <1>1, <1>5 DEF RemoteTyped, OneEach
<1>7. LogsAreOwn' /\ PushedLines'
  <2>1. LogsAreOwn'
    BY <1>1, <1>5 DEF OneEach, LogsAreOwn, LogOf
  <2>2. QED
    BY <1>1, <2>1 DEF PushedLines, OnOrigin
<1>8. ClonesAreOwn'
  <2>1. \A k \in Containers : InChild(k)' => InChild(k) /\ Of(k)' = Of(k)
    BY <1>1, <1>5 DEF OneEach, InChild, Of
  <2>2. \A k \in Containers : InChild(k)' /\ Cloned(k)' => InChild(k) /\ Cloned(k)
    BY <2>1 DEF Cloned
  <2>3. QED
    BY <1>1, <2>1, <2>2 DEF ClonesAreOwn
<1>9. ResultsTrue'
  <2>1. ASSUME NEW m \in DOMAIN calls' PROVE ResultTrue(m, calls[m])'
    <3>1. CASE m \in DOMAIN calls
      BY <1>1, <1>5, <3>1 DEF ResultsTrue, ResultTrue, OnOrigin
    <3>2. CASE m \notin DOMAIN calls
      BY <1>5, <3>2 DEF ResultTrue
    <3>3. QED
      BY <3>1, <3>2
  <2>2. QED
    BY <2>1 DEF ResultsTrue
<1>10. QED
  BY <1>6, <1>7, <1>8, <1>9 DEF RemoteInv

LEMMA NothingMoves == ASSUME RemoteInv, UNCHANGED <<calls, container, origin>> PROVE RemoteInv'
  BY DEF RemoteInv, RemoteTyped, OneEach, LogsAreOwn, LogOf, PushedLines, OnOrigin, ClonesAreOwn, InChild, Cloned, Of,
         ResultsTrue, ResultTrue

\* An idle container is given a call, or is stopped.
LEMMA StartKeeps ==
  ASSUME RemoteInv, NEW k \in Containers, NEW n, Start(k, n)
  PROVE  RemoteInv'
<1>1. RemoteTyped /\ OneEach /\ LogsAreOwn /\ PushedLines /\ ClonesAreOwn /\ ResultsTrue
  BY DEF RemoteInv
<1>2. /\ container[k].step = "idle" /\ n \in DOMAIN calls /\ calls[n].state = "queued" /\ origin' = origin
      /\ calls' = [calls EXCEPT ![n].state = "running"]
      /\ container' = [container EXCEPT ![k].call = n, ![k].step = "guard"]
  BY DEF Start
<1>3. /\ calls' \in Seq(CallRecord) /\ DOMAIN calls' = DOMAIN calls /\ calls'[n].state = "running"
      /\ \A m \in DOMAIN calls : m # n => calls'[m] = calls[m]
  <2>1. calls \in Seq(CallRecord)
    BY <1>1 DEF RemoteTyped
  <2>2. PICK c : c = [calls[n] EXCEPT !.state = "running"]
    OBVIOUS
  <2>3. c \in CallRecord /\ c.state = "running"
    <3>1. calls[n] \in CallRecord
      BY <1>2, <2>1
    <3>2. QED
      BY <2>2, <3>1 DEF CallRecord
  <2>4. calls' = [calls EXCEPT ![n] = c]
    BY <1>2, <2>2
  <2>5. QED
    BY <1>2, <2>1, <2>3, <2>4
<1>4. /\ container' \in [Containers -> ContainerRecord] /\ container'[k].step = "guard" /\ container'[k].call = n
      /\ container'[k].log = container[k].log
      /\ \A j \in Containers : j # k => container'[j] = container[j]
  <2>1. n \in Nat
    BY <1>1, <1>2 DEF RemoteTyped
  <2>2. container \in [Containers -> ContainerRecord]
    BY <1>1 DEF RemoteTyped
  <2>3. QED
    BY <1>2, <2>1, <2>2 DEF ContainerRecord, Steps
<1>5. \A j \in Containers : j # k /\ container[j].step # "idle" => container[j].call \in DOMAIN calls /\ container[j].call # n
  BY <1>1, <1>2 DEF OneEach
<1>6. OneEach'
  BY <1>1, <1>2, <1>3, <1>4, <1>5 DEF OneEach
<1>7. LogsAreOwn' /\ PushedLines'
  <2>1. LogsAreOwn'
    BY <1>1, <1>3, <1>4, <1>5 DEF LogsAreOwn, LogOf
  <2>2. QED
    BY <1>1, <1>2, <1>4, <2>1 DEF PushedLines, OnOrigin
<1>8. ClonesAreOwn'
  <2>1. \A j \in Containers : InChild(j)' => j # k /\ InChild(j) /\ Of(j)' = Of(j)
    BY <1>3, <1>4, <1>5 DEF InChild, Of
  <2>2. \A j \in Containers : InChild(j)' /\ Cloned(j)' => j # k /\ InChild(j) /\ Cloned(j)
    BY <2>1 DEF Cloned
  <2>3. QED
    BY <1>1, <1>4, <2>1, <2>2 DEF ClonesAreOwn
<1>9. ResultsTrue'
  <2>1. ASSUME NEW m \in DOMAIN calls' PROVE ResultTrue(m, calls[m])'
    <3>1. CASE m = n
      BY <1>3, <3>1 DEF ResultTrue
    <3>2. CASE m # n
      BY <1>1, <1>2, <1>3, <3>2 DEF ResultsTrue, ResultTrue, OnOrigin
    <3>3. QED
      BY <3>1, <3>2
  <2>2. QED
    BY <2>1 DEF ResultsTrue
<1>10. QED
  BY <1>3, <1>4, <1>6, <1>7, <1>8, <1>9 DEF RemoteInv, RemoteTyped

LEMMA ColdIs == Cold \in ContainerRecord /\ Cold.step = "idle" /\ DOMAIN Cold.log = {}
  BY DEF Cold, NoTree, ContainerRecord, Tree, Steps

LEMMA RetireKeeps ==
  ASSUME RemoteInv, NEW k \in Containers, Retire(k)
  PROVE  RemoteInv'
<1>1. RemoteTyped /\ OneEach /\ LogsAreOwn /\ PushedLines /\ ClonesAreOwn /\ ResultsTrue
  BY DEF RemoteInv
<1>2. /\ calls' = calls /\ origin' = origin /\ container' \in [Containers -> ContainerRecord] /\ container'[k] = Cold
      /\ \A j \in Containers : j # k => container'[j] = container[j]
  BY <1>1, ColdIs DEF RemoteTyped, Retire
<1>3. RemoteTyped' /\ OneEach' /\ ResultsTrue'
  BY <1>1, <1>2, ColdIs DEF RemoteTyped, OneEach, ResultsTrue, ResultTrue, OnOrigin
<1>4. LogsAreOwn'
  BY <1>1, <1>2, ColdIs DEF LogsAreOwn, LogOf
<1>5. PushedLines'
  BY <1>1, <1>2, ColdIs DEF PushedLines, OnOrigin
<1>6. ClonesAreOwn'
  <2>1. \A j \in Containers : InChild(j)' => j # k /\ InChild(j) /\ (Cloned(j)' => Cloned(j)) /\ Of(j)' = Of(j)
    BY <1>2, ColdIs DEF InChild, Of, Cloned
  <2>2. QED
    BY <1>1, <1>2, <2>1 DEF ClonesAreOwn
<1>7. QED
  BY <1>3, <1>4, <1>5, <1>6 DEF RemoteInv

-----------------------------------------------------------------------------
(* The steps of a container that has a call *)

\* It goes on with its call.
LEMMA GoesOn ==
  ASSUME RemoteInv, NEW k \in Containers, container[k].step # "idle", NEW n, n = container[k].call,
         NEW r \in ContainerRecord, container' = [container EXCEPT ![k] = r], r.step # "idle", r.call = n,
         calls' = calls, Lawful(r, calls[n], n), origin \subseteq origin',
         r.step = "pushed" => OnOrigin(n)',
         r.log = container[k].log
            \/ \A i \in DOMAIN r.log : r.log[i].line = "pushed" => OnOrigin(r.log[i].of)'
  PROVE  RemoteInv'
<1>1. /\ n \in DOMAIN calls /\ calls[n] \in CallRecord /\ calls[n].state = "running"
      /\ calls = [calls EXCEPT ![n] = calls[n]] /\ container[k] \in ContainerRecord
  BY LawfulIs
<1>2. PICK c : c = calls[n]
  OBVIOUS
<1>3. c \in CallRecord /\ c.of = calls[n].of /\ calls' = [calls EXCEPT ![n] = c] /\ c.state = "running" /\ Lawful(r, c, n)
  BY <1>1, <1>2
<1>4. ResultTrue(n, c)'
  BY <1>3 DEF ResultTrue
<1>5. \A i \in DOMAIN r.log : r.log[i].line = "pushed" => OnOrigin(r.log[i].of)'
  BY DEF RemoteInv, PushedLines, OnOrigin
<1>6. QED
  BY <1>3, <1>4, <1>5, ContainerMoves

\* It is done with its call.
LEMMA IsDone ==
  ASSUME RemoteInv, NEW k \in Containers, container[k].step # "idle", NEW n, n = container[k].call,
         NEW r \in ContainerRecord, container' = [container EXCEPT ![k] = r], r.step = "idle",
         r.log = container[k].log \/ DOMAIN r.log = {},
         NEW c \in CallRecord, c.of = calls[n].of, calls' = [calls EXCEPT ![n] = c],
         ResultTrue(n, c), origin' = origin
  PROVE  RemoteInv'
<1>1. ResultTrue(n, c)'
  BY DEF ResultTrue, OnOrigin
<1>2. \A i \in DOMAIN r.log : r.log[i].line = "pushed" => OnOrigin(r.log[i].of)'
  BY DEF RemoteInv, PushedLines, OnOrigin
<1>3. QED
  BY <1>1, <1>2, ContainerMoves

\* A call that is lost.
LEMMA LoseKeeps ==
  ASSUME RemoteInv, NEW k \in Containers, container[k].step # "idle", Lose(k),
         NEW r \in ContainerRecord, container' = [container EXCEPT ![k] = r], r.step = "idle",
         r.log = container[k].log \/ DOMAIN r.log = {}, origin' = origin
  PROVE  RemoteInv'
<1>1. PICK n : n = container[k].call
  OBVIOUS
<1>2. n \in DOMAIN calls /\ calls[n] \in CallRecord
  BY <1>1, LawfulIs
<1>3. PICK c : c = [calls[n] EXCEPT !.state = "lost"]
  OBVIOUS
<1>4. c \in CallRecord /\ c.of = calls[n].of /\ c.state = "lost"
  BY <1>2, <1>3 DEF CallRecord
<1>5. calls' = [calls EXCEPT ![n] = c]
  BY <1>1, <1>3 DEF Lose
<1>6. ResultTrue(n, c)
  BY <1>4 DEF ResultTrue
<1>7. QED
  BY <1>1, <1>4, <1>5, <1>6, IsDone

LEMMA RestIs ==
  ASSUME NEW k \in Containers, container \in [Containers -> ContainerRecord], Rest(k)
  PROVE  \E r \in ContainerRecord : /\ container' = [container EXCEPT ![k] = r] /\ r.step = "idle"
                                    /\ r.log = container[k].log
<1>1. PICK r : r = [container[k] EXCEPT !.step = "idle", !.call = 0, !.code = 0]
  OBVIOUS
<1>2. r \in ContainerRecord /\ r.step = "idle" /\ r.log = container[k].log
  BY <1>1 DEF ContainerRecord, Steps
<1>3. container' = [container EXCEPT ![k] = r]
  BY <1>1 DEF Rest
<1>4. QED
  BY <1>2, <1>3

LEMMA EntryIsIn ==
  ASSUME NEW X, NEW s \in Seq(X), NEW i \in DOMAIN s
  PROVE  s[i] \in X
  OBVIOUS

\* What a payload says of a log that speaks of call n only.
LEMMA ResultIs ==
  ASSUME NEW q \in Requests, NEW code \in Nat, NEW log \in Seq([line : Lines, of : Nat])
  PROVE  LET b == BuildResult(q, code, log)
         IN  /\ b \in Result
             /\ \A n : (\A i \in DOMAIN log : log[i].of = n) => {b.session, b.branch} \subseteq {0, n}
             /\ Shipped(b) => \E i \in DOMAIN log : log[i].line = "pushed" /\ log[i].of = b.branch
<1>1. PICK b : b = BuildResult(q, code, log)
  OBVIOUS
<1>2. PICK s : s = LastOf(log, {"id"})
  OBVIOUS
<1>3. PICK p : p = LastOf(log, {"pushed", "unpushed"})
  OBVIOUS
<1>4. s = 0 \/ \E i \in DOMAIN log : s = log[i].of
  BY <1>2, LastOfIs
<1>5. p = 0 \/ \E i \in DOMAIN log : p = log[i].of /\ log[i].line \in {"pushed", "unpushed"}
  BY <1>3, LastOfIs
<1>6. s \in Nat /\ p \in Nat
  <2>1. \A i \in DOMAIN log : log[i] \in [line : Lines, of : Nat]
    BY EntryIsIn
  <2>2. \A i \in DOMAIN log : log[i].of \in Nat
    BY <2>1
  <2>3. QED
    BY <1>4, <1>5, <2>2
<1>7. /\ b.code = code /\ b.session = s /\ b.branch = p
      /\ b.note = "" => p = 0 \/ \A i \in DOMAIN log : log[i].line # "unpushed"
      /\ b \in [code : {code}, session : {s}, branch : {p}, note : {"", "no hand-back", "unpushed"}]
  BY <1>1, <1>2, <1>3 DEF BuildResult
<1>8. b \in Result
  BY <1>6, <1>7 DEF Result
<1>9. \A n : (\A i \in DOMAIN log : log[i].of = n) => {b.session, b.branch} \subseteq {0, n}
  BY <1>4, <1>5, <1>7
<1>10. Shipped(b) => \E i \in DOMAIN log : log[i].line = "pushed" /\ log[i].of = b.branch
  BY <1>5, <1>7 DEF Shipped
<1>11. QED
  BY <1>1, <1>8, <1>9, <1>10

LEMMA ReturnKeeps ==
  ASSUME RemoteInv, NEW k \in Containers, container[k].step \in {"guard", "read"},
         NEW code \in Nat, NEW log, log = <<>> \/ (container[k].step = "read" /\ log = container[k].log),
         Return(k, BuildResult(Of(k), code, log)), Rest(k), origin' = origin
  PROVE  RemoteInv'
<1>1. PICK n : n = container[k].call
  OBVIOUS
<1>2. /\ n \in DOMAIN calls /\ calls[n] \in CallRecord /\ container[k] \in ContainerRecord
      /\ Lawful(container[k], calls[n], n) /\ Of(k) = calls[n].of
  BY <1>1, LawfulIs DEF Of
<1>3. PICK q : q = calls[n].of
  OBVIOUS
<1>4. q \in Requests
  BY <1>2, <1>3 DEF CallRecord
<1>5. log \in Seq([line : Lines, of : Nat])
  <2>1. container[k].log \in Seq([line : Lines, of : Nat])
    BY <1>2 DEF ContainerRecord
  <2>2. <<>> \in Seq([line : Lines, of : Nat])
    OBVIOUS
  <2>3. QED
    BY <2>1, <2>2
<1>6. PICK b : b = BuildResult(q, code, log)
  OBVIOUS
<1>7. /\ b \in Result
      /\ (\A i \in DOMAIN log : log[i].of = n) => {b.session, b.branch} \subseteq {0, n}
      /\ Shipped(b) => \E i \in DOMAIN log : log[i].line = "pushed" /\ log[i].of = b.branch
  BY <1>4, <1>5, <1>6, ResultIs
<1>8. ~calls[n].kept => \A i \in DOMAIN log : log[i].of = n
  BY <1>2 DEF Lawful
<1>9. \A i \in DOMAIN log : log[i].line = "pushed" => OnOrigin(log[i].of)
  BY DEF RemoteInv, PushedLines
<1>10. PICK c : c = [calls[n] EXCEPT !.state = "returned", !.result = b]
  OBVIOUS
<1>11. c \in CallRecord /\ c.of = calls[n].of /\ c.result = b /\ c.kept = calls[n].kept
  BY <1>2, <1>7, <1>10 DEF CallRecord
<1>12. ResultTrue(n, c)
  <2>1. CASE c.kept
    BY <2>1 DEF ResultTrue
  <2>2. CASE ~c.kept
    <3>1. {b.session, b.branch} \subseteq {0, n}
      BY <1>7, <1>8, <1>11, <2>2
    <3>2. Shipped(b) => OnOrigin(n)
      BY <1>7, <1>8, <1>9, <1>11, <2>2
    <3>3. QED
      BY <1>11, <3>1, <3>2 DEF ResultTrue
  <2>3. QED
    BY <2>1, <2>2
<1>13. calls' = [calls EXCEPT ![n] = c]
  BY <1>1, <1>2, <1>3, <1>6, <1>10 DEF Return
<1>14. PICK r \in ContainerRecord : /\ container' = [container EXCEPT ![k] = r] /\ r.step = "idle" /\ r.log = container[k].log
  BY RestIs DEF RemoteInv, RemoteTyped
<1>15. QED
  BY <1>1, <1>11, <1>12, <1>13, <1>14, IsDone

\* Steps that leave the log and the clone as they are.
LEMMA PlainStep ==
  ASSUME RemoteInv, NEW k \in Containers, container[k].step # "idle", NEW r \in ContainerRecord,
         container' = [container EXCEPT ![k] = r], r.step # "idle", r.call = container[k].call,
         r.log = container[k].log, r.scratch = container[k].scratch,
         container[k].step \in {"guard", "reset"} => r.step \in {"guard", "reset"},
         r.step \in {"child", "prepare", "work", "ship", "pushed", "unpushed"} => InChild(k) \/ ~Cloned(k),
         calls' = calls, origin \subseteq origin', r.step = "pushed" => OnOrigin(container[k].call)'
  PROVE  RemoteInv'
<1>1. PICK n : n = container[k].call
  OBVIOUS
<1>2. Lawful(container[k], calls[n], n)
  BY <1>1, LawfulIs
<1>3. Lawful(r, calls[n], n)
  BY <1>1, <1>2 DEF Lawful, InChild, Cloned, Of
<1>4. r.step = "pushed" => OnOrigin(n)'
  <2>1. OnOrigin(container[k].call)' = OnOrigin(r.call)'
    BY DEF RemoteInv, RemoteTyped
  <2>2. QED
    BY <1>1, <2>1
<1>5. QED
  BY <1>1, <1>3, <1>4, GoesOn

LEMMA GoKeeps ==
  ASSUME RemoteInv, NEW k \in Containers, container[k].step # "idle", NEW to \in Steps \ {"idle"}, Go(k, to),
         container[k].step \in {"guard", "reset"} => to \in {"guard", "reset"},
         to \in {"child", "prepare", "work", "ship", "unpushed"} => InChild(k) \/ ~Cloned(k), to # "pushed",
         calls' = calls, origin' = origin
  PROVE  RemoteInv'
<1>1. PICK r : r = [container[k] EXCEPT !.step = to]
  OBVIOUS
<1>2. container[k] \in ContainerRecord
  BY LawfulIs
<1>3. /\ r \in ContainerRecord /\ r.step = to /\ r.call = container[k].call /\ r.log = container[k].log
      /\ r.scratch = container[k].scratch
  BY <1>1, <1>2 DEF ContainerRecord
<1>4. container' = [container EXCEPT ![k] = r]
  BY <1>1 DEF Go
<1>5. QED
  BY <1>3, <1>4, PlainStep

LEMMA GuardKeeps == ASSUME RemoteInv, NEW k \in Containers, Guard(k) PROVE RemoteInv'
<1>1. container[k].step = "guard" /\ origin' = origin
  BY DEF Guard
<1>2. CASE Return(k, BuildResult(Of(k), 2, <<>>)) /\ Rest(k)
  BY <1>1, <1>2, ReturnKeeps
<1>3. CASE Go(k, "reset") /\ UNCHANGED calls
  BY <1>1, <1>3, GoKeeps DEF Steps
<1>4. QED
  BY <1>2, <1>3 DEF Guard

LEMMA ResetKeeps == ASSUME RemoteInv, NEW k \in Containers, ResetLog(k) PROVE RemoteInv'
<1>1. container[k].step = "reset" /\ origin' = origin
  BY DEF ResetLog
<1>2. PICK n : n = container[k].call
  OBVIOUS
<1>3. container[k] \in ContainerRecord /\ n \in DOMAIN calls /\ calls[n] \in CallRecord /\ calls[n].state = "running"
  BY <1>1, <1>2, LawfulIs
<1>4. CASE container' = [container EXCEPT ![k].step = "setup", ![k].log = <<>>] /\ UNCHANGED calls
  <2>1. PICK r : r = [container[k] EXCEPT !.step = "setup", !.log = <<>>]
    OBVIOUS
  <2>2. r.step = "setup" /\ r.call = n /\ r.log = <<>> /\ DOMAIN r.log = {} /\ r \in ContainerRecord
    <3>1. <<>> \in Seq([line : Lines, of : Nat]) /\ DOMAIN <<>> = {}
      OBVIOUS
    <3>2. r.step = "setup" /\ r.call = n /\ r.log = <<>>
      BY <1>2, <1>3, <2>1 DEF ContainerRecord
    <3>3. r \in ContainerRecord
      BY <1>3, <2>1, <3>1 DEF ContainerRecord, Steps
    <3>4. QED
      BY <3>1, <3>2, <3>3
  <2>3. container' = [container EXCEPT ![k] = r]
    BY <1>4, <2>1
  <2>4. Lawful(r, calls[n], n)
    BY <2>2 DEF Lawful
  <2>5. QED
    BY <1>1, <1>2, <1>4, <2>2, <2>3, <2>4, GoesOn
<1>5. CASE Go(k, "setup") /\ calls' = [calls EXCEPT ![container[k].call].kept = TRUE]
  <2>1. PICK r : r = [container[k] EXCEPT !.step = "setup"]
    OBVIOUS
  <2>2. /\ r.step = "setup" /\ r.call = n /\ r.log = container[k].log /\ r \in ContainerRecord
    BY <1>2, <1>3, <2>1 DEF ContainerRecord, Steps
  <2>3. container' = [container EXCEPT ![k] = r]
    BY <1>5, <2>1 DEF Go
  <2>4. PICK c : c = [calls[n] EXCEPT !.kept = TRUE]
    OBVIOUS
  <2>5. c \in CallRecord /\ c.of = calls[n].of /\ c.state = "running" /\ c.kept
    BY <1>3, <2>4 DEF CallRecord
  <2>6. calls' = [calls EXCEPT ![n] = c]
    BY <1>2, <1>5, <2>4
  <2>7. Lawful(r, c, n) /\ ResultTrue(n, c)'
    BY <2>2, <2>5 DEF Lawful, ResultTrue
  <2>8. \A i \in DOMAIN r.log : r.log[i].line = "pushed" => OnOrigin(r.log[i].of)'
    BY <1>1, <2>2 DEF RemoteInv, PushedLines, OnOrigin
  <2>9. QED
    BY <1>1, <1>2, <2>2, <2>3, <2>5, <2>6, <2>7, <2>8, ContainerMoves
<1>6. QED
  BY <1>4, <1>5 DEF ResetLog

LEMMA CloneKeeps ==
  ASSUME RemoteInv, NEW k \in Containers, CloneForNoneMode(k)
  PROVE  RemoteInv'
<1>1. container[k].step = "setup" /\ origin' = origin /\ Cloned(k)
  BY DEF CloneForNoneMode
<1>2. PICK n : n = container[k].call
  OBVIOUS
<1>3. /\ container[k] \in ContainerRecord /\ n \in DOMAIN calls /\ calls[n] \in CallRecord
      /\ Lawful(container[k], calls[n], n)
  BY <1>1, <1>2, LawfulIs
<1>4. CASE container' = [container EXCEPT ![k].step = "child", ![k].scratch = [repo |-> Of(k).repo, work |-> {}]]
           /\ UNCHANGED calls
  <2>1. PICK r : r = [container[k] EXCEPT !.step = "child", !.scratch = [repo |-> Of(k).repo, work |-> {}]]
    OBVIOUS
  <2>2. calls[n].of.repo \in Repos \union {NoRepo} /\ Of(k) = calls[n].of
    BY <1>2, <1>3, RemoteAssumption DEF CallRecord, Of
  <2>3. r.step = "child" /\ r.call = n /\ r.log = container[k].log /\ r.scratch = [repo |-> calls[n].of.repo, work |-> {}]
    BY <1>2, <1>3, <2>1, <2>2 DEF ContainerRecord
  <2>4. r \in ContainerRecord
    BY <1>3, <2>1, <2>2 DEF ContainerRecord, Steps, Tree
  <2>5. container' = [container EXCEPT ![k] = r]
    BY <1>4, <2>1
  <2>6. Lawful(r, calls[n], n)
    BY <1>1, <1>3, <2>3 DEF Lawful
  <2>7. QED
    BY <1>1, <1>2, <1>4, <2>3, <2>4, <2>5, <2>6, GoesOn
<1>5. CASE container' = [container EXCEPT ![k].step = "idle", ![k].call = 0, ![k].scratch = NoTree] /\ Lose(k)
  <2>1. PICK r : r = [container[k] EXCEPT !.step = "idle", !.call = 0, !.scratch = NoTree]
    OBVIOUS
  <2>2. NoTree \in Tree
    BY DEF NoTree, Tree
  <2>3. r \in ContainerRecord /\ r.step = "idle" /\ r.log = container[k].log
    BY <1>3, <2>1, <2>2 DEF ContainerRecord, Steps
  <2>4. container' = [container EXCEPT ![k] = r]
    BY <1>5, <2>1
  <2>5. QED
    BY <1>1, <1>5, <2>3, <2>4, LoseKeeps
<1>6. QED
  BY <1>4, <1>5 DEF CloneForNoneMode

LEMMA LogKeeps ==
  ASSUME RemoteInv, NEW k \in Containers, InChild(k), NEW what \in Lines, NEW to \in {"prepare", "read"},
         Log(k, what, to), what = "pushed" => container[k].step = "pushed", calls' = calls, origin' = origin
  PROVE  RemoteInv'
<1>1. PICK n : n = container[k].call
  OBVIOUS
<1>2. container[k] \in ContainerRecord /\ container[k].step # "idle" /\ Lawful(container[k], calls[n], n)
  BY <1>1, LawfulIs DEF InChild
<1>3. PICK r : r = [container[k] EXCEPT !.step = to, !.log = Append(@, [line |-> what, of |-> n])]
  OBVIOUS
<1>4. PICK old : old = container[k].log
  OBVIOUS
<1>5. old \in Seq([line : Lines, of : Nat]) /\ n \in Nat
  BY <1>1, <1>2, <1>4 DEF ContainerRecord
<1>6. PICK new : new = Append(old, [line |-> what, of |-> n])
  OBVIOUS
<1>7. /\ new \in Seq([line : Lines, of : Nat]) /\ DOMAIN new = DOMAIN old \union {Len(old) + 1}
      /\ new[Len(old) + 1] = [line |-> what, of |-> n] /\ \A i \in DOMAIN old : new[i] = old[i]
  BY <1>5, <1>6
<1>8. /\ r.step = to /\ r.call = n /\ r.log = new /\ r.scratch = container[k].scratch
  BY <1>1, <1>2, <1>3, <1>4, <1>6 DEF ContainerRecord
<1>9. r \in ContainerRecord
  BY <1>2, <1>3, <1>4, <1>6, <1>7 DEF ContainerRecord, Steps
<1>10. container' = [container EXCEPT ![k] = r]
  BY <1>1, <1>3 DEF Log
<1>11. Lawful(r, calls[n], n)
  <2>1. ~calls[n].kept => \A i \in DOMAIN old : old[i].of = n
    <3>1. container[k].step \notin {"idle", "guard", "reset"}
      BY DEF InChild
    <3>2. QED
      BY <1>2, <1>4, <3>1 DEF Lawful
  <2>2. ~calls[n].kept => \A i \in DOMAIN new : new[i].of = n
    BY <1>7, <2>1
  <2>3. QED
    BY <1>2, <1>8, <2>2 DEF Lawful, InChild
<1>12. \A i \in DOMAIN new : new[i].line = "pushed" => OnOrigin(new[i].of)'
  <2>1. \A i \in DOMAIN old : old[i].line = "pushed" => OnOrigin(old[i].of)
    BY <1>4 DEF RemoteInv, PushedLines
  <2>2. what = "pushed" => OnOrigin(n)
    BY <1>1 DEF RemoteInv, PushedLines
  <2>3. QED
    BY <1>7, <2>1, <2>2 DEF OnOrigin
<1>13. QED
  BY <1>1, <1>2, <1>8, <1>9, <1>10, <1>11, <1>12, GoesOn

LEMMA StartUpKeeps ==
  ASSUME RemoteInv, NEW k \in Containers, CredentialFails(k) \/ NoCloneNeeded(k) \/ ChildStart(k) \/ LogPush(k)
  PROVE  RemoteInv'
<1>1. CASE CredentialFails(k)
  <2>1. container[k].step # "idle" /\ Lose(k) /\ Rest(k) /\ origin' = origin
    BY <1>1 DEF CredentialFails
  <2>2. PICK r \in ContainerRecord : /\ container' = [container EXCEPT ![k] = r] /\ r.step = "idle" /\ r.log = container[k].log
    BY <2>1, RestIs DEF RemoteInv, RemoteTyped
  <2>3. QED
    BY <2>1, <2>2, LoseKeeps
<1>2. CASE NoCloneNeeded(k)
  BY <1>2, GoKeeps DEF NoCloneNeeded, Steps
<1>3. CASE ChildStart(k)
  <2>1. container[k].step = "child" /\ InChild(k) /\ calls' = calls /\ origin' = origin
    BY <1>3 DEF ChildStart, InChild
  <2>2. CASE Log(k, "id", "prepare")
    BY <2>1, <2>2, LogKeeps DEF Lines
  <2>3. CASE Go(k, "prepare")
    BY <2>1, <2>3, GoKeeps DEF Steps
  <2>4. QED
    BY <1>3, <2>2, <2>3 DEF ChildStart
<1>4. CASE LogPush(k)
  <2>1. /\ container[k].step \in {"pushed", "unpushed"} /\ InChild(k) /\ calls' = calls /\ origin' = origin
        /\ Log(k, container[k].step, "read")
    BY <1>4 DEF LogPush, InChild
  <2>2. PICK what : what = container[k].step
    OBVIOUS
  <2>3. QED
    BY <2>1, <2>2, LogKeeps DEF Lines
<1>5. QED
  BY <1>1, <1>2, <1>3, <1>4

LEMMA PrepareKeeps ==
  ASSUME RemoteInv, NEW k \in Containers, PrepareWorkspace(k)
  PROVE  RemoteInv'
<1>1. container[k].step = "prepare" /\ InChild(k) /\ calls' = calls /\ origin' = origin
  BY DEF PrepareWorkspace, InChild
<1>2. PICK n : n = container[k].call
  OBVIOUS
<1>3. container[k] \in ContainerRecord /\ n \in DOMAIN calls /\ calls[n] \in CallRecord
  BY <1>1, <1>2, LawfulIs
<1>4. CASE Go(k, "work")
  BY <1>1, <1>4, GoKeeps DEF Steps
<1>5. CASE container' = [container EXCEPT ![k].step = "work", ![k].ws = [repo |-> Of(k).repo, work |-> {}]]
  <2>1. PICK r : r = [container[k] EXCEPT !.step = "work", !.ws = [repo |-> Of(k).repo, work |-> {}]]
    OBVIOUS
  <2>2. [repo |-> Of(k).repo, work |-> {}] \in Tree
    BY <1>2, <1>3, RemoteAssumption DEF CallRecord, Of, Tree
  <2>3. /\ r.step = "work" /\ r.call = n /\ r.log = container[k].log /\ r.scratch = container[k].scratch
        /\ r \in ContainerRecord
    BY <1>2, <1>3, <2>1, <2>2 DEF ContainerRecord, Steps
  <2>4. container' = [container EXCEPT ![k] = r]
    BY <1>5, <2>1
  <2>5. QED
    BY <1>1, <1>2, <2>3, <2>4, PlainStep
<1>6. CASE container' = [container EXCEPT ![k].step = "read", ![k].code = 1]
  <2>1. PICK r : r = [container[k] EXCEPT !.step = "read", !.code = 1]
    OBVIOUS
  <2>2. /\ r.step = "read" /\ r.call = n /\ r.log = container[k].log /\ r.scratch = container[k].scratch
        /\ r \in ContainerRecord
    BY <1>2, <1>3, <2>1 DEF ContainerRecord, Steps
  <2>3. container' = [container EXCEPT ![k] = r]
    BY <1>6, <2>1
  <2>4. QED
    BY <1>1, <1>2, <2>2, <2>3, PlainStep
<1>7. QED
  BY <1>4, <1>5, <1>6 DEF PrepareWorkspace

LEMMA WorkKeeps ==
  ASSUME RemoteInv, NEW k \in Containers, Work(k)
  PROVE  RemoteInv'
<1>1. container[k].step = "work" /\ InChild(k) /\ calls' = calls /\ origin' = origin
  BY DEF Work, InChild
<1>2. PICK n : n = container[k].call
  OBVIOUS
<1>3. /\ container[k] \in ContainerRecord /\ n \in DOMAIN calls /\ calls[n] \in CallRecord /\ n \in Nat
      /\ Lawful(container[k], calls[n], n) /\ Of(k) = calls[n].of
  BY <1>1, <1>2, LawfulIs DEF Of, ContainerRecord
<1>4. PICK code \in {0, 1}, done \in {{}, {n}} :
        container' = [container EXCEPT ![k].step = "ship", ![k].code = code,
                        ![k].scratch.work = IF Cloned(k) THEN @ \union done ELSE @,
                        ![k].ws.work = IF Of(k).mode = "modal" /\ container[k].ws # NoTree THEN @ \union done ELSE @]
  BY <1>2 DEF Work
<1>5. PICK a, b :
        /\ a = IF Cloned(k) THEN container[k].scratch.work \union done ELSE container[k].scratch.work
        /\ b = IF Of(k).mode = "modal" /\ container[k].ws # NoTree THEN container[k].ws.work \union done
              ELSE container[k].ws.work
  OBVIOUS
<1>6. PICK mine, theirs : mine = [container[k].scratch EXCEPT !.work = a] /\ theirs = [container[k].ws EXCEPT !.work = b]
  OBVIOUS
<1>7. mine \in Tree /\ theirs \in Tree /\ done \subseteq {n}
      /\ mine.repo = container[k].scratch.repo /\ mine.work \subseteq container[k].scratch.work \union {n}
  BY <1>3, <1>5, <1>6 DEF ContainerRecord, Tree
<1>8. PICK r : r = [container[k] EXCEPT !.step = "ship", !.code = code, !.scratch = mine, !.ws = theirs]
  OBVIOUS
<1>9. r.step = "ship" /\ r.call = n /\ r.log = container[k].log /\ r.scratch = mine /\ r \in ContainerRecord
  <2>1. r.step = "ship" /\ r.call = n /\ r.log = container[k].log /\ r.scratch = mine
    BY <1>2, <1>3, <1>8 DEF ContainerRecord
  <2>2. {mine, theirs} \subseteq Tree /\ code \in Nat
    BY <1>7
  <2>3. r \in ContainerRecord
    BY <1>3, <1>8, <2>2 DEF ContainerRecord, Steps
  <2>4. QED
    BY <2>1, <2>3
<1>10. container' = [container EXCEPT ![k] = r]
  <2>1. container' = [container EXCEPT ![k].step = "ship", ![k].code = code, ![k].scratch.work = a, ![k].ws.work = b]
    BY <1>4, <1>5
  <2>2. QED
    BY <1>6, <1>8, <2>1
<1>11. Lawful(r, calls[n], n)
  BY <1>1, <1>3, <1>7, <1>9 DEF Lawful
<1>12. QED
  BY <1>1, <1>2, <1>9, <1>10, <1>11, GoesOn

LEMMA PushKeeps ==
  ASSUME RemoteInv, NEW k \in Containers, Push(k)
  PROVE  RemoteInv'
<1>1. container[k].step = "ship" /\ InChild(k) /\ calls' = calls
  BY DEF Push, InChild
<1>2. CASE origin' = origin /\ \E to \in {"read", "unpushed"} : Go(k, to)
  BY <1>1, <1>2, GoKeeps DEF Steps
<1>3. CASE Go(k, "pushed") /\ OnOrigin(container[k].call)' /\ origin \subseteq origin'
  <2>1. PICK r : r = [container[k] EXCEPT !.step = "pushed"]
    OBVIOUS
  <2>2. container[k] \in ContainerRecord
    BY <1>1, LawfulIs
  <2>3. /\ r \in ContainerRecord /\ r.step = "pushed" /\ r.call = container[k].call /\ r.log = container[k].log
        /\ r.scratch = container[k].scratch
    BY <2>1, <2>2 DEF ContainerRecord, Steps
  <2>4. container' = [container EXCEPT ![k] = r]
    BY <1>3, <2>1 DEF Go
  <2>5. QED
    BY <1>1, <1>3, <2>3, <2>4, PlainStep
<1>4. ASSUME Go(k, "pushed"), NEW t, origin' = origin \union {[repo |-> t.repo, branch |-> container[k].call, work |-> t.work]}
      PROVE  OnOrigin(container[k].call)' /\ origin \subseteq origin'
  <2>1. container'[k].call = container[k].call
    <3>1. container \in [Containers -> ContainerRecord] /\ container[k] \in ContainerRecord
      BY DEF RemoteInv, RemoteTyped
    <3>2. QED
      BY <1>4, <3>1 DEF Go, ContainerRecord
  <2>2. PICK b : b = [repo |-> t.repo, branch |-> container[k].call, work |-> t.work]
    OBVIOUS
  <2>3. b \in origin' /\ b.branch = container'[k].call
    BY <1>4, <2>1, <2>2
  <2>4. QED
    BY <1>4, <2>3 DEF OnOrigin
<1>5. QED
  BY <1>2, <1>3, <1>4 DEF Push

LEMMA KillKeeps ==
  ASSUME RemoteInv, NEW k \in Containers, TimerKill(k) \/ ReadBack(k) \/ Ceiling(k) \/ Die(k)
  PROVE  RemoteInv'
<1>1. CASE TimerKill(k)
  <2>1. InChild(k) /\ container[k].step # "idle" /\ calls' = calls /\ origin' = origin
    BY <1>1 DEF TimerKill, InChild
  <2>2. PICK r : r = [container[k] EXCEPT !.step = "read", !.code = 247]
    OBVIOUS
  <2>3. container[k] \in ContainerRecord
    BY <2>1, LawfulIs
  <2>4. /\ r \in ContainerRecord /\ r.step = "read" /\ r.call = container[k].call /\ r.log = container[k].log
        /\ r.scratch = container[k].scratch
    <3>1. 247 \in Nat /\ "read" \in Steps
      BY DEF Steps
    <3>2. r \in ContainerRecord
      BY <2>2, <2>3, <3>1 DEF ContainerRecord
    <3>3. QED
      BY <2>2, <2>3, <3>2 DEF ContainerRecord
  <2>5. container' = [container EXCEPT ![k] = r]
    <3>1. container' = [container EXCEPT ![k].step = "read", ![k].code = 247]
      BY <1>1 DEF TimerKill
    <3>2. QED
      BY <2>2, <3>1
  <2>6. container[k].step \notin {"guard", "reset"}
    BY <2>1 DEF InChild
  <2>7. QED
    BY <2>1, <2>4, <2>5, <2>6, PlainStep
<1>2. CASE ReadBack(k)
  <2>1. /\ container[k].step = "read" /\ Rest(k) /\ origin' = origin
        /\ Return(k, BuildResult(Of(k), container[k].code, container[k].log))
    BY <1>2 DEF ReadBack
  <2>2. PICK code, log : code = container[k].code /\ log = container[k].log
    OBVIOUS
  <2>3. code \in Nat
    BY <2>1, <2>2, LawfulIs DEF ContainerRecord
  <2>4. Return(k, BuildResult(Of(k), code, log))
    BY <2>1, <2>2
  <2>5. QED
    BY <2>1, <2>2, <2>3, <2>4, ReturnKeeps
<1>3. CASE Ceiling(k) \/ Die(k)
  <2>1. container[k].step # "idle" /\ Lose(k) /\ container' = [container EXCEPT ![k] = Cold] /\ origin' = origin
    BY <1>3 DEF Ceiling, Die
  <2>2. QED
    BY <2>1, ColdIs, LoseKeeps
<1>4. QED
  BY <1>1, <1>2, <1>3

LEMMA RemoteStep == RemoteInv /\ [RemoteNext]_remoteVars => RemoteInv'
<1> SUFFICES ASSUME RemoteInv, [RemoteNext]_remoteVars PROVE RemoteInv'
  OBVIOUS
<1>1. CASE Commanded
  <2>1. PICK q \in Requests : RunCommand(q) \/ Trigger(q) \/ \E n \in 1 .. MaxAttempts : AttemptsCommand(n, q)
    BY <1>1 DEF Commanded
  <2>2. PICK n \in Nat : Spawn(q, n) /\ UNCHANGED <<container, origin>>
    <3>1. CASE RunCommand(q) \/ Trigger(q)
      BY <3>1 DEF RunCommand, Trigger
    <3>2. CASE \E n \in 1 .. MaxAttempts : AttemptsCommand(n, q)
      <4>1. PICK n \in 1 .. MaxAttempts : AttemptsCommand(n, q)
        BY <3>2
      <4>2. \/ Spawn(q, n)
            \/ \E m \in 1 .. n - 1 : Spawn(q, m)
        BY <4>1 DEF AttemptsCommand
      <4>3. UNCHANGED <<container, origin>>
        BY <4>1 DEF AttemptsCommand
      <4>4. QED
        BY <4>2, <4>3
    <3>3. QED
      BY <2>1, <3>1, <3>2
  <2>3. QED
    BY <2>2, CallsGrow
<1>2. CASE Schedule
  BY <1>2, StartKeeps DEF Schedule
<1>3. CASE \E k \in Containers : Retire(k) \/ Prompt(k) \/ Slow(k) \/ TimerKill(k) \/ Ceiling(k) \/ Die(k)
  <2>1. PICK k \in Containers : Retire(k) \/ Prompt(k) \/ Slow(k) \/ TimerKill(k) \/ Ceiling(k) \/ Die(k)
    BY <1>3
  <2>2. CASE Retire(k)
    BY <2>2, RetireKeeps
  <2>3. CASE Prompt(k)
    BY <2>3, GuardKeeps, ResetKeeps, StartUpKeeps, KillKeeps DEF Prompt
  <2>4. CASE Slow(k)
    BY <2>4, StartUpKeeps, CloneKeeps, PrepareKeeps, WorkKeeps, PushKeeps DEF Slow
  <2>5. CASE TimerKill(k) \/ Ceiling(k) \/ Die(k)
    BY <2>5, KillKeeps
  <2>6. QED
    BY <2>1, <2>2, <2>3, <2>4, <2>5
<1>4. CASE FinishRun \/ Collect \/ PrintTable \/ UNCHANGED remoteVars
  BY <1>4, NothingMoves DEF FinishRun, Collect, PrintTable, remoteVars
<1>5. QED
  BY <1>1, <1>2, <1>3, <1>4 DEF RemoteNext

\* For any containers, requests and triggers: whatever a warm container still holds, and wherever
\* a clone, a push or the container itself is lost, a payload speaks of its own call and says it
\* was shipped only when its branch is on the origin (remote/headless.py, build_result,
\* reset_child_log, clone_for_none_mode).
THEOREM RemotePayloadIsTrue == RemoteSpec => []PayloadIsTrue
<1>1. QED
  BY RemoteStarts, RemoteStep, RemoteInvImplies, PTL DEF RemoteSpec

-----------------------------------------------------------------------------
(* The git hand-back *)

\* Behind is a recursive function, and what its definition chooses is as good as any that
\* there is: the commits that are in every set which has n and the parents of all it has.
LEMMA Ancestry ==
  ASSUME NEW cs, Len(cs) \in Nat, \A n \in 1 .. Len(cs) : cs[n].parent \in 0 .. (n - 1),
         NEW up, up = CHOOSE g : g = [n \in 0 .. Len(cs) |-> IF n = 0 THEN {} ELSE {n} \union g[cs[n].parent]]
  PROVE  \A n \in 1 .. Len(cs) : up[n] = {n} \union up[cs[n].parent]
<1> DEFINE N == 0 .. Len(cs)
           Closed(S) == \A n \in S \ {0} : cs[n].parent \in S
           f == [n \in N |-> {k \in 1 .. Len(cs) : \A S \in SUBSET N : n \in S /\ Closed(S) => k \in S}]
           Def(g, n) == IF n = 0 THEN {} ELSE {n} \union g[cs[n].parent]
<1>1. f[0] = {}
  <2>1. {0} \in SUBSET N /\ Closed({0})
    OBVIOUS
  <2>2. 0 \in N /\ ~ \E k \in 1 .. Len(cs) : k \in {0}
    OBVIOUS
  <2>3. QED
    BY <2>1, <2>2
<1>2. ASSUME NEW n \in 1 .. Len(cs) PROVE f[n] = {n} \union f[cs[n].parent]
  <2> DEFINE p == cs[n].parent
  <2>1. p \in N /\ n \in N /\ n # 0
    OBVIOUS
  <2>2. ASSUME NEW k \in f[n], k # n PROVE k \in f[p]
    <3>1. k \in 1 .. Len(cs) /\ \A S \in SUBSET N : n \in S /\ Closed(S) => k \in S
      BY <2>1, <2>2
    <3>2. ASSUME NEW S \in SUBSET N, p \in S, Closed(S) PROVE k \in S
      <4>1. S \union {n} \in SUBSET N /\ Closed(S \union {n})
        BY <2>1, <3>2
      <4>2. k \in S \union {n}
        BY <3>1, <4>1
      <4>3. QED
        BY <2>2, <4>2
    <3>3. QED
      BY <2>1, <3>1, <3>2
  <2>3. ASSUME NEW k \in f[p] PROVE k \in f[n]
    <3>1. k \in 1 .. Len(cs) /\ \A S \in SUBSET N : p \in S /\ Closed(S) => k \in S
      BY <2>1, <2>3
    <3>2. ASSUME NEW S \in SUBSET N, n \in S, Closed(S) PROVE k \in S
      BY <2>1, <3>1, <3>2
    <3>3. QED
      BY <2>1, <3>1, <3>2
  <2>4. n \in f[n]
    BY <2>1
  <2> HIDE DEF f, p
  <2>5. f[n] = {n} \union f[p]
    BY <2>2, <2>3, <2>4
  <2>6. QED
    BY <2>5 DEF p
<1>3. \A n \in N : f[n] = Def(f, n)
  <2>1. \A n \in N : n = 0 \/ n \in 1 .. Len(cs)
    OBVIOUS
  <2>2. QED
    BY <1>1, <1>2, <2>1
<1>4. f = [n \in N |-> Def(f, n)]
  <2> HIDE DEF Def
  <2>1. QED
    BY <1>3
<1> HIDE DEF f
<1>5. up = [n \in N |-> Def(up, n)]
  BY <1>4, Zenon
<1>6. \A n \in 1 .. Len(cs) : n \in N /\ n # 0
  OBVIOUS
<1>7. QED
  BY <1>5, <1>6

Commit == [parent : Nat, files : SUBSET Files]
CopyOf(length) == [branch : [Branches -> 0 .. length], head : Branches, work : SUBSET Files]
Ordered(cs) == \A n \in 1 .. Len(cs) : cs[n].parent \in 0 .. (n - 1)

\* What the capture must leave to the push: the worktree is committed where the branch
\* checked out stands, if git answered, and there the session branch is pointed.  A hand-back gets so far
\* only in a repository of its own.
HandInv ==
    /\ commits \in Seq(Commit) /\ Len(commits) >= 1 /\ commits[1].files = Tracked /\ Ordered(commits)
    /\ copies \in [{"box", "host"} -> CopyOf(Len(commits))]
    /\ Tip(Box) # NoCommit /\ Tip(Host) # NoCommit
    /\ DOMAIN remote = Range0 /\ current \in DOMAIN Sessions /\ cloned \in BOOLEAN
    /\ phase \in {"idle", "shipping", "exiting", "exited", "crashed"}
    /\ step \in {"none", "export", "check", "secure", "point", "push"}
    /\ phase \in {"shipping", "exiting"} <=> step # "none"
    /\ step \in {"secure", "point", "push"} => cloned
    /\ step \in {"point", "push"} => unanswered \/ ~Dirty(Host)
    /\ step = "push" => Host.branch[Branch] = Tip(Host)
    /\ ~outside

LEMMA BranchIs == current \in DOMAIN Sessions => Branch \in Branches
  BY DEF Branch, Branches, Range0, Range

\* A longer history has room for the same copies.
LEMMA CopyGrows ==
  ASSUME NEW n \in Nat, NEW m \in Nat, n <= m, NEW w \in CopyOf(n)
  PROVE  w \in CopyOf(m)
  BY DEF CopyOf

\* A side is put, and the other one keeps what it held or is the same directory.
LEMMA PutIs ==
  ASSUME NEW n \in Nat, copies \in [{"box", "host"} -> CopyOf(n)], NEW m \in Nat, n <= m,
         NEW w \in CopyOf(m), w.branch[w.head] # NoCommit, Tip(Box) # NoCommit, Tip(Host) # NoCommit,
         NEW side \in {"box", "host"}, Put(side, w)
  PROVE  /\ copies' \in [{"box", "host"} -> CopyOf(m)] /\ copies'[side] = w
         /\ \A s \in {"box", "host"} : copies'[s] \in {copies[s], w}
         /\ Tip(Box)' # NoCommit /\ Tip(Host)' # NoCommit
<1>1. copies' = [copies EXCEPT ![side] = w] \/ copies' = [s \in {"box", "host"} |-> w]
  BY DEF Put
<1>2. \A s \in {"box", "host"} : copies[s] \in CopyOf(m)
  BY CopyGrows
<1>3. /\ copies' \in [{"box", "host"} -> CopyOf(m)] /\ copies'[side] = w
      /\ \A s \in {"box", "host"} : copies'[s] \in {copies[s], w}
  BY <1>1, <1>2
<1>4. QED
  BY <1>3 DEF Tip, Box, Host

LEMMA CopyIs ==
  ASSUME NEW n \in Nat, NEW w \in CopyOf(n)
  PROVE  /\ w.branch \in [Branches -> 0 .. n] /\ w.head \in Branches /\ w.work \subseteq Files
         /\ Tip(w) \in 0 .. n
  BY DEF CopyOf, Tip

LEMMA HandBoxes ==
  ASSUME HandInv
  PROVE  /\ Len(commits) \in Nat /\ copies \in [{"box", "host"} -> CopyOf(Len(commits))]
         /\ Box \in CopyOf(Len(commits)) /\ Host \in CopyOf(Len(commits))
         /\ Tip(Box) \in 1 .. Len(commits) /\ Tip(Host) \in 1 .. Len(commits)
         /\ Branch \in Branches
<1>1. Len(commits) \in Nat /\ copies \in [{"box", "host"} -> CopyOf(Len(commits))]
  BY DEF HandInv
<1>2. Box \in CopyOf(Len(commits)) /\ Host \in CopyOf(Len(commits))
  BY <1>1 DEF Box, Host
<1>3. Tip(Box) \in 0 .. Len(commits) /\ Tip(Host) \in 0 .. Len(commits)
  BY <1>1, <1>2, CopyIs
<1>4. QED
  BY <1>1, <1>2, <1>3, BranchIs DEF HandInv, NoCommit

LEMMA HandStarts == HandbackInit => HandInv
<1> SUFFICES ASSUME HandbackInit PROVE HandInv
  OBVIOUS
<1>1. commits = <<[parent |-> 0, files |-> Tracked]>> /\ Tracked \subseteq Files
  BY HandbackAssumption DEF HandbackInit, NoCommit
<1>2. /\ commits \in Seq(Commit) /\ Len(commits) = 1 /\ commits[1].files = Tracked /\ Ordered(commits)
  BY <1>1 DEF Commit, Ordered
<1>3. Prepared(cloned) \in CopyOf(1) /\ Tip(Prepared(cloned)) = 1
  BY <1>1 DEF Prepared, CopyOf, Tip, ClonedCommit, NoCommit, Branches
<1>4. copies \in [{"box", "host"} -> CopyOf(1)] /\ Tip(Box) = 1 /\ Tip(Host) = 1
  BY <1>3 DEF HandbackInit, Box, Host
<1>5. current \in DOMAIN Sessions
  <2>1. Sessions \in Seq(STRING) /\ Sessions # <<>> /\ current = 1
    BY HandbackAssumption DEF HandbackInit
  <2>2. QED
    BY <2>1
<1>6. QED
  BY <1>2, <1>4, <1>5 DEF HandInv, HandbackInit, NoCommit

\* The model leaves a copy with a branch checked out, and the hand-back waits.
LEMMA ModelWorks ==
  ASSUME HandInv, phase = "idle", NEW w, NEW m \in {Len(commits), Len(commits) + 1}, w \in CopyOf(m),
         Tip(w) # NoCommit, Put("box", w), Len(commits') = m,
         commits' \in Seq(Commit), commits'[1] = commits[1], Ordered(commits'),
         UNCHANGED <<cloned, remote, current, phase, step, outside>>
  PROVE  HandInv'
<1>1. /\ Len(commits) \in Nat /\ copies \in [{"box", "host"} -> CopyOf(Len(commits))]
      /\ Tip(Box) # NoCommit /\ Tip(Host) # NoCommit /\ m \in Nat /\ Len(commits) <= m /\ m >= 1
  BY DEF HandInv
<1>2. copies' \in [{"box", "host"} -> CopyOf(m)] /\ Tip(Box)' # NoCommit /\ Tip(Host)' # NoCommit
  BY <1>1, PutIs DEF Tip
<1>3. step = "none" /\ step' = "none"
  BY DEF HandInv
<1>4. QED
  BY <1>1, <1>2, <1>3 DEF HandInv

\* One commit more, on what there is.
LEMMA CommitMore ==
  ASSUME HandInv, NEW w \in CopyOf(Len(commits)), Tip(w) # NoCommit, AddCommit(w)
  PROVE  /\ commits' \in Seq(Commit) /\ Len(commits') = Len(commits) + 1 /\ commits'[1] = commits[1]
         /\ Ordered(commits') /\ Committed(w) \in CopyOf(Len(commits) + 1)
         /\ \A n \in 1 .. Len(commits) : commits'[n] = commits[n]
         /\ Tip(Committed(w)) = Len(commits) + 1 /\ Committed(w).work = w.work /\ Committed(w).head = w.head
         /\ commits'[Len(commits) + 1] = [parent |-> Tip(w), files |-> w.work]
         /\ \A b \in Branches : Committed(w).branch[b] = IF b = w.head THEN Len(commits) + 1 ELSE w.branch[b]
<1> DEFINE n == Len(commits)
           new == [parent |-> Tip(w), files |-> w.work]
<1>1. n \in Nat /\ n >= 1 /\ commits \in Seq(Commit) /\ Ordered(commits)
  BY DEF HandInv
<1>2. /\ w.branch \in [Branches -> 0 .. n] /\ w.head \in Branches /\ w.work \subseteq Files
      /\ Tip(w) \in 1 .. n
  BY <1>1, CopyIs DEF NoCommit
<1>3. new \in Commit /\ new.parent \in 1 .. n
  BY <1>2 DEF Commit
<1>4. commits' = Append(commits, new)
  BY DEF AddCommit
<1> HIDE DEF new
<1>5. /\ commits' \in Seq(Commit) /\ Len(commits') = n + 1 /\ commits'[n + 1] = new
      /\ \A k \in 1 .. n : commits'[k] = commits[k]
  BY <1>1, <1>3, <1>4
<1>6. Ordered(commits')
  BY <1>1, <1>3, <1>5 DEF Ordered
<1>7. w = [branch |-> w.branch, head |-> w.head, work |-> w.work]
  BY DEF CopyOf
<1>8. Committed(w) = [branch |-> [w.branch EXCEPT ![w.head] = n + 1], head |-> w.head, work |-> w.work]
  BY <1>7 DEF Committed
<1>9. [w.branch EXCEPT ![w.head] = n + 1] \in [Branches -> 0 .. (n + 1)]
  BY <1>1, <1>2
<1>10. Committed(w) \in CopyOf(n + 1)
  BY <1>2, <1>8, <1>9 DEF CopyOf
<1>11. Tip(Committed(w)) = n + 1 /\ Committed(w).work = w.work /\ Committed(w).head = w.head
  BY <1>2, <1>8 DEF Tip
<1>12. \A b \in Branches : Committed(w).branch[b] = IF b = w.head THEN n + 1 ELSE w.branch[b]
  BY <1>2, <1>8
<1>13. QED
  BY <1>1, <1>5, <1>6, <1>10, <1>11, <1>12 DEF new

LEMMA TouchKeeps == ASSUME HandInv, NEW f \in Files, Touch(f) PROVE HandInv'
<1>1. PICK w : w = [Box EXCEPT !.work = IF f \in @ THEN @ \ {f} ELSE @ \union {f}]
  OBVIOUS
<1>2. Box \in CopyOf(Len(commits)) /\ Tip(Box) # NoCommit /\ Len(commits) \in Nat
  BY HandBoxes DEF HandInv
<1>3. w \in CopyOf(Len(commits)) /\ Tip(w) # NoCommit
  BY <1>1, <1>2 DEF CopyOf, Tip
<1>4. Put("box", w) /\ UNCHANGED <<commits, cloned, remote, current, phase, step, outside>> /\ phase = "idle"
  BY <1>1 DEF Touch
<1>5. QED
  BY <1>2, <1>3, <1>4, ModelWorks DEF HandInv

LEMMA ModelCommitsKeeps == ASSUME HandInv, ModelCommits PROVE HandInv'
<1>1. Box \in CopyOf(Len(commits)) /\ Tip(Box) # NoCommit /\ Len(commits) \in Nat
  BY HandBoxes DEF HandInv
<1>2. AddCommit(Box) /\ Put("box", Committed(Box)) /\ phase = "idle"
      /\ UNCHANGED <<cloned, remote, current, phase, step, outside>>
  BY DEF ModelCommits
<1>3. /\ commits' \in Seq(Commit) /\ Len(commits') = Len(commits) + 1 /\ commits'[1] = commits[1]
      /\ Ordered(commits') /\ Committed(Box) \in CopyOf(Len(commits) + 1)
      /\ Tip(Committed(Box)) = Len(commits) + 1
  BY <1>1, <1>2, CommitMore
<1>4. Tip(Committed(Box)) # NoCommit
  BY <1>1, <1>3 DEF NoCommit
<1>5. QED
  BY <1>2, <1>3, <1>4, ModelWorks

LEMMA ModelSwitchesKeeps == ASSUME HandInv, NEW b \in Branches, ModelSwitches(b) PROVE HandInv'
<1>1. Box \in CopyOf(Len(commits)) /\ Tip(Box) \in 1 .. Len(commits) /\ Len(commits) \in Nat
  BY HandBoxes
<1>2. PICK at : at = IF Box.branch[b] = NoCommit THEN Tip(Box) ELSE Box.branch[b]
  OBVIOUS
<1>3. PICK w : w = [Box EXCEPT !.branch[b] = at, !.head = b, !.work = commits[at].files]
  OBVIOUS
<1>4. Put("box", w) /\ UNCHANGED <<commits, cloned, remote, current, phase, step, outside>> /\ phase = "idle"
  BY <1>2, <1>3 DEF ModelSwitches
<1>5. at \in 1 .. Len(commits)
  BY <1>1, <1>2, CopyIs DEF NoCommit
<1>6. commits[at].files \subseteq Files
  <2>1. commits[at] \in Commit
    BY <1>1, <1>5 DEF HandInv
  <2>2. QED
    BY <2>1 DEF Commit
<1>7. w \in CopyOf(Len(commits)) /\ Tip(w) = at
  <2>1. Box = [branch |-> Box.branch, head |-> Box.head, work |-> Box.work]
        /\ Box.branch \in [Branches -> 0 .. Len(commits)]
    BY <1>1 DEF CopyOf
  <2>2. w = [branch |-> [Box.branch EXCEPT ![b] = at], head |-> b, work |-> commits[at].files]
    BY <1>3, <2>1
  <2>3. QED
    BY <1>1, <1>5, <1>6, <2>1, <2>2 DEF CopyOf, Tip
<1>8. Tip(w) # NoCommit
  BY <1>5, <1>7 DEF NoCommit
<1>9. QED
  BY <1>1, <1>4, <1>7, <1>8, ModelWorks DEF HandInv

LEMMA BeginKeeps == ASSUME HandInv, NEW to \in {"shipping", "exiting"}, Begin(to) PROVE HandInv'
  BY DEF HandInv, Begin, Tip, Box, Host

LEMMA ExportKeeps == ASSUME HandInv, Export PROVE HandInv'
<1>1. /\ Len(commits) \in Nat /\ Box \in CopyOf(Len(commits)) /\ Host \in CopyOf(Len(commits))
      /\ Tip(Box) \in 1 .. Len(commits) /\ Tip(Host) \in 1 .. Len(commits)
  BY HandBoxes
<1>2. ASSUME NEW w, NEW some \in SUBSET Box.work, NEW git \in BOOLEAN,
             w = Overlay(Box, Host) \/ w = Part(Box, Host, some, git)
      PROVE  w \in CopyOf(Len(commits)) /\ Tip(w) # NoCommit
  <2>1. /\ Box.branch \in [Branches -> 0 .. Len(commits)] /\ Box.head \in Branches /\ Box.work \subseteq Files
        /\ Host.branch \in [Branches -> 0 .. Len(commits)] /\ Host.head \in Branches /\ Host.work \subseteq Files
    BY <1>1, CopyIs
  <2>2. PICK v : v = Overlay(Box, Host)
    OBVIOUS
  <2>3. v.branch \in [Branches -> 0 .. Len(commits)] /\ v.branch[Box.head] = Tip(Box)
    BY <1>1, <2>1, <2>2 DEF Overlay, Tip, NoCommit
  <2>4. CASE w = v
    <3>1. w.branch[w.head] = Tip(Box) /\ w \in CopyOf(Len(commits))
      BY <2>1, <2>2, <2>3, <2>4 DEF Overlay, CopyOf
    <3>2. QED
      BY <1>1, <3>1 DEF Tip, NoCommit
  <2>5. CASE w = Part(Box, Host, some, git)
    <3>1. w = [branch |-> IF git THEN v.branch ELSE Host.branch, head |-> IF git THEN Box.head ELSE Host.head,
               work |-> some \union Host.work]
      BY <2>2, <2>5 DEF Part
    <3>2. w \in CopyOf(Len(commits))
      BY <2>1, <2>3, <3>1 DEF CopyOf
    <3>3. w.branch[w.head] = IF git THEN Tip(Box) ELSE Tip(Host)
      BY <2>3, <3>1 DEF Tip
    <3>4. QED
      BY <1>1, <3>2, <3>3 DEF Tip, NoCommit
  <2>6. QED
    BY <1>2, <2>2, <2>4, <2>5
<1>3. PICK w : w \in CopyOf(Len(commits)) /\ Tip(w) # NoCommit /\ Put("host", w)
  <2>1. CASE Put("host", Overlay(Box, Host))
    <3>1. {} \in SUBSET Box.work /\ FALSE \in BOOLEAN
      OBVIOUS
    <3>2. Overlay(Box, Host) \in CopyOf(Len(commits)) /\ Tip(Overlay(Box, Host)) # NoCommit
      BY <1>2, <3>1
    <3>3. QED
      BY <2>1, <3>2
  <2>2. CASE \E some \in SUBSET Box.work, git \in BOOLEAN : Put("host", Part(Box, Host, some, git))
    <3>1. PICK some \in SUBSET Box.work, git \in BOOLEAN : Put("host", Part(Box, Host, some, git))
      BY <2>2
    <3>2. Part(Box, Host, some, git) \in CopyOf(Len(commits)) /\ Tip(Part(Box, Host, some, git)) # NoCommit
      BY <1>2, <3>1
    <3>3. QED
      BY <3>1, <3>2
  <2>3. QED
    BY <2>1, <2>2 DEF Export
<1>5. /\ copies' \in [{"box", "host"} -> CopyOf(Len(commits))]
      /\ Tip(Box)' # NoCommit /\ Tip(Host)' # NoCommit
  BY <1>1, <1>3, PutIs DEF HandInv, Tip
<1>6. QED
  BY <1>5 DEF HandInv, Export

LEMMA CheckKeeps == ASSUME HandInv, Check PROVE HandInv'
<1>1. UNCHANGED <<commits, copies, cloned, remote, current, outside>> /\ step = "check"
  BY DEF Check
<1>2. CASE End("skipped")
  BY <1>1, <1>2 DEF HandInv, End, Tip, Box, Host
<1>3. CASE cloned /\ step' = "secure" /\ UNCHANGED phase
  BY <1>1, <1>3 DEF HandInv, Tip, Box, Host
<1>4. QED
  BY <1>2, <1>3 DEF Check, HasOrigin

LEMMA CaptureKeeps == ASSUME HandInv, Capture PROVE HandInv'
<1>1. /\ UNCHANGED <<cloned, remote, current>> /\ step = "secure" /\ cloned /\ ~outside'
  BY DEF Capture, HandInv
<1>2. CASE (unanswered' \/ ~Dirty(Host)) /\ step' = "point" /\ UNCHANGED <<commits, copies, phase>>
  BY <1>1, <1>2 DEF HandInv, Dirty, Tip, Box, Host
<1>3. CASE End("failed") /\ UNCHANGED <<commits, copies>>
  BY <1>1, <1>3 DEF HandInv, End, Tip, Box, Host
<1>4. CASE AddCommit(Host) /\ Put("host", Committed(Host)) /\ step' = "point" /\ UNCHANGED phase
  <2>1. /\ Len(commits) \in Nat /\ copies \in [{"box", "host"} -> CopyOf(Len(commits))]
        /\ Host \in CopyOf(Len(commits)) /\ Tip(Host) # NoCommit /\ Tip(Box) # NoCommit
    BY HandBoxes DEF HandInv
  <2>2. PICK w : w = Committed(Host)
    OBVIOUS
  <2>3. /\ commits' \in Seq(Commit) /\ Len(commits') = Len(commits) + 1 /\ commits'[1] = commits[1]
        /\ Ordered(commits') /\ w \in CopyOf(Len(commits) + 1)
        /\ Tip(w) = Len(commits) + 1 /\ w.work = Host.work
        /\ commits'[Len(commits) + 1] = [parent |-> Tip(Host), files |-> Host.work]
    BY <1>4, <2>1, <2>2, CommitMore
  <2>4. Put("host", w) /\ w.branch[w.head] # NoCommit
    BY <1>4, <2>1, <2>2, <2>3 DEF NoCommit, Tip
  <2>5. /\ copies' \in [{"box", "host"} -> CopyOf(Len(commits) + 1)] /\ copies'["host"] = w
        /\ Tip(Box)' # NoCommit /\ Tip(Host)' # NoCommit
    BY <2>1, <2>3, <2>4, PutIs
  <2>6. ~Dirty(Host)'
    BY <2>3, <2>5 DEF Dirty, Tip, Host
  <2>7. Len(commits') >= 1 /\ commits'[1].files = Tracked
    BY <2>1, <2>3 DEF HandInv
  <2>8. QED
    BY <1>1, <1>4, <2>3, <2>5, <2>6, <2>7 DEF HandInv
<1>5. QED
  BY <1>2, <1>3, <1>4 DEF Capture, IsDirty

LEMMA PointKeeps == ASSUME HandInv, Point PROVE HandInv'
<1>1. /\ UNCHANGED <<commits, cloned, remote, current, unanswered, outside>> /\ step = "point" /\ cloned
      /\ unanswered \/ ~Dirty(Host)
  BY DEF Point, HandInv
<1>2. CASE End("failed") /\ UNCHANGED copies
  BY <1>1, <1>2 DEF HandInv, End, Tip, Box, Host
<1>3. CASE Host.head # Branch /\ Put("host", [Host EXCEPT !.branch[Branch] = Tip(Host)])
           /\ step' = "push" /\ UNCHANGED phase
  <2>1. /\ Len(commits) \in Nat /\ copies \in [{"box", "host"} -> CopyOf(Len(commits))]
        /\ Host \in CopyOf(Len(commits)) /\ Tip(Host) \in 1 .. Len(commits) /\ Branch \in Branches
    BY HandBoxes
  <2>2. PICK w : w = [Host EXCEPT !.branch[Branch] = Tip(Host)]
    OBVIOUS
  <2>3. Host.branch \in [Branches -> 0 .. Len(commits)] /\ Host.head \in Branches
    BY <2>1, CopyIs
  <2>4. /\ w \in CopyOf(Len(commits)) /\ w.head = Host.head /\ w.work = Host.work
        /\ w.branch[Branch] = Tip(Host) /\ w.branch[w.head] = Tip(Host)
    BY <1>3, <2>1, <2>2, <2>3 DEF CopyOf, Tip
  <2>5. Put("host", w) /\ w.branch[w.head] # NoCommit
    BY <1>3, <2>1, <2>2, <2>4 DEF NoCommit
  <2>6. /\ copies' \in [{"box", "host"} -> CopyOf(Len(commits))] /\ copies'["host"] = w
        /\ Tip(Box)' # NoCommit /\ Tip(Host)' # NoCommit
    BY <2>1, <2>4, <2>5, PutIs DEF HandInv
  <2>7. (unanswered' \/ ~Dirty(Host)') /\ Host.branch[Branch]' = Tip(Host)'
    BY <1>1, <2>4, <2>6 DEF Dirty, Tip, Host, Branch
  <2>8. QED
    BY <1>1, <1>3, <2>6, <2>7 DEF HandInv
<1>4. QED
  BY <1>2, <1>3 DEF Point

LEMMA PushBranchKeeps == ASSUME HandInv, PushBranch PROVE HandInv'
<1>1. UNCHANGED <<commits, copies, cloned, current, outside>> /\ step = "push" /\ DOMAIN remote' = DOMAIN remote
      /\ (End("pushed") \/ End("local"))
  BY DEF PushBranch
<1>2. QED
  BY <1>1 DEF HandInv, End, Tip, Box, Host

LEMMA NextSessionKeeps == ASSUME HandInv, NextSession PROVE HandInv'
<1>1. /\ UNCHANGED <<commits, remote, step, outside>> /\ phase \in {"exited", "crashed"} /\ phase' = "idle"
      /\ current' = current + 1 /\ current < Len(Sessions) /\ step = "none"
  BY DEF NextSession, HandInv
<1>2. current' \in DOMAIN Sessions
  <2>1. Sessions \in Seq(STRING) /\ current \in DOMAIN Sessions
    BY HandbackAssumption DEF HandInv
  <2>2. QED
    BY <1>1, <2>1
<1>3. /\ Len(commits) \in Nat /\ Len(commits) >= 1 /\ copies \in [{"box", "host"} -> CopyOf(Len(commits))]
      /\ Host \in CopyOf(Len(commits)) /\ Tip(Host) # NoCommit /\ Tip(Box) # NoCommit
  BY HandBoxes DEF HandInv
<1>4. CASE Put("box", Host) /\ UNCHANGED cloned
  <2>1. /\ copies' \in [{"box", "host"} -> CopyOf(Len(commits))]
        /\ Tip(Box)' # NoCommit /\ Tip(Host)' # NoCommit
    BY <1>3, <1>4, PutIs DEF Tip
  <2>2. QED
    BY <1>1, <1>2, <1>4, <2>1 DEF HandInv
<1>5. CASE cloned' \in BOOLEAN /\ copies' = [side \in {"box", "host"} |-> Prepared(cloned')]
  <2>1. Prepared(cloned') \in CopyOf(Len(commits)) /\ Tip(Prepared(cloned')) = 1
    <3>1. Tracked \subseteq Files
      BY HandbackAssumption
    <3>2. QED
      BY <1>3, <3>1 DEF Prepared, CopyOf, Tip, ClonedCommit, NoCommit, Branches
  <2>2. copies' \in [{"box", "host"} -> CopyOf(Len(commits))] /\ Tip(Box)' = 1 /\ Tip(Host)' = 1
    BY <1>5, <2>1 DEF Box, Host, Tip
  <2>3. QED
    BY <1>1, <1>2, <1>5, <2>2 DEF HandInv, NoCommit
<1>6. QED
  BY <1>4, <1>5 DEF NextSession

LEMMA HandStep == HandInv /\ [HandbackNext]_handbackVars => HandInv'
<1>1. SUFFICES ASSUME HandInv, [HandbackNext]_handbackVars PROVE HandInv'
  OBVIOUS
<1>2. CASE UNCHANGED handbackVars
  BY <1>1, <1>2 DEF HandInv, handbackVars, Tip, Box, Host, Dirty, Branch
<1>3. QED
  BY <1>1, <1>2, TouchKeeps, ModelCommitsKeeps, ModelSwitchesKeeps, BeginKeeps, ExportKeeps, CheckKeeps,
     CaptureKeeps, PointKeeps, PushBranchKeeps, NextSessionKeeps DEF HandbackNext

LEMMA PushedIs == PushBranch /\ outcome' = "pushed" /\ HandInv => remote'[Branch] = Host.branch[Branch]
<1>1. HandInv => Branch \in DOMAIN remote
  BY DEF HandInv, Branch, Range0, Range
<1>2. QED
  BY <1>1 DEF PushBranch, End

\* A hand-back takes no file away from the host's worktree.
LEMMA WorkStays ==
  ASSUME HandInv, Check \/ Capture \/ Point \/ PushBranch
  PROVE  Host.work' = Host.work
<1>1. CASE UNCHANGED copies
  BY <1>1 DEF Host
<1>2. ASSUME NEW w, Put("host", w), w.work = Host.work PROVE Host.work' = Host.work
  BY <1>2 DEF Put, Host, HandInv
<1>3. Committed(Host).work = Host.work /\ [Host EXCEPT !.branch[Branch] = Tip(Host)].work = Host.work
  BY HandBoxes DEF Committed, CopyOf
<1>4. QED
  BY <1>1, <1>2, <1>3 DEF Check, Capture, Point, PushBranch

\* Whatever of the export, of git and of the push fails, over any sessions, backends, files and
\* branches: when a hand-back comes to its end behind the push the commit checked out is on the
\* session branch, an accepted push left that very commit on origin, no file went from the
\* Workspace and git never wrote around it; and if git answered what it was asked, the whole
\* worktree is in that commit and a Workspace passed over held nothing of its own in its files
\* (handback.py).
THEOREM HandbackSecured == HandbackSpec => WorkIsSecured
<1> DEFINE Secured ==
      /\ JustShipped =>
            /\ Host.branch[Branch] # NoCommit /\ Host.branch[Branch] = Tip(Host)
            /\ unanswered \/ commits[Host.branch[Branch]].files = Host.work
            /\ outcome' = "pushed" => remote'[Branch] = Host.branch[Branch]
      /\ step = "check" /\ step' = "none" /\ cloned => unanswered' \/ Host.work = Tracked
      /\ step \in {"check", "secure", "point", "push"} => Host.work' = Host.work
      /\ ~outside'
<1>1. HandInv /\ HandInv' /\ [HandbackNext]_handbackVars => [Secured]_handbackVars
  <2>1. SUFFICES ASSUME HandInv, HandInv', HandbackNext PROVE Secured
    OBVIOUS
  <2>2. step \in {"check", "secure", "point", "push"} => Check \/ Capture \/ Point \/ PushBranch
    BY <2>1 DEF HandbackNext, Touch, ModelCommits, ModelSwitches, Begin, Export, NextSession, HandInv
  <2>3. ASSUME JustShipped
        PROVE  /\ Host.branch[Branch] # NoCommit /\ Host.branch[Branch] = Tip(Host)
               /\ unanswered \/ commits[Host.branch[Branch]].files = Host.work
               /\ outcome' = "pushed" => remote'[Branch] = Host.branch[Branch]
    <3>1. step = "push" /\ step' = "none"
      BY <2>3 DEF JustShipped
    <3>2. PushBranch
      BY <2>2, <3>1 DEF Check, Capture, Point
    <3>3. /\ Host.branch[Branch] # NoCommit /\ Host.branch[Branch] = Tip(Host)
          /\ unanswered \/ commits[Host.branch[Branch]].files = Host.work
      BY <2>1, <3>1 DEF HandInv, Dirty
    <3>4. outcome' = "pushed" => remote'[Branch] = Host.branch[Branch]
      BY <2>1, <3>2, PushedIs
    <3>5. QED
      BY <3>3, <3>4
  <2>4. ASSUME step = "check", step' = "none", cloned PROVE unanswered' \/ Host.work = Tracked
    <3>1. Check
      BY <2>2, <2>4 DEF Capture, Point, PushBranch
    <3>2. PICK listed \in BOOLEAN, status \in BOOLEAN, resolves \in BOOLEAN :
             /\ unanswered' = ~(listed /\ status)
             /\ ~HasOrigin(listed) \/ Unchanged(status, resolves)
      BY <2>4, <3>1 DEF Check
    <3>3. QED
      BY <2>1, <2>4, <3>2 DEF HasOrigin, Unchanged, IsDirty, Dirty, HandInv, ClonedCommit
  <2>5. step \in {"check", "secure", "point", "push"} => Host.work' = Host.work
    BY <2>1, <2>2, WorkStays
  <2>6. ~outside'
    BY <2>1 DEF HandInv
  <2>7. QED
    BY <2>3, <2>4, <2>5, <2>6
<1>2. QED
  BY <1>1, HandStarts, HandStep, PTL DEF HandbackSpec, WorkIsSecured

LEMMA AncestryNow == HandInv => \A n \in 1 .. Len(commits) : Behind(n) = {n} \union Behind(commits[n].parent)
<1> SUFFICES ASSUME HandInv PROVE \A n \in 1 .. Len(commits) : Behind(n) = {n} \union Behind(commits[n].parent)
  OBVIOUS
<1> DEFINE up == CHOOSE g : g = [n \in 0 .. Len(commits) |-> IF n = 0 THEN {} ELSE {n} \union g[commits[n].parent]]
<1>1. \A c : Behind(c) = up[c]
  BY DEF Behind
<1>2. Len(commits) \in Nat /\ \A n \in 1 .. Len(commits) : commits[n].parent \in 0 .. (n - 1)
  BY DEF HandInv, Ordered
<1> HIDE DEF up
<1>3. \A n \in 1 .. Len(commits) : up[n] = {n} \union up[commits[n].parent]
  BY <1>2, Ancestry DEF up
<1>4. QED
  BY <1>1, <1>3

\* No step of a hand-back after the export takes a commit off a branch of the model's: the
\* capture builds on the branch it moves, and the session branch alone is pointed anew
\* (handback.py, _secure_session_branch).
THEOREM HandbackKeepsCommits == HandbackSpec => ModelCommitsKept
<1>1. HandInv /\ HandInv' /\ [HandbackNext]_handbackVars
        /\ (\A n \in 1 .. Len(commits) : Behind(n) = {n} \union Behind(commits[n].parent))'
        => [KeepsModelCommits]_handbackVars
  <2>1. SUFFICES ASSUME HandInv, HandInv', HandbackNext,
                        (\A n \in 1 .. Len(commits) : Behind(n) = {n} \union Behind(commits[n].parent))',
                        step \in {"check", "secure", "point", "push"},
                        NEW b \in Branches \ {Branch}, Host.branch[b] # NoCommit
                 PROVE  Host.branch[b] \in BehindNext(b)
    BY DEF KeepsModelCommits
  <2>2. PICK c : c = Host.branch[b]
    OBVIOUS
  <2>3. c \in 1 .. Len(commits) /\ Len(commits) \in Nat
    BY <2>1, <2>2, HandBoxes, CopyIs DEF NoCommit
  <2>4. Check \/ Capture \/ Point \/ PushBranch
    BY <2>1 DEF HandbackNext, Touch, ModelCommits, ModelSwitches, Begin, Export, NextSession, HandInv
  <2>5. Len(commits') \in Nat
    BY <2>1, HandBoxes DEF HandInv
  <2>6. CASE Tips'[b] = c /\ Len(commits') >= Len(commits)
    BY <2>1, <2>2, <2>3, <2>5, <2>6 DEF BehindNext
  <2>7. CASE Check \/ PushBranch \/ (Capture /\ UNCHANGED <<commits, copies>>) \/ (Point /\ UNCHANGED copies)
    <3>1. UNCHANGED <<commits, copies>>
      BY <2>7 DEF Check, PushBranch, Point
    <3>2. QED
      BY <2>2, <2>3, <2>6, <3>1 DEF Tips, Host
  <2>8. CASE Point /\ Put("host", [Host EXCEPT !.branch[Branch] = Tip(Host)])
    <3>1. commits' = commits
      BY <2>8 DEF Point
    <3>2. copies'["host"] = [Host EXCEPT !.branch[Branch] = Tip(Host)]
      BY <2>1, <2>8 DEF Put, HandInv
    <3>3. Host \in CopyOf(Len(commits)) /\ Host.branch \in [Branches -> 0 .. Len(commits)]
      BY <2>1, <2>3, HandBoxes, CopyIs
    <3>4. copies'["host"].branch[b] = Host.branch[b]
      BY <2>1, <3>2, <3>3 DEF CopyOf
    <3>5. QED
      BY <2>2, <2>3, <2>6, <3>1, <3>4 DEF Tips, Host
  <2>9. CASE Capture /\ AddCommit(Host) /\ Put("host", Committed(Host))
    <3>1. Host \in CopyOf(Len(commits)) /\ Tip(Host) # NoCommit
      BY <2>1, HandBoxes DEF HandInv
    <3>2. copies'["host"] = Committed(Host)
      BY <2>1, <2>9 DEF Put, HandInv
    <3>3. /\ Len(commits') = Len(commits) + 1 /\ commits'[Len(commits) + 1].parent = Tip(Host)
          /\ Committed(Host).branch[b] = IF b = Host.head THEN Len(commits) + 1 ELSE Host.branch[b]
      <4>1. AddCommit(Host) /\ b \in Branches
        BY <2>1, <2>9
      <4>2. /\ Len(commits') = Len(commits) + 1
            /\ commits'[Len(commits) + 1] = [parent |-> Tip(Host), files |-> Host.work]
            /\ \A n \in Branches :
                  Committed(Host).branch[n] = IF n = Host.head THEN Len(commits) + 1 ELSE Host.branch[n]
        BY <2>1, <3>1, <4>1, CommitMore
      <4>3. QED
        BY <4>1, <4>2
    <3>4. CASE b # Host.head
      BY <2>2, <2>3, <2>6, <3>2, <3>3, <3>4 DEF Tips, Host
    <3>5. CASE b = Host.head
      <4>1. Tips'[b] = Len(commits) + 1 /\ commits'[Len(commits) + 1].parent = c
        BY <2>2, <3>2, <3>3, <3>5 DEF Tips, Host, Tip
      <4>2. c \in 1 .. Len(commits') /\ Len(commits') \in 1 .. Len(commits')
        BY <2>3, <3>3
      <4>3. Behind(c)' = {c} \union Behind(commits[c].parent)'
        BY <2>1, <4>2
      <4>4. ASSUME NEW n, n = Len(commits') PROVE c \in Behind(n)'
        <5>1. n \in 1 .. Len(commits') /\ commits'[n].parent = c
          BY <3>3, <4>1, <4>2, <4>4
        <5>2. Behind(n)' = {n} \union Behind(commits[n].parent)'
          BY <2>1, <5>1
        <5>3. Behind(commits[n].parent)' = Behind(c)'
          BY <5>1
        <5>4. QED
          BY <4>3, <5>2, <5>3
      <4>5. Tips'[b] = Len(commits')
        BY <3>3, <4>1
      <4>6. c \in Behind(Tips[b])'
        BY <4>4, <4>5
      <4>7. QED
        BY <2>2, <4>6 DEF BehindNext
    <3>6. QED
      BY <3>4, <3>5
  <2>10. QED
    BY <2>4, <2>7, <2>8, <2>9 DEF Capture, Point
<1>2. QED
  BY <1>1, HandStarts, HandStep, AncestryNow, PTL DEF HandbackSpec, ModelCommitsKept
=============================================================================
