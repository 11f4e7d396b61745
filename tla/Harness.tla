------------------------------ MODULE Harness ------------------------------
(***************************************************************************)
(* The interactive core of decode: the Runner's single-flight turn machine *)
(* and its two interaction queues (harness/runner.py, harness/queue.py),   *)
(* the DecisionChannel (harness/decisions.py), the control flow of the     *)
(* turn handler between two real awaits (agent/loop.py) and the REPL's     *)
(* input loop with its exit sequence (tui/app.py).                         *)
(*                                                                         *)
(* Everything runs on one asyncio loop, so an action is one stretch of     *)
(* code between two real awaits.  Resuming the handler at a boundary,      *)
(* draining a queue and sending the result back never suspends: a whole    *)
(* boundary is part of the action that reaches it.  The model, the tools   *)
(* and the human are the environment.                                      *)
(*                                                                         *)
(* A Line is one piece of text a user submits; each is typed at most once, *)
(* so a line is its own identity.                                          *)
(***************************************************************************)
EXTENDS Naturals, Sequences, Functions

CONSTANTS Line,      \* the lines the user may submit
          MaxCalls,  \* bound: gated tool calls one deferred leg may pause on
          MaxLegs    \* bound: legs of a turn after which the model stops deferring

ASSUME BoundsAssumption == MaxCalls \in Nat \ {0} /\ MaxLegs \in Nat \ {0}

(* The three ways a line enters: it opens a turn, or waits on a queue. *)
Lane == {"opening", "steering", "followUp"}

Key == {"enter", "altEnter", "esc"}

VARIABLES
  phase,      \* Runner._phase
  abort,      \* Runner._abort, the cooperative-abort flag
  turn,       \* where the turn task is suspended; "none" when there is no task
  opening,    \* TurnContext.prompt until the first leg takes it: <<>> or <<line>>
  steering,   \* InteractionQueues.steering
  followUp,   \* InteractionQueues.follow_up
  output,     \* what the last leg of the turn returned: text or deferred calls
  calls,      \* deferred calls still undecided behind the pending one
  legs,       \* legs started by this turn (bounds the model, see MaxLegs)
  asked,      \* the running leg already asked the human a question
  future,     \* the DecisionChannel's future and what became of it
  ui,         \* where the input loop of run_app is suspended
  outcome,    \* how the last turn finished (TurnFinished / AgentError)
  \* history variables
  typed,      \* lines submitted so far
  entered,    \* per lane: lines accepted and not discarded since, in order
  handed,     \* per lane: lines given to the model, in order
  dropped,    \* lines discarded by an abort
  escaped,    \* Esc was taken as an abort during the turn in flight
  approvals   \* keys by which the human has approved something

turnVars  == <<phase, abort, turn, output, calls, legs, asked, outcome>>
laneVars  == <<opening, steering, followUp, entered, handed, dropped>>
vars == <<turnVars, laneVars, future, ui, typed, escaped, approvals>>

----------------------------------------------------------------------------
(* DecisionChannel *)

Pending == future = "waiting"

Settled == future \in {"yes", "no", "dismissed"}

----------------------------------------------------------------------------
Init ==
  /\ phase = "idle" /\ abort = FALSE /\ turn = "none"
  /\ output = "none" /\ calls = 0 /\ legs = 0 /\ asked = FALSE
  /\ outcome = "none"
  /\ opening = <<>> /\ steering = <<>> /\ followUp = <<>>
  /\ entered = [l \in Lane |-> <<>>] /\ handed = [l \in Lane |-> <<>>]
  /\ dropped = {}
  /\ future = "none" /\ ui = "prompt"
  /\ typed = {} /\ escaped = FALSE /\ approvals = {}

----------------------------------------------------------------------------
(* The boundaries of a turn.  Each operator below is the synchronous code  *)
(* the runner and the handler run between two awaits; an action uses one.  *)

(* Fault: the abort path forgets to clear the queues. *)
DiscardKeepsQueues ==
  /\ opening' = <<>>
  /\ dropped' = dropped \cup Range(opening)
  /\ entered' = [entered EXCEPT !["opening"] = handed["opening"]]
  /\ UNCHANGED <<steering, followUp, handed>>

(* queues.clear() after an abort, with the prompt the handler had in hand *)
Discard ==
  /\ opening' = <<>> /\ steering' = <<>> /\ followUp' = <<>>
  /\ dropped' = dropped \cup Range(opening) \cup Range(steering)
                        \cup Range(followUp)
  /\ entered' = handed
  /\ UNCHANGED handed

(* Fault: the finally block clears the task and leaves the phase. *)
FinishKeepsPhase(result) ==
  /\ turn' = "none" /\ abort' = FALSE /\ outcome' = result
  /\ calls' = 0 /\ UNCHANGED <<phase, legs, asked>>

(* The runner's finally block: back to idle, flag and task cleared. *)
Finish(result) ==
  /\ phase' = "idle" /\ turn' = "none" /\ abort' = FALSE
  /\ outcome' = result
  /\ calls' = 0 /\ UNCHANGED <<legs, asked>>

Given(to, lane, lines) == [to EXCEPT ![lane] = @ \o lines]

(* Fault: draining copies the steering queue without emptying it. *)
StartLegCopies(base, lane) ==
  /\ turn' = "leg" /\ asked' = FALSE /\ legs' = legs + 1 /\ calls' = 0
  /\ handed' = Given(Given(handed, "steering", steering), lane, base)
  /\ phase' = "running" /\ UNCHANGED <<abort, outcome, steering, entered, dropped>>

(* No abort at a MODEL_REQUEST boundary: the drained steering precedes the *)
(* turn's base prompt, and the next leg starts with both.                  *)
StartLeg(base, lane) ==
  /\ turn' = "leg" /\ asked' = FALSE /\ legs' = legs + 1 /\ calls' = 0
  /\ handed' = Given(Given(handed, "steering", steering), lane, base)
  /\ steering' = <<>>
  /\ phase' = "running" /\ UNCHANGED <<abort, outcome, entered, dropped>>

(* Fault: the resume boundary does not look at the abort flag. *)
AtResumeIgnoresAbort == StartLeg(<<>>, "steering") /\ UNCHANGED <<opening, followUp>>

(* MODEL_REQUEST after a deferred pause: a resume leg carries no prompt. *)
AtResume ==
  \/ ~abort /\ StartLeg(<<>>, "steering") /\ UNCHANGED <<opening, followUp>>
  \/ abort /\ Finish("aborted") /\ Discard

(* WOULD_STOP: drained follow-ups are the prompt of one more leg, and the  *)
(* MODEL_REQUEST that leg begins with is reached without another await.    *)
AtWouldStop ==
  \/ abort /\ Finish("aborted") /\ Discard
  \/ ~abort /\ followUp = <<>> /\ Finish("finished") /\ UNCHANGED laneVars
  \/ /\ ~abort /\ followUp # <<>>
     /\ StartLeg(followUp, "followUp") /\ followUp' = <<>> /\ UNCHANGED opening

(* Fault: the call being asked about is counted as decided already. *)
DecideOffByOne(n) ==
  \/ AtResume /\ future' = "none"
  \/ \E left \in 0..(n - 1) :
       /\ turn' = "permission" /\ calls' = left - 1 /\ future' = "waiting"
       /\ UNCHANGED <<phase, abort, legs, asked, outcome, laneVars>>

(* Fault: the cleanup of the answered request wipes the slot of the next. *)
DecideWipesSlot(n) ==
  \/ AtResume /\ future' = "none"
  \/ \E left \in 0..(n - 1) :
       /\ turn' = "permission" /\ calls' = left /\ future' = "none"
       /\ UNCHANGED <<phase, abort, legs, asked, outcome, laneVars>>

(* _resolve_deferred over n undecided calls: the gate settles the first    *)
(* ones by itself, and asks the human about the next unless none is left.  *)
Decide(n) ==
  \/ AtResume /\ future' = "none"
  \/ \E left \in 0..(n - 1) :
       /\ turn' = "permission" /\ calls' = left /\ future' = "waiting"
       /\ UNCHANGED <<phase, abort, legs, asked, outcome, laneVars>>

----------------------------------------------------------------------------
(* The input loop *)

AtPrompt == ui = "prompt" /\ ~Pending

Accept(line, lane) ==
  /\ line \notin typed
  /\ typed' = typed \cup {line}
  /\ entered' = [entered EXCEPT ![lane] = Append(@, line)]
  /\ UNCHANGED <<handed, dropped>>

(* Fault: a new turn inherits an abort flag raised while idle. *)
StartTurnKeepsFlag(line) ==
  /\ AtPrompt /\ turn = "none"
  /\ Accept(line, "opening")
  /\ phase' = "dispatching" /\ turn' = "scheduled"
  /\ opening' = <<line>>
  /\ output' = "none" /\ legs' = 0 /\ escaped' = FALSE
  /\ UNCHANGED <<abort, calls, asked, outcome, steering, followUp, future, ui,
                 approvals>>

(* Runner.submit on idle: the phase moves before the first await. *)
StartTurn(line) ==
  /\ AtPrompt /\ turn = "none"
  /\ Accept(line, "opening")
  /\ phase' = "dispatching" /\ abort' = FALSE /\ turn' = "scheduled"
  /\ opening' = <<line>>
  /\ output' = "none" /\ legs' = 0 /\ escaped' = FALSE
  /\ UNCHANGED <<calls, asked, outcome, steering, followUp, future, ui, approvals>>

(* Runner.submit while busy: plain Enter steers. *)
Steer(line) ==
  /\ AtPrompt /\ turn # "none"
  /\ Accept(line, "steering")
  /\ steering' = Append(steering, line)
  /\ UNCHANGED <<turnVars, opening, followUp, future, ui, escaped, approvals>>

(* Runner.submit while busy: Alt+Enter queues a follow-up. *)
QueueFollowUp(line) ==
  /\ AtPrompt /\ turn # "none"
  /\ Accept(line, "followUp")
  /\ followUp' = Append(followUp, line)
  /\ UNCHANGED <<turnVars, opening, steering, future, ui, escaped, approvals>>

(* Esc with no decision pending; on idle the flag stays up until a submit. *)
PressEsc ==
  /\ AtPrompt
  /\ abort' = TRUE
  /\ escaped' = (turn # "none")
  /\ UNCHANGED <<phase, turn, output, calls, legs, asked, outcome, laneVars,
                 future, ui, typed, approvals>>

(* While a decision is pending the loop routes whatever was accepted to it, *)
(* before looking at the intent: only the text of the line is the answer.   *)
Answer(key, text) ==
  /\ ui = "prompt" /\ Pending
  /\ future' = text
  /\ approvals' = IF text = "yes" THEN approvals \cup {key} ELSE approvals
  /\ UNCHANGED <<turnVars, laneVars, ui, typed, escaped>>

(* /compact, /clear, /ship: refused unless idle, awaited by the loop. *)
StartCommand ==
  /\ AtPrompt /\ phase = "idle"
  /\ ui' = "command"
  /\ UNCHANGED <<turnVars, laneVars, future, typed, escaped, approvals>>

EndCommand ==
  /\ ui = "command" /\ ui' = "prompt"
  /\ UNCHANGED <<turnVars, laneVars, future, typed, escaped, approvals>>

(* Ctrl-D, or /quit when no decision is pending: cancel the decision that  *)
(* is pending now, then wait for the turn in flight.                       *)
Leave ==
  /\ ui = "prompt" /\ ui' = "draining"
  /\ future' = IF Pending THEN "dismissed" ELSE future
  /\ UNCHANGED <<turnVars, laneVars, typed, escaped, approvals>>

(* wait_idle returned: memory write-back, teardown, bye. *)
Close ==
  /\ ui = "draining" /\ turn = "none" /\ ui' = "closed"
  /\ UNCHANGED <<turnVars, laneVars, future, typed, escaped, approvals>>

----------------------------------------------------------------------------
(* The turn task *)

(* _run_turn starts, and runs to the first leg's request. *)
BeginTurn ==
  /\ turn = "scheduled"
  /\ \/ ~abort /\ StartLeg(opening, "opening") /\ opening' = <<>> /\ UNCHANGED followUp
     \/ abort /\ Finish("aborted") /\ Discard
  /\ UNCHANGED <<output, future, ui, typed, escaped, approvals>>

(* ask_user or exit_plan_mode, run inside a leg, asks the human. *)
AskQuestion ==
  /\ turn = "leg" /\ ~asked
  /\ turn' = "question" /\ asked' = TRUE /\ future' = "waiting"
  /\ UNCHANGED <<phase, abort, output, calls, legs, outcome, laneVars,
                 ui, typed, escaped, approvals>>

(* Fault: request() does not reset the slot once it has its answer. *)
TakeAnswerKeepsSlot ==
  /\ turn = "question" /\ Settled
  /\ turn' = "leg"
  /\ UNCHANGED <<phase, abort, output, calls, legs, asked, outcome, laneVars,
                 future, ui, typed, escaped, approvals>>

TakeAnswer ==
  /\ turn = "question" /\ Settled
  /\ turn' = "leg" /\ future' = "none"
  /\ UNCHANGED <<phase, abort, output, calls, legs, asked, outcome, laneVars,
                 ui, typed, escaped, approvals>>

(* The leg pauses on gated calls. *)
LegDefers ==
  /\ turn = "leg" /\ legs < MaxLegs
  /\ output' = "deferred"
  /\ \E n \in 1..MaxCalls : Decide(n)
  /\ UNCHANGED <<ui, typed, escaped, approvals>>

(* One gated call is answered: the next one, or the resume leg. *)
TakePermission ==
  /\ turn = "permission" /\ Settled
  /\ Decide(calls)
  /\ UNCHANGED <<output, ui, typed, escaped, approvals>>

(* The leg returns text.  Above the context threshold the handler awaits   *)
(* the compaction summarizer before it reaches the boundary.               *)
LegReturns ==
  /\ turn = "leg" /\ output' = "text"
  /\ \/ AtWouldStop
     \/ /\ turn' = "compacting"
        /\ UNCHANGED <<phase, abort, calls, legs, asked, outcome, laneVars>>
  /\ UNCHANGED <<future, ui, typed, escaped, approvals>>

AutoCompacted ==
  /\ turn = "compacting"
  /\ AtWouldStop
  /\ UNCHANGED <<output, future, ui, typed, escaped, approvals>>

(* The leg raises: AgentError, and the queues are kept. *)
LegFails ==
  /\ turn = "leg"
  /\ Finish("failed")
  /\ UNCHANGED <<output, laneVars, future, ui, typed, escaped, approvals>>

----------------------------------------------------------------------------
TurnStep ==
  \/ BeginTurn \/ AskQuestion \/ TakeAnswer \/ LegDefers \/ TakePermission
  \/ LegReturns \/ AutoCompacted \/ LegFails

Typing ==
  \/ \E line \in Line : StartTurn(line) \/ Steer(line) \/ QueueFollowUp(line)
  \/ PressEsc
  \/ \E key \in Key, text \in {"yes", "no"} : Answer(key, text)
  \/ StartCommand \/ Leave

Next == Typing \/ EndCommand \/ Close \/ TurnStep

Spec == Init /\ [][Next]_vars

----------------------------------------------------------------------------
(* Fairness.  The event loop runs every ready callback, the model and the  *)
(* summarizer answer or fail, and a human at the prompt answers a pending  *)
(* decision.  Nothing obliges the user to type, abort or leave.            *)

LegEnds == LegDefers \/ LegReturns \/ LegFails

HumanAnswers == \E key \in Key, text \in {"yes", "no"} : Answer(key, text)

Fairness ==
  /\ WF_vars(BeginTurn) /\ WF_vars(TakeAnswer) /\ WF_vars(TakePermission)
  /\ WF_vars(LegEnds) /\ WF_vars(AutoCompacted)
  /\ WF_vars(EndCommand) /\ WF_vars(Close)
  /\ WF_vars(HumanAnswers)

FairSpec == Spec /\ Fairness

----------------------------------------------------------------------------
(* Properties *)

Turn == {"none", "scheduled", "leg", "question", "permission", "compacting"}

TurnTypeOK ==
  /\ phase \in {"idle", "dispatching", "running"}
  /\ turn \in Turn
  /\ abort \in BOOLEAN /\ escaped \in BOOLEAN /\ asked \in BOOLEAN
  /\ output \in {"none", "text", "deferred"}
  /\ outcome \in {"none", "finished", "failed", "aborted"}
  /\ calls \in Nat /\ legs \in Nat
  /\ future \in {"none", "waiting", "yes", "no", "dismissed"}
  /\ ui \in {"prompt", "command", "draining", "closed"}
  /\ approvals \in SUBSET Key

LineTypeOK ==
  /\ opening \in Seq(Line) /\ steering \in Seq(Line) /\ followUp \in Seq(Line)
  /\ entered \in [Lane -> Seq(Line)] /\ handed \in [Lane -> Seq(Line)]
  /\ typed \in SUBSET Line /\ dropped \in SUBSET Line

(* Every variable stays in its domain. *)
TypeOK == TurnTypeOK /\ LineTypeOK

(* Runner.submit looks at the task, the idle-only commands look at the     *)
(* phase: both must see the same turn, and neither a command that rewrites *)
(* the history nor the teardown ever overlaps one.                         *)
SingleFlight ==
  /\ phase = "idle" <=> turn = "none"
  /\ phase = "dispatching" <=> turn = "scheduled"
  /\ ui \in {"command", "closed"} => turn = "none"

(* An Esc stops the turn it was pressed in and no other: the flag a turn   *)
(* sees was raised during that turn.                                       *)
AbortIsOfThisTurn == turn # "none" /\ abort => escaped

(* A line is only routed to a decision that somebody awaits, and whoever   *)
(* awaits one can be reached through the channel.                          *)
DecisionHasAsker == turn \in {"question", "permission"} <=> future # "none"

(* What may wait on the queues between turns: nothing after an abort, only *)
(* steering too late for the last leg after a turn that stopped by itself; *)
(* the follow-ups of a turn that failed are kept for the next one.         *)
RestingQueues ==
  turn = "none" =>
    /\ opening = <<>>
    /\ outcome \in {"none", "aborted"} => steering = <<>> /\ followUp = <<>>
    /\ outcome = "finished" => followUp = <<>>

(* Once Esc is taken, the turn starts no further leg: nothing more is sent *)
(* to the model before the turn ends.                                      *)
NoLegAfterAbort == [][abort => legs' <= legs]_vars

(* A turn always comes to an end while somebody is at the prompt to answer *)
(* its questions.                                                          *)
TurnEnds == turn # "none" ~> (turn = "none" \/ ui # "prompt")

(* Leaving the prompt ends the program: "Unblock any resolver still        *)
(* awaiting a decision so the in-flight turn can wind down" (tui/app.py).  *)
ExitCompletes == ui = "draining" ~> ui = "closed"

(* Esc is never consent: a pending request dismissed by the user "falls    *)
(* back to its safe default (deny)" (harness/decisions.py).                *)
EscNeverApproves == "esc" \notin approvals

----------------------------------------------------------------------------
(* What a user's line is promised, whatever the turn does. *)
Waiting == [l \in Lane |-> IF l = "opening" THEN opening
                           ELSE IF l = "steering" THEN steering
                           ELSE followUp]

Mail == INSTANCE Mailbox WITH waiting <- Waiting, busy <- turn # "none"

(* The harness keeps the promise of Mailbox. *)
KeepsMailbox == Mail!Spec

(* On each way in, the model is given the lines in the order they were     *)
(* typed, none lost or repeated, whatever aborts, failures and boundaries  *)
(* come between (queue.py drain_*, runner.py _drive).                      *)
LanesAreFifo == Mail!LanesAreFifo

(* A line is in one place only: given to the model, waiting, or discarded; *)
(* never on two queues, and never both discarded and delivered.            *)
EveryLineOnce == Mail!EveryLineOnce

============================================================================
