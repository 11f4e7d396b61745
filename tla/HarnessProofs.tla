--------------------------- MODULE HarnessProofs ---------------------------
(***************************************************************************)
(* Proofs about Harness, for any set of lines and any bounds: the control  *)
(* invariants of the turn machine, and that it implements Mailbox.         *)
(***************************************************************************)
EXTENDS Harness, SequenceTheorems, TLAPS

----------------------------------------------------------------------------
(* Types *)

(* The counters of a turn stay natural numbers. *)
LEMMA CountersNat ==
  ASSUME legs \in Nat
  PROVE  0 \in Nat /\ legs + 1 \in Nat
  OBVIOUS

LEMMA TurnTypesInit == Init => TurnTypeOK
<1>1. 0 \in Nat
  OBVIOUS
<1>2. QED
  BY <1>1, Zenon DEF Init, TurnTypeOK, Turn

LEMMA TurnTypesNext == TurnTypeOK /\ [Next]_vars => TurnTypeOK'
<1>1. SUFFICES ASSUME TurnTypeOK, [Next]_vars PROVE TurnTypeOK'
  OBVIOUS
<1> USE DEF TurnTypeOK, Turn, Key
<1>2. ASSUME NEW line \in Line, StartTurn(line) \/ Steer(line) \/ QueueFollowUp(line)
      PROVE  TurnTypeOK'
  <2>1. CASE StartTurn(line)
    BY <1>1, <2>1, CountersNat, Zenon DEF StartTurn
  <2>2. CASE Steer(line) \/ QueueFollowUp(line)
    <3>1. UNCHANGED <<turnVars, future, ui, escaped, approvals>>
      BY <2>2 DEF Steer, QueueFollowUp
    <3>2. QED
      BY <1>1, <3>1 DEF turnVars
  <2>3. QED
    BY <1>2, <2>1, <2>2
<1>3. CASE PressEsc
  BY <1>1, <1>3 DEF PressEsc
<1>4. ASSUME NEW key \in Key, NEW text \in {"yes", "no"}, Answer(key, text)
      PROVE  TurnTypeOK'
  BY <1>1, <1>4 DEF Answer, turnVars
<1>5. CASE StartCommand \/ EndCommand \/ Close
  BY <1>1, <1>5 DEF StartCommand, EndCommand, Close, turnVars
<1>6. CASE Leave
  BY <1>1, <1>6 DEF Leave, Pending, turnVars
<1>7. CASE BeginTurn
  BY <1>1, <1>7, CountersNat, Zenon DEF BeginTurn, StartLeg, Finish
<1>8. CASE AskQuestion \/ TakeAnswer
  BY <1>1, <1>8 DEF AskQuestion, TakeAnswer
<1>9. ASSUME NEW n \in Nat, Decide(n), output' \in {"none", "text", "deferred"},
             UNCHANGED <<ui, escaped, approvals>>
      PROVE  TurnTypeOK'
  <2>1. CASE AtResume /\ future' = "none"
    BY <1>1, <1>9, <2>1, CountersNat, Zenon DEF AtResume, StartLeg, Finish
  <2>2. CASE ~(AtResume /\ future' = "none")
    <3>1. PICK left \in 0..(n - 1) : /\ turn' = "permission" /\ calls' = left
                                    /\ future' = "waiting"
                                    /\ UNCHANGED <<phase, abort, legs, asked, outcome>>
      BY <1>9, <2>2 DEF Decide
    <3>2. left \in Nat
      OBVIOUS
    <3>3. QED
      BY <1>1, <1>9, <3>1, <3>2, Zenon
  <2>3. QED
    BY <2>1, <2>2
<1>10. CASE LegDefers
  <2>1. PICK n \in 1..MaxCalls : Decide(n)
    BY <1>10 DEF LegDefers
  <2>2. n \in Nat
    BY BoundsAssumption
  <2>3. QED
    BY <1>9, <1>10, <2>1, <2>2 DEF LegDefers
<1>11. CASE TakePermission
  BY <1>1, <1>9, <1>11 DEF TakePermission
<1>12. CASE LegReturns \/ AutoCompacted
  BY <1>1, <1>12, CountersNat, Zenon DEF LegReturns, AutoCompacted, AtWouldStop, StartLeg, Finish
<1>13. CASE LegFails
  BY <1>1, <1>13 DEF LegFails, Finish
<1>14. CASE UNCHANGED vars
  BY <1>1, <1>14 DEF vars, turnVars
<1>15. QED
  BY <1>1, <1>2, <1>3, <1>4, <1>5, <1>6, <1>7, <1>8, <1>10, <1>11, <1>12,
     <1>13, <1>14 DEF Next, Typing, TurnStep

----------------------------------------------------------------------------
(* The control invariants *)

(* The prompt is in the handler's hand only until the first leg takes it.  *)
OpeningTaken == turn # "scheduled" => opening = <<>>

(* None of the four control properties is inductive alone: RestingQueues   *)
(* needs OpeningTaken for the turns that end without an abort.             *)
Control == /\ SingleFlight /\ DecisionHasAsker /\ AbortIsOfThisTurn
           /\ RestingQueues /\ OpeningTaken

LEMMA ControlInit == Init => Control
  BY DEF Init, Control, SingleFlight, DecisionHasAsker, AbortIsOfThisTurn,
         RestingQueues, OpeningTaken

LEMMA ControlNext == TurnTypeOK /\ Control /\ [Next]_vars => Control'
<1>1. SUFFICES ASSUME TurnTypeOK, Control, [Next]_vars PROVE Control'
  OBVIOUS
<1> USE DEF Control, SingleFlight, DecisionHasAsker, AbortIsOfThisTurn,
            RestingQueues, OpeningTaken
<1>2. ASSUME NEW line \in Line, StartTurn(line) PROVE Control'
  BY <1>1, <1>2 DEF StartTurn, AtPrompt, Pending, TurnTypeOK
<1>3. ASSUME NEW line \in Line, Steer(line) \/ QueueFollowUp(line) PROVE Control'
  BY <1>1, <1>3 DEF Steer, QueueFollowUp, turnVars
<1>4. CASE PressEsc
  BY <1>1, <1>4 DEF PressEsc, laneVars
<1>5. ASSUME NEW key \in Key, NEW text \in {"yes", "no"}, Answer(key, text)
      PROVE  Control'
  BY <1>1, <1>5 DEF Answer, Pending, turnVars, laneVars
<1>6. CASE StartCommand \/ EndCommand \/ Close
  BY <1>1, <1>6 DEF StartCommand, EndCommand, Close, AtPrompt, turnVars, laneVars
<1>7. CASE Leave
  BY <1>1, <1>7 DEF Leave, Pending, turnVars, laneVars
<1>8. CASE BeginTurn
  BY <1>1, <1>8 DEF BeginTurn, StartLeg, Finish, Discard
<1>9. CASE AskQuestion \/ TakeAnswer
  BY <1>1, <1>9 DEF AskQuestion, TakeAnswer, laneVars
<1>10. ASSUME NEW n, Decide(n), turn \in {"leg", "permission"},
              UNCHANGED <<ui, escaped>>
       PROVE  Control'
  BY <1>1, <1>10 DEF Decide, AtResume, StartLeg, Finish, Discard, laneVars
<1>11. CASE LegDefers
  <2>1. PICK n \in 1..MaxCalls : Decide(n)
    BY <1>11 DEF LegDefers
  <2>2. QED
    BY <1>10, <1>11, <2>1 DEF LegDefers
<1>12. CASE TakePermission
  BY <1>10, <1>12 DEF TakePermission
<1>13. CASE LegReturns \/ AutoCompacted
  BY <1>1, <1>13 DEF LegReturns, AutoCompacted, AtWouldStop, StartLeg, Finish,
                     Discard, laneVars
<1>14. CASE LegFails
  BY <1>1, <1>14 DEF LegFails, Finish, laneVars
<1>15. CASE UNCHANGED vars
  BY <1>1, <1>15 DEF vars, turnVars, laneVars
<1>16. QED
  BY <1>1, <1>2, <1>3, <1>4, <1>5, <1>6, <1>7, <1>8, <1>9, <1>11, <1>12,
     <1>13, <1>14, <1>15 DEF Next, Typing, TurnStep

THEOREM HarnessControl == Spec => [](TurnTypeOK /\ Control)
<1>1. Init => TurnTypeOK /\ Control
  BY TurnTypesInit, ControlInit
<1>2. TurnTypeOK /\ Control /\ [Next]_vars => (TurnTypeOK /\ Control)'
  BY TurnTypesNext, ControlNext
<1>3. QED
  BY <1>1, <1>2, PTL DEF Spec

----------------------------------------------------------------------------
(* The lanes keep their types *)

LEMMA NoLines == <<>> \in Seq(Line)
  OBVIOUS

LEMMA EmptyLanes == [l \in Lane |-> <<>>] \in [Lane -> Seq(Line)]
  BY NoLines

LEMMA LaneNames == "opening" \in Lane /\ "steering" \in Lane /\ "followUp" \in Lane
  BY DEF Lane

LEMMA GivenTypes ==
  \A to \in [Lane -> Seq(Line)] : \A lane \in Lane : \A lines \in Seq(Line) :
    Given(to, lane, lines) \in [Lane -> Seq(Line)]
<1>1. SUFFICES ASSUME NEW to \in [Lane -> Seq(Line)], NEW lane \in Lane,
                      NEW lines \in Seq(Line)
               PROVE  Given(to, lane, lines) \in [Lane -> Seq(Line)]
  OBVIOUS
<1>2. to[lane] \o lines \in Seq(Line)
  BY ConcatProperties
<1>3. QED
  BY <1>2 DEF Given

LEMMA LegLines ==
  ASSUME LineTypeOK, NEW base \in Seq(Line), NEW lane \in Lane, StartLeg(base, lane),
         opening' \in Seq(Line), followUp' \in Seq(Line), typed' = typed
  PROVE  LineTypeOK'
<1>1. Given(handed, "steering", steering) \in [Lane -> Seq(Line)]
  BY GivenTypes, LaneNames DEF LineTypeOK
<1>2. Given(Given(handed, "steering", steering), lane, base) \in [Lane -> Seq(Line)]
  BY <1>1, GivenTypes
<1>3. handed' \in [Lane -> Seq(Line)] /\ steering' \in Seq(Line)
      /\ entered' = entered /\ dropped' = dropped
  BY <1>2, NoLines DEF StartLeg
<1>4. QED
  BY <1>3 DEF LineTypeOK

LEMMA DiscardLines ==
  ASSUME LineTypeOK, Discard, typed' = typed
  PROVE  LineTypeOK'
<1>1. /\ Range(opening) \subseteq Line /\ Range(steering) \subseteq Line
      /\ Range(followUp) \subseteq Line
  BY RangeOfSeq DEF LineTypeOK
<1>2. dropped' \subseteq Line
  BY <1>1 DEF Discard, LineTypeOK
<1>3. QED
  BY <1>2, NoLines DEF Discard, LineTypeOK

LEMMA AcceptLines ==
  ASSUME LineTypeOK, NEW line \in Line, NEW lane \in Lane, Accept(line, lane)
  PROVE  /\ entered' \in [Lane -> Seq(Line)] /\ handed' \in [Lane -> Seq(Line)]
         /\ typed' \in SUBSET Line /\ dropped' \in SUBSET Line
  BY DEF Accept, LineTypeOK

LEMMA LineTypesInit == Init => LineTypeOK
  BY NoLines, EmptyLanes DEF Init, LineTypeOK

LEMMA LineTypesNext == LineTypeOK /\ [Next]_vars => LineTypeOK'
<1>1. SUFFICES ASSUME LineTypeOK, [Next]_vars PROVE LineTypeOK'
  OBVIOUS
<1>2. opening \in Seq(Line) /\ steering \in Seq(Line) /\ followUp \in Seq(Line)
  BY <1>1 DEF LineTypeOK
<1>3. ASSUME NEW line \in Line, StartTurn(line) PROVE LineTypeOK'
  <2>1. <<line>> \in Seq(Line)
    OBVIOUS
  <2>2. Accept(line, "opening") /\ opening' = <<line>>
        /\ UNCHANGED <<steering, followUp>>
    BY <1>3 DEF StartTurn
  <2>3. QED
    BY <1>1, <2>1, <2>2, <1>2, AcceptLines, LaneNames DEF LineTypeOK
<1>4. ASSUME NEW line \in Line, Steer(line) PROVE LineTypeOK'
  <2>1. Accept(line, "steering") /\ steering' = Append(steering, line)
        /\ UNCHANGED <<opening, followUp>>
    BY <1>4 DEF Steer
  <2>2. QED
    BY <1>1, <2>1, <1>2, AcceptLines, LaneNames DEF LineTypeOK
<1>5. ASSUME NEW line \in Line, QueueFollowUp(line) PROVE LineTypeOK'
  <2>1. Accept(line, "followUp") /\ followUp' = Append(followUp, line)
        /\ UNCHANGED <<opening, steering>>
    BY <1>5 DEF QueueFollowUp
  <2>2. QED
    BY <1>1, <2>1, <1>2, AcceptLines, LaneNames DEF LineTypeOK
<1>6. ASSUME UNCHANGED <<laneVars, typed>> PROVE LineTypeOK'
  BY <1>1, <1>6 DEF laneVars, LineTypeOK
<1>7. CASE BeginTurn
  BY <1>1, <1>2, <1>7, NoLines, LegLines, DiscardLines, LaneNames DEF BeginTurn
<1>8. ASSUME AtResume, typed' = typed PROVE LineTypeOK'
  BY <1>1, <1>2, <1>8, NoLines, LegLines, DiscardLines, LaneNames DEF AtResume
<1>9. ASSUME AtWouldStop, typed' = typed PROVE LineTypeOK'
  BY <1>1, <1>2, <1>6, <1>9, NoLines, LegLines, DiscardLines, LaneNames
     DEF AtWouldStop
<1>10. ASSUME NEW n, Decide(n), typed' = typed PROVE LineTypeOK'
  BY <1>6, <1>8, <1>10 DEF Decide
<1>11. CASE LegDefers \/ TakePermission
  BY <1>10, <1>11 DEF LegDefers, TakePermission
<1>12. CASE LegReturns \/ AutoCompacted
  BY <1>6, <1>9, <1>12 DEF LegReturns, AutoCompacted
<1>13. QED
  BY <1>1, <1>3, <1>4, <1>5, <1>6, <1>7, <1>11, <1>12
     DEF Next, Typing, TurnStep, PressEsc, Answer, StartCommand, EndCommand, Leave,
         Close, AskQuestion, TakeAnswer, LegFails, vars

(* Every variable keeps its type (the dataclasses of runner.py, queue.py   *)
(* and decisions.py).                                                      *)
THEOREM HarnessTypes == Spec => []TypeOK
<1>1. Init => TypeOK
  BY TurnTypesInit, LineTypesInit DEF TypeOK
<1>2. TypeOK /\ [Next]_vars => TypeOK'
  BY TurnTypesNext, LineTypesNext DEF TypeOK
<1>3. QED
  BY <1>1, <1>2, PTL DEF Spec

(* A command that rewrites the history, and the teardown, never overlap a  *)
(* turn; the task and the phase of Runner agree (runner.py submit).        *)
THEOREM HarnessSingleFlight == Spec => []SingleFlight
<1>1. Control => SingleFlight
  BY DEF Control
<1>2. QED
  BY <1>1, HarnessControl, PTL

(* An Esc stops the turn it was pressed in and no other (runner.py).       *)
THEOREM HarnessAbort == Spec => []AbortIsOfThisTurn
<1>1. Control => AbortIsOfThisTurn
  BY DEF Control
<1>2. QED
  BY <1>1, HarnessControl, PTL

(* A decision is pending exactly while somebody awaits it (decisions.py).  *)
THEOREM HarnessDecisions == Spec => []DecisionHasAsker
<1>1. Control => DecisionHasAsker
  BY DEF Control
<1>2. QED
  BY <1>1, HarnessControl, PTL

(* What the queues may hold between two turns (runner.py, queue.py).       *)
THEOREM HarnessQueues == Spec => []RestingQueues
<1>1. Control => RestingQueues
  BY DEF Control
<1>2. QED
  BY <1>1, HarnessControl, PTL

(* Once Esc is taken no further leg starts before the turn ends: nothing   *)
(* more of it reaches the model (the boundaries of runner.py).             *)
THEOREM HarnessNoLeg == Spec => NoLegAfterAbort
<1>1. TurnTypeOK /\ [Next]_vars => [abort => legs' <= legs]_vars
  <2>1. SUFFICES ASSUME TurnTypeOK, Next, abort PROVE legs' <= legs
    OBVIOUS
  <2>2. legs \in Nat
    BY <2>1 DEF TurnTypeOK
  <2>3. ASSUME NEW line \in Line, StartTurn(line) PROVE legs' = 0
    BY <2>3 DEF StartTurn
  <2>4. ASSUME NEW n, Decide(n) PROVE legs' = legs
    BY <2>1, <2>4 DEF Decide, AtResume, Finish
  <2>5. ASSUME AtWouldStop PROVE legs' = legs
    BY <2>1, <2>5 DEF AtWouldStop, Finish
  <2>6. legs <= legs /\ 0 <= legs
    BY <2>2
  <2>7. CASE BeginTurn \/ LegFails
    BY <2>1, <2>6, <2>7 DEF BeginTurn, LegFails, Finish
  <2>8. CASE LegDefers \/ TakePermission
    BY <2>4, <2>6, <2>8 DEF LegDefers, TakePermission
  <2>9. CASE LegReturns
    BY <2>5, <2>6, <2>9 DEF LegReturns
  <2>10. CASE AutoCompacted
    BY <2>5, <2>6, <2>10 DEF AutoCompacted
  <2>11. ASSUME UNCHANGED turnVars \/ PressEsc \/ AskQuestion \/ TakeAnswer
         PROVE  legs' <= legs
    BY <2>6, <2>11 DEF turnVars, PressEsc, AskQuestion, TakeAnswer
  <2>12. QED
    BY <2>1, <2>3, <2>6, <2>7, <2>8, <2>9, <2>10, <2>11
       DEF Next, Typing, TurnStep, Steer, QueueFollowUp, Answer, StartCommand, Leave,
           EndCommand, Close
<1>2. QED
  BY <1>1, HarnessControl, PTL DEF Spec, NoLegAfterAbort

----------------------------------------------------------------------------
(* The harness implements Mailbox *)

LEMMA WaitingLanes ==
  /\ Waiting["opening"] = opening /\ Waiting["steering"] = steering
  /\ Waiting["followUp"] = followUp
  BY DEF Waiting, Lane

(* A boundary that goes on hands over the steering, and the base prompt.   *)
LEMMA LegHandsOver ==
  ASSUME LineTypeOK, turn # "none", NEW base, NEW lane \in Lane,
         StartLeg(base, lane), typed' = typed,
         \/ lane = "opening" /\ base = opening /\ opening' = <<>> /\ followUp' = followUp
         \/ lane = "steering" /\ base = <<>> /\ opening' = opening /\ followUp' = followUp
         \/ lane = "followUp" /\ base = followUp /\ followUp' = <<>> /\ opening' = opening
  PROVE  Mail!Next
<1>1. /\ steering' = <<>> /\ turn' # "none" /\ entered' = entered /\ dropped' = dropped
      /\ handed' = Given(Given(handed, "steering", steering), lane, base)
  BY DEF StartLeg
<1>2. /\ handed \in [Lane -> Seq(Line)] /\ steering \in Seq(Line)
      /\ handed["steering"] \o steering \in Seq(Line)
  BY ConcatProperties, LaneNames DEF LineTypeOK
<1>3. (handed["steering"] \o steering) \o <<>> = handed["steering"] \o steering
  BY <1>2, ConcatEmptySeq
<1>4. Mail!HandOver({"steering", lane})
  <2>1. handed' = [l \in Lane |-> IF l \in {"steering", lane} THEN handed[l] \o Waiting[l]
                                                             ELSE handed[l]]
    BY <1>1, <1>2, <1>3 DEF Given, Waiting, Lane
  <2>2. Waiting' = [l \in Lane |-> IF l \in {"steering", lane} THEN <<>> ELSE Waiting[l]]
    BY <1>1 DEF Waiting, Lane
  <2>3. QED
    BY <1>1, <2>1, <2>2 DEF Mail!HandOver, Mail!Lane, Lane
<1>5. {"steering", lane} \in SUBSET Mail!Lane
  BY DEF Mail!Lane, Lane
<1>6. QED
  BY <1>4, <1>5 DEF Mail!Next

(* An abort abandons what waits. *)
LEMMA DiscardAbandons ==
  ASSUME turn # "none", turn' = "none", Discard, typed' = typed
  PROVE  Mail!Next
<1>1. UNION {Range(Waiting[l]) : l \in Lane}
        = Range(opening) \cup Range(steering) \cup Range(followUp)
  BY WaitingLanes DEF Lane
<1>2. Waiting' = [l \in Lane |-> <<>>]
  BY DEF Discard, Waiting
<1>3. UNION {Mail!Range(Waiting[l]) : l \in Mail!Lane}
        = UNION {Range(Waiting[l]) : l \in Lane}
  BY DEF Range, Mail!Range, Lane, Mail!Lane
<1>4. dropped' = dropped \cup UNION {Mail!Range(Waiting[l]) : l \in Mail!Lane}
  BY <1>1, <1>3 DEF Discard
<1>5. Mail!Abandon
  BY <1>2, <1>4 DEF Discard, Mail!Abandon, Mail!Empty, Mail!Lane, Lane
<1>6. QED
  BY <1>5 DEF Mail!Next

(* A turn that ends otherwise rests: its prompt is no longer in hand. *)
LEMMA FinishRests ==
  ASSUME turn # "none", turn' = "none", opening = <<>>, UNCHANGED <<laneVars, typed>>
  PROVE  Mail!Next
<1>1. UNCHANGED <<Waiting, handed, entered, typed, dropped>>
  BY DEF laneVars, Waiting
<1>2. Mail!Rest
  BY <1>1, WaitingLanes DEF Mail!Rest
<1>3. QED
  BY <1>2 DEF Mail!Next

LEMMA AcceptAccepts ==
  ASSUME LineTypeOK, NEW line \in Line, NEW lane \in Lane, Accept(line, lane),
         lane = "opening" <=> turn = "none", turn' # "none",
         Waiting' = [Waiting EXCEPT ![lane] = Append(@, line)]
  PROVE  Mail!Next
<1>1. Mail!Accept(line, lane)
  BY DEF Accept, Mail!Accept
<1>2. QED
  BY <1>1 DEF Mail!Next, Mail!Lane, Lane

LEMMA InitMaps == Init => Mail!Init
<1>1. Init => Waiting = [l \in Lane |-> <<>>]
  BY DEF Init, Waiting
<1>2. QED
  BY <1>1 DEF Init, Mail!Init, Mail!Empty, Mail!Lane, Lane

LEMMA StepMaps ==
  TurnTypeOK /\ Control /\ LineTypeOK /\ [Next]_vars => [Mail!Next]_(Mail!vars)
<1>1. SUFFICES ASSUME TurnTypeOK, Control, LineTypeOK, [Next]_vars
               PROVE  Mail!Next \/ UNCHANGED Mail!vars
  OBVIOUS
<1>2. turn # "scheduled" => opening = <<>>
  BY <1>1 DEF Control, OpeningTaken
<1>3. ASSUME NEW line \in Line, StartTurn(line) PROVE Mail!Next
  <2>1. opening = <<>>
    BY <1>2, <1>3 DEF StartTurn
  <2>2. Append(<<>>, line) = <<line>>
    OBVIOUS
  <2>3. Waiting' = [Waiting EXCEPT !["opening"] = Append(@, line)]
    BY <1>3, <2>1, <2>2 DEF StartTurn, Waiting, Lane
  <2>4. QED
    BY <1>1, <1>3, <2>3, AcceptAccepts, LaneNames DEF StartTurn
<1>4. ASSUME NEW line \in Line, Steer(line) PROVE Mail!Next
  <2>1. Waiting' = [Waiting EXCEPT !["steering"] = Append(@, line)]
    BY <1>4 DEF Steer, Waiting, Lane
  <2>2. QED
    BY <1>1, <1>4, <2>1, AcceptAccepts, LaneNames DEF Steer, turnVars
<1>5. ASSUME NEW line \in Line, QueueFollowUp(line) PROVE Mail!Next
  <2>1. Waiting' = [Waiting EXCEPT !["followUp"] = Append(@, line)]
    BY <1>5 DEF QueueFollowUp, Waiting, Lane
  <2>2. QED
    BY <1>1, <1>5, <2>1, AcceptAccepts, LaneNames DEF QueueFollowUp, turnVars
<1>6. ASSUME UNCHANGED <<laneVars, typed>>, turn' = "none" <=> turn = "none"
      PROVE  UNCHANGED Mail!vars
  BY <1>6 DEF laneVars, Waiting, Mail!vars
<1>7. CASE BeginTurn
  BY <1>1, <1>7, LegHandsOver, DiscardAbandons, LaneNames DEF BeginTurn, Finish
<1>8. ASSUME AtResume, typed' = typed, turn # "none" PROVE Mail!Next
  BY <1>1, <1>8, LegHandsOver, DiscardAbandons, LaneNames DEF AtResume, Finish
<1>9. ASSUME AtWouldStop, typed' = typed, turn \notin {"none", "scheduled"}
      PROVE  Mail!Next
  BY <1>1, <1>2, <1>9, LegHandsOver, DiscardAbandons, FinishRests, LaneNames
     DEF AtWouldStop, Finish
<1>10. ASSUME NEW n, Decide(n), typed' = typed, turn # "none"
       PROVE  Mail!Next \/ UNCHANGED Mail!vars
  BY <1>6, <1>8, <1>10 DEF Decide
<1>11. CASE LegDefers
  BY <1>10, <1>11 DEF LegDefers
<1>12. CASE TakePermission
  BY <1>10, <1>12 DEF TakePermission
<1>13. CASE LegReturns
  BY <1>6, <1>9, <1>13 DEF LegReturns
<1>14. CASE AutoCompacted
  BY <1>9, <1>14 DEF AutoCompacted
<1>15. CASE LegFails
  BY <1>2, <1>15, FinishRests DEF LegFails, Finish
<1>16. CASE \/ PressEsc \/ StartCommand \/ Leave \/ EndCommand \/ Close
            \/ AskQuestion \/ TakeAnswer \/ UNCHANGED vars
            \/ \E key \in Key, text \in {"yes", "no"} : Answer(key, text)
  BY <1>6, <1>16 DEF PressEsc, StartCommand, Leave, EndCommand, Close, AskQuestion,
                     TakeAnswer, Answer, vars, turnVars
<1>17. QED
  BY <1>1, <1>3, <1>4, <1>5, <1>7, <1>11, <1>12, <1>13, <1>14, <1>15, <1>16
     DEF Next, Typing, TurnStep

(* The harness implements Mailbox: every step of it is a step of Mailbox   *)
(* or leaves the lines alone (runner.py and queue.py together).            *)
THEOREM HarnessKeepsMailbox == Spec => KeepsMailbox
<1>1. TypeOK => LineTypeOK
  BY DEF TypeOK
<1>2. QED
  BY <1>1, InitMaps, StepMaps, HarnessControl, HarnessTypes, PTL
     DEF Spec, KeepsMailbox, Mail!Spec

----------------------------------------------------------------------------
(* What the promise amounts to: the two invariants of Mailbox.            *)

(* A line is on an appended sequence iff it is the new one or was there. *)
LEMMA RangeAppend ==
  ASSUME NEW S, NEW s \in Seq(S), NEW x \in S
  PROVE  Range(Append(s, x)) = Range(s) \cup {x}
<1>1. <<x>> \in Seq(S) /\ Range(<<x>>) = {x}
  BY DEF Range
<1>2. Append(s, x) = s \o <<x>>
  BY AppendIsConcat
<1>3. Range(s \o <<x>>) = Range(s) \cup Range(<<x>>)
  BY <1>1, RangeConcatenation
<1>4. QED
  BY <1>1, <1>2, <1>3

(* Appending to a concatenation appends to its second part. *)
LEMMA AppendConcat ==
  \A x \in Line : \A s, t \in Seq(Line) : Append(s \o t, x) = s \o Append(t, x)
<1>1. SUFFICES ASSUME NEW x \in Line, NEW s \in Seq(Line), NEW t \in Seq(Line)
               PROVE  Append(s \o t, x) = s \o Append(t, x)
  OBVIOUS
<1>2. <<x>> \in Seq(Line) /\ s \o t \in Seq(Line)
  BY ConcatProperties
<1>3. Append(s \o t, x) = (s \o t) \o <<x>> /\ Append(t, x) = t \o <<x>>
  BY <1>2, AppendIsConcat
<1>4. QED
  BY <1>2, <1>3, ConcatAssociative

(* A concatenation holds its parts at their positions, the second shifted. *)
LEMMA ConcatPositions ==
  \A s, t \in Seq(Line) :
    /\ Len(s) \in Nat
    /\ \A i \in 1..Len(s) : i \in 1..Len(s \o t) /\ (s \o t)[i] = s[i]
    /\ \A i \in 1..Len(t) : /\ Len(s) + i \in 1..Len(s \o t)
                            /\ (s \o t)[Len(s) + i] = t[i]
  OBVIOUS

(* The range of Mailbox and that of Harness are one operator. *)
LEMMA SameRange == \A s : Mail!Range(s) = Range(s)
  BY DEF Mail!Range, Range

LEMMA MailEmpty == /\ Mail!Empty \in [Mail!Lane -> Seq(Line)]
                   /\ \A l \in Mail!Lane : Mail!Empty[l] = <<>>
<1>1. <<>> \in Seq(Line)
  OBVIOUS
<1>2. QED
  BY <1>1 DEF Mail!Empty

(* The variables keep their types (harness/queue.py holds lists of lines). *)
THEOREM MailboxTypes == Mail!Spec => []Mail!TypeOK
<1>1. Mail!Init => Mail!TypeOK
  BY MailEmpty DEF Mail!Init, Mail!TypeOK
<1>2. Mail!TypeOK /\ [Mail!Next]_(Mail!vars) => Mail!TypeOK'
  <2>1. SUFFICES ASSUME Mail!TypeOK, [Mail!Next]_(Mail!vars) PROVE Mail!TypeOK'
    OBVIOUS
  <2>2. ASSUME NEW line \in Line, NEW lane \in Mail!Lane, Mail!Accept(line, lane)
        PROVE  Mail!TypeOK'
    BY <2>1, <2>2 DEF Mail!Accept, Mail!TypeOK
  <2>3. ASSUME NEW lanes \in SUBSET Mail!Lane, Mail!HandOver(lanes)
        PROVE  Mail!TypeOK'
    BY <2>1, <2>3 DEF Mail!HandOver, Mail!TypeOK
  <2>4. CASE Mail!Rest
    BY <2>1, <2>4 DEF Mail!Rest, Mail!TypeOK
  <2>5. CASE Mail!Abandon
    <3>1. \A l \in Mail!Lane : Range(Waiting[l]) \subseteq Line
      BY <2>1, RangeOfSeq DEF Mail!TypeOK
    <3>2. UNION {Range(Waiting[l]) : l \in Mail!Lane} \subseteq Line
      BY <3>1
    <3>3. QED
      BY <2>1, <2>5, <3>2, MailEmpty, SameRange DEF Mail!Abandon, Mail!TypeOK
  <2>6. CASE UNCHANGED Mail!vars
    BY <2>1, <2>6 DEF Mail!vars, Mail!TypeOK
  <2>7. QED
    BY <2>1, <2>2, <2>3, <2>4, <2>5, <2>6 DEF Mail!Next
<1>3. QED
  BY <1>1, <1>2, PTL DEF Mail!Spec

----------------------------------------------------------------------------
(* Each line of `entered` is at one position of one lane, and none of them *)
(* was discarded.                                                          *)
EnteredOnce ==
  /\ \A x \in Line :
       x \in typed <=> x \in dropped \/ \E l \in Mail!Lane : x \in Range(entered[l])
  /\ \A l \in Mail!Lane : \A x \in Range(entered[l]) : x \notin dropped
  /\ \A l, m \in Mail!Lane : \A i \in 1..Len(entered[l]), j \in 1..Len(entered[m]) :
       entered[l][i] = entered[m][j] => l = m /\ i = j

(* The inductive invariant: lanes are FIFO and `entered` never repeats.    *)
MailInv == Mail!TypeOK /\ Mail!LanesAreFifo /\ EnteredOnce

LEMMA InvInit == Mail!Init => MailInv
<1>1. SUFFICES ASSUME Mail!Init PROVE MailInv
  OBVIOUS
<1>2. Mail!TypeOK /\ \A l \in Mail!Lane : /\ entered[l] = <<>>
                               /\ handed[l] = <<>> /\ Waiting[l] = <<>>
  BY <1>1, MailEmpty DEF Mail!Init, Mail!TypeOK
<1>3. <<>> \o <<>> = <<>>
  BY EmptySeq, ConcatEmptySeq
<1>4. Mail!LanesAreFifo
  BY <1>2, <1>3 DEF Mail!LanesAreFifo
<1>5. EnteredOnce
  BY <1>1, <1>2 DEF Mail!Init, EnteredOnce, Range
<1>6. QED
  BY <1>2, <1>4, <1>5 DEF MailInv

LEMMA AcceptInv ==
  ASSUME MailInv, NEW line \in Line, NEW lane \in Mail!Lane, Mail!Accept(line, lane), Mail!TypeOK'
  PROVE  MailInv'
<1>1. /\ entered[lane] \in Seq(Line) /\ handed[lane] \in Seq(Line)
      /\ Waiting[lane] \in Seq(Line)
      /\ entered'[lane] = Append(entered[lane], line)
      /\ Waiting'[lane] = Append(Waiting[lane], line)
      /\ \A l \in Mail!Lane \ {lane} : entered'[l] = entered[l] /\ Waiting'[l] = Waiting[l]
      /\ handed' = handed /\ dropped' = dropped /\ typed' = typed \cup {line}
      /\ line \notin typed
  BY DEF MailInv, Mail!TypeOK, Mail!Accept
<1>2. Mail!LanesAreFifo'
  <2>1. entered[lane] = handed[lane] \o Waiting[lane]
    BY DEF MailInv, Mail!LanesAreFifo
  <2>2. Append(handed[lane] \o Waiting[lane], line)
          = handed[lane] \o Append(Waiting[lane], line)
    BY <1>1, AppendConcat
  <2>3. QED
    BY <1>1, <2>1, <2>2 DEF MailInv, Mail!LanesAreFifo
<1>3. Range(entered'[lane]) = Range(entered[lane]) \cup {line}
  BY <1>1, RangeAppend
<1>4. \A l \in Mail!Lane : line \notin Range(entered[l])
  BY <1>1 DEF MailInv, EnteredOnce
<1>5. ASSUME NEW x \in Line
      PROVE  x \in typed' <=> x \in dropped' \/ \E l \in Mail!Lane : x \in Range(entered'[l])
  <2>1. (\E l \in Mail!Lane : x \in Range(entered'[l]))
          <=> x = line \/ \E l \in Mail!Lane : x \in Range(entered[l])
    BY <1>1, <1>3
  <2>2. QED
    BY <1>1, <2>1 DEF MailInv, EnteredOnce
<1>6. \A l \in Mail!Lane : \A x \in Range(entered'[l]) : x \notin dropped'
  <2>1. line \notin dropped
    BY <1>1 DEF MailInv, EnteredOnce
  <2>2. QED
    BY <1>1, <1>3, <2>1 DEF MailInv, EnteredOnce
<1>7. ASSUME NEW l \in Mail!Lane, NEW m \in Mail!Lane,
             NEW i \in 1..Len(entered'[l]), NEW j \in 1..Len(entered'[m]),
             entered'[l][i] = entered'[m][j]
      PROVE  l = m /\ i = j
  <2>1. /\ Len(entered'[lane]) = Len(entered[lane]) + 1 /\ Len(entered[lane]) \in Nat
        /\ \A k \in 1..Len(entered[lane]) : entered'[lane][k] = entered[lane][k]
        /\ entered'[lane][Len(entered[lane]) + 1] = line
    BY <1>1
  <2>2. ASSUME NEW n \in Mail!Lane, NEW k \in 1..Len(entered[n])
        PROVE  entered[n][k] # line
    <3>1. Range(entered[n]) = {entered[n][h] : h \in 1..Len(entered[n])}
      BY RangeEquality DEF MailInv, Mail!TypeOK
    <3>2. QED
      BY <1>4, <2>2, <3>1
  <2>3. ASSUME NEW n \in Mail!Lane, NEW k \in 1..Len(entered'[n])
        PROVE  \/ k \in 1..Len(entered[n]) /\ entered'[n][k] = entered[n][k]
               \/ n = lane /\ k = Len(entered[lane]) + 1 /\ entered'[n][k] = line
    <3>1. CASE n = lane
      BY <2>1, <2>3, <3>1
    <3>2. CASE n # lane
      BY <1>1, <2>3, <3>2
    <3>3. QED
      BY <3>1, <3>2
  <2>4. /\ \/ i \in 1..Len(entered[l]) /\ entered'[l][i] = entered[l][i]
           \/ l = lane /\ i = Len(entered[lane]) + 1 /\ entered'[l][i] = line
        /\ \/ j \in 1..Len(entered[m]) /\ entered'[m][j] = entered[m][j]
           \/ m = lane /\ j = Len(entered[lane]) + 1 /\ entered'[m][j] = line
    BY <2>3
  <2>5. QED
    BY <1>7, <2>2, <2>4 DEF MailInv, EnteredOnce
<1>8. EnteredOnce'
  BY <1>5, <1>6, <1>7 DEF EnteredOnce
<1>9. QED
  BY <1>2, <1>8 DEF MailInv

LEMMA HandOverInv ==
  ASSUME MailInv, NEW lanes \in SUBSET Mail!Lane, Mail!HandOver(lanes), Mail!TypeOK'
  PROVE  MailInv'
<1>1. ASSUME NEW l \in Mail!Lane
      PROVE  entered'[l] = handed'[l] \o Waiting'[l]
  <2>1. /\ handed[l] \in Seq(Line) /\ Waiting[l] \in Seq(Line)
        /\ entered'[l] = handed[l] \o Waiting[l]
    BY DEF MailInv, Mail!TypeOK, Mail!LanesAreFifo, Mail!HandOver
  <2>2. CASE l \in lanes
    <3>1. handed'[l] = handed[l] \o Waiting[l] /\ Waiting'[l] = <<>>
      BY <2>2 DEF Mail!HandOver
    <3>2. handed[l] \o Waiting[l] \in Seq(Line)
      BY <2>1, ConcatProperties
    <3>3. QED
      BY <2>1, <3>1, <3>2, ConcatEmptySeq
  <2>3. CASE l \notin lanes
    BY <2>1, <2>3 DEF Mail!HandOver
  <2>4. QED
    BY <2>2, <2>3
<1>2. entered' = entered /\ typed' = typed /\ dropped' = dropped
  BY DEF Mail!HandOver
<1>3. EnteredOnce'
  BY <1>2 DEF MailInv, EnteredOnce
<1>4. QED
  BY <1>1, <1>3 DEF MailInv, Mail!LanesAreFifo

LEMMA AbandonInv ==
  ASSUME MailInv, Mail!Abandon, Mail!TypeOK'
  PROVE  MailInv'
<1>1. /\ entered' = handed /\ handed' = handed /\ Waiting' = Mail!Empty /\ typed' = typed
      /\ dropped' = dropped \cup UNION {Range(Waiting[l]) : l \in Mail!Lane}
  BY SameRange DEF Mail!Abandon
<1>2. \A l \in Mail!Lane : /\ handed[l] \in Seq(Line) /\ Waiting[l] \in Seq(Line)
                     /\ entered[l] = handed[l] \o Waiting[l]
  BY DEF MailInv, Mail!TypeOK, Mail!LanesAreFifo
<1>3. ASSUME NEW l \in Mail!Lane
      PROVE  entered'[l] = handed'[l] \o Waiting'[l]
  BY <1>1, <1>2, MailEmpty, ConcatEmptySeq
<1>4. ASSUME NEW l \in Mail!Lane
      PROVE  Range(entered[l]) = Range(handed[l]) \cup Range(Waiting[l])
  <2>1. handed[l] \in Seq(Line) /\ Waiting[l] \in Seq(Line)
    BY <1>2
  <2>2. Range(handed[l] \o Waiting[l]) = Range(handed[l]) \cup Range(Waiting[l])
    BY <2>1, RangeConcatenation
  <2>3. QED
    BY <1>2, <2>2
<1>5. ASSUME NEW l \in Mail!Lane
      PROVE  /\ Range(handed[l]) = {handed[l][i] : i \in 1..Len(handed[l])}
             /\ Range(Waiting[l]) = {Waiting[l][i] : i \in 1..Len(Waiting[l])}
  BY <1>2, RangeEquality
<1>6. ASSUME NEW l \in Mail!Lane, NEW i \in 1..Len(handed[l])
      PROVE  i \in 1..Len(entered[l]) /\ entered[l][i] = handed[l][i]
  <2>1. handed[l] \in Seq(Line) /\ Waiting[l] \in Seq(Line)
        /\ entered[l] = handed[l] \o Waiting[l]
    BY <1>2
  <2>2. /\ i \in 1..Len(handed[l] \o Waiting[l])
        /\ (handed[l] \o Waiting[l])[i] = handed[l][i]
    BY <2>1, ConcatPositions
  <2>3. QED
    BY <2>1, <2>2
<1>7. ASSUME NEW l \in Mail!Lane, NEW m \in Mail!Lane, NEW i \in 1..Len(handed[l]),
             NEW j \in 1..Len(Waiting[m])
      PROVE  handed[l][i] # Waiting[m][j]
  <2>1. /\ handed[m] \in Seq(Line) /\ Waiting[m] \in Seq(Line)
        /\ entered[m] = handed[m] \o Waiting[m]
    BY <1>2
  <2>2. /\ \A k \in 1..Len(Waiting[m]) :
             /\ Len(handed[m]) + k \in 1..Len(handed[m] \o Waiting[m])
             /\ (handed[m] \o Waiting[m])[Len(handed[m]) + k] = Waiting[m][k]
        /\ Len(handed[m]) \in Nat /\ Len(Waiting[m]) \in Nat
    BY <2>1, ConcatPositions
  <2>3. i \in 1..Len(entered[l]) /\ entered[l][i] = handed[l][i]
    BY <1>6
  <2>4. ~ (l = m /\ i = Len(handed[m]) + j)
    BY <2>2
  <2>5. /\ Len(handed[m]) + j \in 1..Len(entered[m])
        /\ entered[m][Len(handed[m]) + j] = Waiting[m][j]
    BY <2>1, <2>2
  <2>6. QED
    BY <2>3, <2>4, <2>5 DEF MailInv, EnteredOnce
<1>8. ASSUME NEW x \in Line
      PROVE  x \in typed' <=> x \in dropped' \/ \E l \in Mail!Lane : x \in Range(entered'[l])
  <2>1. x \in dropped' <=> x \in dropped \/ \E l \in Mail!Lane : x \in Range(Waiting[l])
    BY <1>1
  <2>2. (\E l \in Mail!Lane : x \in Range(entered[l]))
          <=> \E l \in Mail!Lane : x \in Range(handed[l]) \/ x \in Range(Waiting[l])
    BY <1>4
  <2>3. QED
    BY <1>1, <2>1, <2>2 DEF MailInv, EnteredOnce
<1>9. ASSUME NEW l \in Mail!Lane, NEW x \in Range(entered'[l])
      PROVE  x \notin dropped'
  <2>1. x \in Range(handed[l]) /\ x \notin dropped
    BY <1>1, <1>4, <1>9 DEF MailInv, EnteredOnce
  <2>2. ASSUME NEW m \in Mail!Lane PROVE x \notin Range(Waiting[m])
    <3>1. PICK i \in 1..Len(handed[l]) : x = handed[l][i]
      BY <1>5, <2>1
    <3>2. SUFFICES ASSUME x \in Range(Waiting[m]) PROVE FALSE
      OBVIOUS
    <3>3. PICK j \in 1..Len(Waiting[m]) : x = Waiting[m][j]
      BY <1>5, <3>2
    <3>4. QED
      BY <1>7, <3>1, <3>3
  <2>3. QED
    BY <1>1, <2>1, <2>2
<1>10. ASSUME NEW l \in Mail!Lane, NEW m \in Mail!Lane,
              NEW i \in 1..Len(handed[l]), NEW j \in 1..Len(handed[m]),
              handed[l][i] = handed[m][j]
       PROVE  l = m /\ i = j
  <2>1. /\ i \in 1..Len(entered[l]) /\ entered[l][i] = handed[l][i]
        /\ j \in 1..Len(entered[m]) /\ entered[m][j] = handed[m][j]
    BY <1>6
  <2>2. QED
    BY <1>10, <2>1 DEF MailInv, EnteredOnce
<1>11. EnteredOnce'
  <2>1. \A l, m \in Mail!Lane : \A i \in 1..Len(entered'[l]), j \in 1..Len(entered'[m]) :
          entered'[l][i] = entered'[m][j] => l = m /\ i = j
    BY <1>1, <1>10
  <2>2. QED
    BY <1>8, <1>9, <2>1 DEF EnteredOnce
<1>12. QED
  BY <1>3, <1>11 DEF MailInv, Mail!LanesAreFifo

THEOREM MailboxInv == Mail!Spec => []MailInv
<1>1. MailInv /\ Mail!TypeOK' /\ [Mail!Next]_(Mail!vars) => MailInv'
  <2>1. SUFFICES ASSUME MailInv, Mail!TypeOK', [Mail!Next]_(Mail!vars) PROVE MailInv'
    OBVIOUS
  <2>2. ASSUME NEW line \in Line, NEW lane \in Mail!Lane, Mail!Accept(line, lane) PROVE MailInv'
    BY <2>1, <2>2, AcceptInv
  <2>3. ASSUME NEW lanes \in SUBSET Mail!Lane, Mail!HandOver(lanes) PROVE MailInv'
    BY <2>1, <2>3, HandOverInv
  <2>4. CASE Mail!Rest \/ UNCHANGED Mail!vars
    <3>1. /\ Waiting' = Waiting /\ handed' = handed /\ entered' = entered
          /\ typed' = typed /\ dropped' = dropped
      BY <2>4 DEF Mail!Rest, Mail!vars
    <3>2. QED
      BY <2>1, <3>1 DEF MailInv, Mail!LanesAreFifo, EnteredOnce
  <2>5. CASE Mail!Abandon
    BY <2>1, <2>5, AbandonInv
  <2>6. QED
    BY <2>1, <2>2, <2>3, <2>4, <2>5 DEF Mail!Next
<1>2. QED
  BY InvInit, <1>1, MailboxTypes, PTL DEF Mail!Spec

(* No accepted line is lost, repeated or reordered on its lane unless an   *)
(* abort discards what waits (queue.py drains, runner.py boundaries).      *)
THEOREM MailboxFifo == Mail!Spec => []Mail!LanesAreFifo
<1>1. MailInv => Mail!LanesAreFifo
  BY DEF MailInv
<1>2. QED
  BY <1>1, MailboxInv, PTL

(* Every line accepted is given to the model once, waits once, or is       *)
(* discarded: never two of these, and never twice.                         *)
THEOREM MailboxOnce == Mail!Spec => []Mail!EveryLineOnce
<1>1. ASSUME MailInv PROVE Mail!EveryLineOnce
  <2>1. \A l \in Mail!Lane : Mail!Held(l) = entered[l]
    BY <1>1 DEF MailInv, Mail!LanesAreFifo, Mail!Held
  <2>2. \A l \in Mail!Lane : Range(entered[l]) \subseteq Line
    BY <1>1, RangeOfSeq DEF MailInv, Mail!TypeOK
  <2>3. typed = dropped \cup UNION {Range(entered[l]) : l \in Mail!Lane}
    BY <1>1, <2>2 DEF MailInv, EnteredOnce, Mail!TypeOK
  <2>4. UNION {Range(Mail!Held(l)) : l \in Mail!Lane} = UNION {Range(entered[l]) : l \in Mail!Lane}
    BY <2>1
  <2>5. \A l \in Mail!Lane : Range(Mail!Held(l)) \cap dropped = {}
    BY <1>1, <2>1 DEF MailInv, EnteredOnce
  <2>6. \A l, m \in Mail!Lane : \A i \in 1..Len(Mail!Held(l)), j \in 1..Len(Mail!Held(m)) :
          Mail!Held(l)[i] = Mail!Held(m)[j] => l = m /\ i = j
    BY <1>1, <2>1 DEF MailInv, EnteredOnce
  <2>7. QED
    BY <2>3, <2>4, <2>5, <2>6, SameRange DEF Mail!EveryLineOnce
<1>2. QED
  BY <1>1, MailboxInv, PTL

----------------------------------------------------------------------------
(* On each way in, the model is given the lines in the order they were     *)
(* typed, and none is lost or repeated (queue.py, runner.py).              *)
THEOREM HarnessFifo == Spec => []LanesAreFifo
  BY HarnessKeepsMailbox, MailboxFifo, PTL DEF KeepsMailbox, LanesAreFifo

(* A line is in one place only: given to the model, waiting, or discarded, *)
(* never two of them (queue.py, runner.py).                                *)
THEOREM HarnessLineOnce == Spec => []EveryLineOnce
  BY HarnessKeepsMailbox, MailboxOnce, PTL DEF KeepsMailbox, EveryLineOnce

============================================================================
