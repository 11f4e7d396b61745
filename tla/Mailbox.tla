------------------------------ MODULE Mailbox ------------------------------
(***************************************************************************)
(* What the harness promises about a line the user submits, with no word   *)
(* on how turns run (harness/runner.py, harness/queue.py).  A line is      *)
(* accepted on one of three lanes: it opens a turn when none is in flight, *)
(* and steers it or follows it up otherwise.  Whole lanes are handed to    *)
(* the model, only while a turn is in flight; a turn ends either resting,  *)
(* with whatever still waits kept, or abandoned, with it all discarded.    *)
(***************************************************************************)
EXTENDS Naturals, Sequences, Functions

CONSTANT Line

VARIABLES waiting,  \* per lane: accepted lines the model has not been given
          handed,   \* per lane: lines given to the model
          entered,  \* per lane: lines accepted and not discarded
          typed,    \* every line accepted so far
          dropped,  \* lines discarded
          busy      \* a turn is in flight

vars == <<waiting, handed, entered, typed, dropped, busy>>

Lane == {"opening", "steering", "followUp"}

Empty == [l \in Lane |-> <<>>]

Init ==
  /\ waiting = Empty /\ handed = Empty /\ entered = Empty
  /\ typed = {} /\ dropped = {} /\ busy = FALSE

Accept(line, lane) ==
  /\ line \notin typed
  /\ (lane = "opening") <=> ~busy
  /\ waiting' = [waiting EXCEPT ![lane] = Append(@, line)]
  /\ entered' = [entered EXCEPT ![lane] = Append(@, line)]
  /\ typed' = typed \cup {line}
  /\ busy' = TRUE
  /\ UNCHANGED <<handed, dropped>>

HandOver(lanes) ==
  /\ busy
  /\ handed' = [l \in Lane |-> IF l \in lanes THEN handed[l] \o waiting[l]
                                              ELSE handed[l]]
  /\ waiting' = [l \in Lane |-> IF l \in lanes THEN <<>> ELSE waiting[l]]
  /\ UNCHANGED <<entered, typed, dropped, busy>>

Rest ==
  /\ busy /\ waiting["opening"] = <<>>
  /\ busy' = FALSE
  /\ UNCHANGED <<waiting, handed, entered, typed, dropped>>

Abandon ==
  /\ busy
  /\ busy' = FALSE
  /\ dropped' = dropped \cup UNION {Range(waiting[l]) : l \in Lane}
  /\ waiting' = Empty
  /\ entered' = handed
  /\ UNCHANGED <<handed, typed>>

Next ==
  \/ \E line \in Line, lane \in Lane : Accept(line, lane)
  \/ \E lanes \in SUBSET Lane : HandOver(lanes)
  \/ Rest
  \/ Abandon

Spec == Init /\ [][Next]_vars

----------------------------------------------------------------------------
(* Every variable has its type. *)
TypeOK ==
  /\ waiting \in [Lane -> Seq(Line)]
  /\ handed \in [Lane -> Seq(Line)]
  /\ entered \in [Lane -> Seq(Line)]
  /\ typed \in SUBSET Line /\ dropped \in SUBSET Line
  /\ busy \in BOOLEAN

(* Nothing is lost, repeated or reordered on a lane: what was accepted and *)
(* not discarded is exactly what the model was given followed by what      *)
(* still waits.                                                            *)
LanesAreFifo == \A l \in Lane : entered[l] = handed[l] \o waiting[l]

(* What of a lane is left once the discarded lines are taken out. *)
Held(l) == handed[l] \o waiting[l]

(* Every line accepted is in exactly one place: at one position of one     *)
(* lane, given to the model or waiting, or discarded.                      *)
EveryLineOnce ==
  /\ typed = dropped \cup UNION {Range(Held(l)) : l \in Lane}
  /\ \A l \in Lane : Range(Held(l)) \cap dropped = {}
  /\ \A l, m \in Lane : \A i \in 1..Len(Held(l)), j \in 1..Len(Held(m)) :
       Held(l)[i] = Held(m)[j] => l = m /\ i = j

============================================================================
