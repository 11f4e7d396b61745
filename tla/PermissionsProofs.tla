-------------------------- MODULE PermissionsProofs --------------------------
(* Proofs about Permissions, for any catalog of personas, any settings and  *)
(* any responses: what runs was let through by someone who may.             *)
EXTENDS Permissions, TLAPS

States == {"new", "deferred", "asking", "approved", "ran", "refused"}
CallRecord == [of : Call, st : States, by : {"none", "inline", "rule", "mode", "human", "crash"},
               mode : Modes \cup {"none"}, denied : BOOLEAN, under : Modes \cup {"none"}]

Consented(c) ==
  Kind(c.of) # "read_only" => \/ c.by \in {"human", "rule"}
                              \/ c.mode = "bypass"
                              \/ c.mode = "edit" /\ Kind(c.of) = "file_edit"

\* What is let run has consent from then on, and nothing but an inline call was denied.
Lawful(c) ==
  /\ c \in CallRecord
  /\ c.st \in {"new", "deferred", "asking"} => ~c.denied
  /\ c.st \in {"deferred", "approved"} => Gated(c.of)
  /\ c.st = "approved" => Consented(c) /\ ~c.denied
  /\ c.st = "ran" /\ Gated(c.of) => Consented(c) /\ (c.by # "inline" => ~c.denied)

\* A pending request is that of a call that waits.
LawInv ==
  /\ mode \in Modes
  /\ calls = [i \in DOMAIN calls |-> calls[i]] /\ 0 \notin DOMAIN calls
  /\ \A i \in DOMAIN calls : Lawful(calls[i])
  /\ asked # 0 => asked \in DOMAIN calls /\ calls[asked].st = "asking"

LEMMA FreshIsLawful == ASSUME NEW c \in Call PROVE Lawful(Fresh(c))
<1>1. Fresh(c) \in CallRecord
  BY DEF Fresh, CallRecord, States
<1>2. QED
  BY <1>1 DEF Fresh, Lawful

\* One call changes, lawfully, and the channel is pending for it or for none.
LEMMA OneCall ==
  ASSUME LawInv, NEW i \in DOMAIN calls, NEW c, calls' = [calls EXCEPT ![i] = c], Lawful(c),
         asked' = 0 \/ (asked' = i /\ c.st = "asking") \/ (asked' = asked /\ asked # i),
         mode' \in Modes
  PROVE  LawInv'
<1>1. DOMAIN calls' = DOMAIN calls /\ calls' = [j \in DOMAIN calls' |-> calls'[j]] /\ calls'[i] = c
  BY DEF LawInv
<1>2. \A j \in DOMAIN calls : j # i => calls'[j] = calls[j]
  BY DEF LawInv
<1>3. \A j \in DOMAIN calls' : Lawful(calls'[j])
  BY <1>1, <1>2 DEF LawInv
<1>4. asked' # 0 => asked' \in DOMAIN calls' /\ calls'[asked'].st = "asking"
  BY <1>1, <1>2 DEF LawInv
<1>5. QED
  BY <1>1, <1>3, <1>4 DEF LawInv

LEMMA RespondKeeps == ASSUME LawInv, NEW cs \in Response, Respond(cs) PROVE LawInv'
<1>1. cs \in Seq(Call)
  BY CatalogAssumption
<1>2. 0 \notin DOMAIN cs /\ \A i \in DOMAIN cs : cs[i] \in Call
  BY <1>1
<1>3. calls' = [i \in DOMAIN cs |-> Fresh(cs[i])] /\ UNCHANGED <<mode, asked>>
  BY DEF Respond, gate
<1>4. asked = 0
  BY DEF LawInv, Respond, Settled
<1>5. \A i \in DOMAIN calls' : Lawful(calls'[i])
  BY <1>2, <1>3, FreshIsLawful
<1>6. QED
  BY <1>2, <1>3, <1>4, <1>5 DEF LawInv

\* A call that starts: inline in bypass mode, where no rule is consulted, or deferred.
LEMMA ExecuteKeeps == ASSUME LawInv, NEW i \in DOMAIN calls, ExecuteGated(i) PROVE LawInv'
<1> DEFINE c == calls[i]
           now == [c EXCEPT !.st = "ran", !.by = "inline", !.under = mode, !.mode = mode, !.denied = Denied(c.of)]
           later == [c EXCEPT !.st = "deferred"]
<1>1. Lawful(c) /\ c \in CallRecord /\ c.st = "new" /\ Gated(c.of) /\ mode \in Modes
  BY DEF LawInv, Lawful, ExecuteGated
<1>2. \/ mode = "bypass" /\ calls' = [calls EXCEPT ![i] = now]
      \/ calls' = [calls EXCEPT ![i] = later]
  BY Zenon DEF ExecuteGated, Ran
<1>3. UNCHANGED <<mode, asked>> /\ asked # i
  BY <1>1 DEF ExecuteGated, gate, LawInv
<1>4. mode = "bypass" => Lawful(now)
  <2>1. now.st = "ran" /\ now.by = "inline" /\ now.mode = mode /\ now.of = c.of
    BY <1>1, Zenon DEF CallRecord
  <2>2. now \in CallRecord
    <3>1. Denied(c.of) \in BOOLEAN
      BY DEF Denied
    <3>2. "ran" \in States /\ mode \in Modes \cup {"none"} /\ "inline" \in {"none", "inline", "rule", "mode", "human", "crash"}
      BY <1>1 DEF States
    <3>3. QED
      BY <1>1, <3>1, <3>2, Zenon DEF CallRecord
  <2> HIDE DEF now
  <2>3. QED
    BY <2>1, <2>2 DEF Lawful, Consented
<1>5. Lawful(later)
  BY <1>1 DEF Lawful, CallRecord, States
<1> HIDE DEF now, later
<1>6. QED
  BY <1>2, <1>3, <1>4, <1>5, <1>1, OneCall

\* The plan-mode tools change no gated call, but for the leg that crashes.
LEMMA PlanKeeps ==
  ASSUME LawInv, NEW i \in DOMAIN calls, EnterPlan(i) \/ ExitPlan(i)
  PROVE  LawInv'
<1> DEFINE c == calls[i]
           entered == [c EXCEPT !.st = "ran"]
           asking == [c EXCEPT !.st = "asking"]
           ended(j) == [calls[j] EXCEPT !.st = "refused", !.by = IF j = i THEN "crash" ELSE calls[j].by]
<1>1. Lawful(c) /\ c \in CallRecord /\ c.st = "new" /\ ~Gated(c.of) /\ asked # i
  <2>1. Lawful(c) /\ c.st = "new" /\ (c.of[1] = "enter_plan" \/ c.of[1] = "exit_plan")
    BY DEF LawInv, EnterPlan, ExitPlan
  <2>2. QED
    BY <2>1 DEF LawInv, Lawful, Gated
<1>2. CASE EnterPlan(i)
  <2>1. calls' = [calls EXCEPT ![i] = entered] /\ asked' = asked /\ mode' \in Modes
    BY <1>2 DEF EnterPlan, Modes
  <2>2. Lawful(entered)
    BY <1>1 DEF Lawful, CallRecord, States
  <2> HIDE DEF entered
  <2>3. QED
    BY <1>1, <2>1, <2>2, OneCall
<1>3. CASE asked' = i /\ calls' = [calls EXCEPT ![i] = asking] /\ mode' = mode
  <2>1. Lawful(asking) /\ asking.st = "asking"
    BY <1>1 DEF Lawful, CallRecord, States
  <2> HIDE DEF asking
  <2>2. QED
    BY <1>3, <2>1, OneCall DEF LawInv
<1>4. CASE asked' = 0 /\ calls' = [j \in DOMAIN calls |-> IF Settled(j) THEN calls[j] ELSE ended(j)] /\ mode' = mode
  <2>1. ASSUME NEW j \in DOMAIN calls PROVE Lawful(ended(j))
    <3>1. calls[j] \in CallRecord
      BY DEF LawInv, Lawful
    <3>2. ended(j).st = "refused"
      BY <3>1, Zenon DEF CallRecord
    <3>3. "refused" \in States /\ (IF j = i THEN "crash" ELSE calls[j].by) \in {"none", "inline", "rule", "mode", "human", "crash"}
      BY <3>1 DEF States, CallRecord
    <3>4. ended(j) \in CallRecord
      BY <3>1, <3>3, Zenon DEF CallRecord
    <3> HIDE DEF ended
    <3>5. QED
      BY <3>2, <3>4 DEF Lawful
  <2> HIDE DEF ended
  <2>2. QED
    BY <1>4, <2>1 DEF LawInv
<1>5. QED
  BY <1>2, <1>3, <1>4, Zenon DEF ExitPlan, gate

\* The gate lets a call go only if no rule denies it, and by a rule or by its mode.
LEMMA CheckConsents ==
  ASSUME mode \in Modes, NEW c \in Call, Gated(c), Check(c) = "allow"
  PROVE  /\ ~Denied(c)
         /\ \/ Allowed(c)
            \/ Kind(c) = "read_only"
            \/ mode = "bypass"
            \/ mode = "edit" /\ Kind(c) = "file_edit"
  BY DEF Check, ByMode, Modes, Kind, Call, Gated

LEMMA DecideKeeps == ASSUME LawInv, NEW i \in DOMAIN calls, Decide(i) PROVE LawInv'
<1> DEFINE c == calls[i]
           by == IF Allowed(c.of) THEN "rule" ELSE "mode"
           ask == [c EXCEPT !.st = "asking", !.mode = mode]
           deny == [c EXCEPT !.st = "refused"]
           allow == [c EXCEPT !.st = "approved", !.mode = mode, !.by = by, !.denied = Denied(c.of)]
<1>1. Lawful(c) /\ c \in CallRecord /\ c.st = "deferred" /\ Gated(c.of) /\ ~c.denied /\ mode \in Modes /\ c.of \in Call
  BY DEF LawInv, Lawful, CallRecord, Decide
<1>2. \/ asked' = i /\ calls' = [calls EXCEPT ![i] = ask]
      \/ asked' = 0 /\ calls' = [calls EXCEPT ![i] = deny]
      \/ Check(c.of) = "allow" /\ asked' = 0 /\ calls' = [calls EXCEPT ![i] = allow]
  BY Zenon DEF Decide
<1>3. mode' = mode
  BY DEF Decide, gate
<1>4. Lawful(ask) /\ ask.st = "asking"
  <2>1. ask.st = "asking" /\ ask.denied = c.denied /\ "asking" \in States /\ mode \in Modes \cup {"none"}
    BY <1>1, Zenon DEF CallRecord, States
  <2>2. ask \in CallRecord
    BY <1>1, <2>1, Zenon DEF CallRecord
  <2> HIDE DEF ask
  <2>3. QED
    BY <1>1, <2>1, <2>2 DEF Lawful
<1>5. Lawful(deny)
  BY <1>1 DEF Lawful, CallRecord, States
<1>6. Check(c.of) = "allow" => Lawful(allow)
  <2> SUFFICES ASSUME Check(c.of) = "allow" PROVE Lawful(allow)
    OBVIOUS
  <2>1. /\ allow.st = "approved" /\ allow.mode = mode /\ allow.by = by /\ allow.denied = Denied(c.of)
        /\ allow.of = c.of
    BY <1>1, Zenon DEF CallRecord
  <2>2. /\ "approved" \in States /\ mode \in Modes \cup {"none"} /\ Denied(c.of) \in BOOLEAN
        /\ by \in {"none", "inline", "rule", "mode", "human", "crash"}
    BY <1>1 DEF States, Denied
  <2>3. allow \in CallRecord
    BY <1>1, <2>2, Zenon DEF CallRecord
  <2>4. ~Denied(c.of) /\ (by = "rule" \/ Kind(c.of) = "read_only" \/ mode = "bypass" \/ (mode = "edit" /\ Kind(c.of) = "file_edit"))
    BY <1>1, CheckConsents
  <2> HIDE DEF allow, by
  <2>5. QED
    BY <1>1, <2>1, <2>3, <2>4 DEF Lawful, Consented
<1> HIDE DEF ask, deny, allow
<1>7. QED
  BY <1>1, <1>2, <1>3, <1>4, <1>5, <1>6, OneCall

\* The human's line, and the run of what was approved.
LEMMA AnswerKeeps ==
  ASSUME LawInv, NEW answer, AnswerGated(answer) \/ AnswerPlan(answer)
  PROVE  LawInv'
<1> DEFINE c == calls[asked]
           by == IF answer = "no" THEN "none" ELSE "human"
           st == IF answer = "no" THEN "refused" ELSE "approved"
           gated == [c EXCEPT !.st = st, !.by = by]
           of == IF answer = "yes" THEN "human" ELSE "none"
           plan == [c EXCEPT !.st = "ran", !.by = of]
<1>1. asked \in DOMAIN calls /\ Lawful(c) /\ c \in CallRecord /\ ~c.denied /\ mode \in Modes /\ asked' = 0
  BY DEF LawInv, Lawful, AnswerGated, AnswerPlan
<1>2. CASE AnswerGated(answer)
  <2>1. calls' = [calls EXCEPT ![asked] = gated] /\ Gated(c.of) /\ mode' = mode
    BY <1>2, Zenon DEF AnswerGated
  <2>2. gated.st = st /\ gated.by = by /\ gated.of = c.of /\ gated.denied = c.denied
    BY <1>1, Zenon DEF CallRecord
  <2>3. st \in States /\ by \in {"none", "inline", "rule", "mode", "human", "crash"}
    BY DEF States
  <2>4. gated \in CallRecord
    BY <1>1, <2>3, Zenon DEF CallRecord
  <2> HIDE DEF gated
  <2>5. Lawful(gated)
    BY <1>1, <2>1, <2>2, <2>4 DEF Lawful, Consented
  <2>6. QED
    BY <1>1, <2>1, <2>5, OneCall
<1>3. CASE AnswerPlan(answer)
  <2>1. calls' = [calls EXCEPT ![asked] = plan] /\ ~Gated(c.of) /\ mode' \in Modes
    <3>1. calls' = [calls EXCEPT ![asked] = plan] /\ ~Gated(c.of)
      BY <1>3, Zenon DEF AnswerPlan
    <3>2. mode' \in Modes
      BY <1>1, <1>3 DEF AnswerPlan, Modes
    <3>3. QED
      BY <3>1, <3>2
  <2>2. plan.st = "ran" /\ plan.of = c.of
    BY <1>1, Zenon DEF CallRecord
  <2>3. "ran" \in States /\ of \in {"none", "inline", "rule", "mode", "human", "crash"}
    BY DEF States
  <2>4. plan \in CallRecord
    BY <1>1, <2>3, Zenon DEF CallRecord
  <2> HIDE DEF plan
  <2>5. Lawful(plan)
    BY <2>1, <2>2, <2>4 DEF Lawful
  <2>6. QED
    BY <1>1, <2>1, <2>5, OneCall
<1>4. QED
  BY <1>2, <1>3

LEMMA ResumeKeeps == ASSUME LawInv, NEW i \in DOMAIN calls, Resume(i) PROVE LawInv'
<1> DEFINE c == calls[i]
           r == [c EXCEPT !.st = "ran", !.under = mode]
<1>1. Lawful(c) /\ c \in CallRecord /\ c.st = "approved" /\ mode \in Modes /\ asked # i
  BY DEF LawInv, Lawful, Resume
<1>2. calls' = [calls EXCEPT ![i] = r] /\ UNCHANGED <<mode, asked>>
  BY Zenon DEF Resume, gate
<1>3. r.st = "ran" /\ r.of = c.of /\ r.by = c.by /\ r.mode = c.mode /\ r.denied = c.denied
  BY <1>1, Zenon DEF CallRecord
<1>4. "ran" \in States /\ mode \in Modes \cup {"none"}
  BY <1>1 DEF States
<1>5. r \in CallRecord
  BY <1>1, <1>4, Zenon DEF CallRecord
<1> HIDE DEF r
<1>6. Lawful(r)
  BY <1>1, <1>3, <1>5 DEF Lawful, Consented
<1>7. QED
  BY <1>1, <1>2, <1>6, OneCall

\* Keys, commands and the settings file: the mode and the rules change, no call does.
LEMMA GateKeeps ==
  ASSUME LawInv, UNCHANGED <<calls, asked>>, mode' \in Modes
  PROVE  LawInv'
  BY DEF LawInv

\* The inductive invariant: each call is lawful at every point of its life.
THEOREM PermissionsLaw == Spec => []LawInv
<1>1. Init => LawInv
  BY CatalogAssumption DEF Init, LawInv
<1>2. LawInv /\ [Next]_vars => LawInv'
  <2> SUFFICES ASSUME LawInv, [Next]_vars PROVE LawInv'
    OBVIOUS
  <2>1. ASSUME CycleMode \/ (\E m \in Modes : ModeCommand(m)) \/ (\E p \in Persona : AgentCommand(p))
               \/ (\E f \in Files : EditSettings(f)) \/ UNCHANGED vars
        PROVE  UNCHANGED <<calls, asked>> /\ mode' \in Modes
    BY <2>1, CatalogAssumption DEF LawInv, CycleMode, Mode, Modes, ModeCommand, AgentCommand, EditSettings, vars, gate
  <2>2. QED
    BY <2>1, GateKeeps, RespondKeeps, ExecuteKeeps, PlanKeeps, DecideKeeps, AnswerKeeps, ResumeKeeps DEF Next
<1>3. QED
  BY <1>1, <1>2, PTL DEF Spec

\* Whatever is typed, pressed and saved between the decision about a call and its run: what
\* changes something had the human's yes, a rule or a mode that lets its kind run, and what
\* went through the gate was denied by no rule (permissions/gate.py, agent/loop.py).
THEOREM PermissionsOnlyAllowed == Spec => []OnlyAllowedRuns
<1>1. LawInv => OnlyAllowedRuns
  BY DEF LawInv, Lawful, Consented, OnlyAllowedRuns, ConsentBeforeMutation, DenyRuleWins, HasRun
<1>2. QED
  BY PermissionsLaw, <1>1, PTL
=============================================================================
