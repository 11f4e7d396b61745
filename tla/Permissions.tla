---------------------------- MODULE Permissions ----------------------------
(***************************************************************************)
(* Who lets a tool call run: the gate with its mode and two sources of     *)
(* rules (permissions/gate.py, permissions/rules.py), the deferral of      *)
(* gated tools (tools/approval.py), their decision one by one and the      *)
(* resume leg (agent/loop.py), the plan-mode tools (tools/orchestration.py)*)
(* and the human: keys and commands that change mode, persona and rules in *)
(* the middle of a turn, and answers on the one decision channel           *)
(* (tui/app.py, harness/decisions.py).                                     *)
(*                                                                         *)
(* The calls of one response run as tasks of their own, in any order.  A   *)
(* subject is "plain", such as `ls a`, or "class", such as `ls [ab]`: read *)
(* as a glob it matches the plain one and not itself.                      *)
(***************************************************************************)
EXTENDS Naturals, Sequences

CONSTANTS Persona,       \* the catalog: records of a mode and a rule set
          Settings,      \* rule sets a user may write into settings.json
          Response,      \* what the model may answer: sequences of calls
          MaxResponses   \* bound: model responses

NoRules == [allow |-> {}, deny |-> {}]

Mode == <<"default", "edit", "plan", "bypass">>   \* in the order of Shift+Tab
Modes == {"default", "edit", "plan", "bypass"}

Call == {<<"read", "plain">>, <<"edit", "plain">>, <<"bash", "plain">>,
         <<"bash", "class">>, <<"enter_plan", "plain">>, <<"exit_plan", "plain">>}

Rule == {"edit", "bash"} \X {"any", "plain", "class"}

ASSUME CatalogAssumption ==
  /\ MaxResponses \in Nat
  /\ NoRules \in Settings
  /\ Response \subseteq Seq(Call)
  /\ \A p \in Persona : p.mode \in Modes
  /\ \E p \in Persona : p = [mode |-> "default", rules |-> NoRules]

VARIABLES
  mode,       \* PermissionGate._mode
  user,       \* PermissionGate._user_rules
  agent,      \* PermissionGate._agent_rules
  file,       \* .decode/settings.json; ok is FALSE when it does not parse
  calls,      \* the calls of the response under way
  asked,      \* the call the decision channel is pending for, or 0
  responses,  \* responses so far
  granted     \* history: calls answered "always", while settings.json is left alone

gate == <<mode, user, agent>>
vars == <<gate, file, calls, asked, responses, granted>>

(* A call with its state, who let it run, the mode it was let run in, if a *)
(* deny rule spoke against it, and the mode it ran in.                     *)
Fresh(c) == [of |-> c, st |-> "new", by |-> "none", mode |-> "none",
             denied |-> FALSE, under |-> "none"]

Init ==
  /\ \E s \in Settings : user = s /\ file = [ok |-> TRUE, rules |-> s]
  /\ \E p \in Persona : agent = p.rules /\ mode = p.mode
  /\ calls = <<>> /\ asked = 0 /\ responses = 0 /\ granted = {}

----------------------------------------------------------------------------
(* The policy: deny rules of either source, then allow rules, then the     *)
(* mode by the tool's kind.                                                *)

Kind(c) == CASE c[1] = "read" -> "read_only"
             [] c[1] = "edit" -> "file_edit"
             [] OTHER -> "other"

Matches(rule, c) ==
  /\ rule[1] = c[1]
  /\ \/ rule[2] = "any"
     \/ rule[2] = "plain" /\ c[2] = "plain"
     \/ rule[2] = "class" /\ c[2] = "plain"

Denied(c)  == \E r \in user.deny \cup agent.deny : Matches(r, c)
Allowed(c) == \E r \in user.allow \cup agent.allow : Matches(r, c)

ByMode(c) ==
  CASE mode = "bypass" \/ Kind(c) = "read_only"   -> "allow"
    [] mode = "plan" /\ Kind(c) # "read_only"     -> "deny"
    [] mode = "edit" /\ Kind(c) = "file_edit"     -> "allow"
    [] mode = "edit" /\ Kind(c) = "other"         -> "ask"
    [] mode = "default" /\ Kind(c) # "read_only"  -> "ask"

\* Fault: an allow rule is looked up before the deny rules.
CheckAllowFirst(c) ==
  IF Allowed(c) THEN "allow" ELSE IF Denied(c) THEN "deny" ELSE ByMode(c)

Check(c) ==
  IF Denied(c) THEN "deny" ELSE IF Allowed(c) THEN "allow" ELSE ByMode(c)

----------------------------------------------------------------------------
(* A response and its first leg. *)

Settled(i) == calls[i].st \in {"ran", "refused"}
NoneIs(sts) == \A i \in DOMAIN calls : calls[i].st \notin sts

Respond(cs) ==
  /\ \A i \in DOMAIN calls : Settled(i)
  /\ responses < MaxResponses /\ responses' = responses + 1
  /\ calls' = [i \in DOMAIN cs |-> Fresh(cs[i])]
  /\ UNCHANGED <<gate, file, asked, granted>>

Gated(c) == c[1] \in {"read", "edit", "bash"}

Ran(i, by) ==
  [calls EXCEPT ![i].st = "ran", ![i].by = by, ![i].under = mode, ![i].mode = mode,
                ![i].denied = Denied(calls[i].of)]

(* needs_approval: a gated tool runs at once in bypass mode and is deferred *)
(* in any other.                                                            *)
ExecuteGated(i) ==
  /\ calls[i].st = "new" /\ Gated(calls[i].of)
  /\ calls' = IF mode = "bypass" THEN Ran(i, "inline")
                                 ELSE [calls EXCEPT ![i].st = "deferred"]
  /\ UNCHANGED <<gate, file, asked, responses, granted>>

EnterPlan(i) ==
  /\ calls[i].st = "new" /\ calls[i].of[1] = "enter_plan"
  /\ mode' = "plan"
  /\ calls' = [calls EXCEPT ![i].st = "ran"]
  /\ UNCHANGED <<user, agent, file, asked, responses, granted>>

(* exit_plan_mode asks on the decision channel, which refuses a second     *)
(* question: the RuntimeError ends the leg and everything in it.           *)
ExitPlan(i) ==
  /\ calls[i].st = "new" /\ calls[i].of[1] = "exit_plan"
  /\ \/ asked = 0 /\ asked' = i /\ calls' = [calls EXCEPT ![i].st = "asking"]
     \/ /\ asked # 0 /\ asked' = 0
        /\ calls' = [j \in DOMAIN calls |->
             IF Settled(j) THEN calls[j]
             ELSE [calls[j] EXCEPT !.st = "refused", !.by = IF j = i THEN "crash" ELSE @]]
  /\ UNCHANGED <<gate, file, responses, granted>>

----------------------------------------------------------------------------
(* The deferred calls are decided in order, each after the one before.     *)

Decide(i) ==
  LET c == calls[i].of IN
  /\ NoneIs({"new", "asking"}) /\ calls[i].st = "deferred"
  /\ \A j \in 1..(i - 1) : calls[j].st # "deferred"
  /\ \/ /\ Check(c) = "ask" /\ asked' = i
        /\ calls' = [calls EXCEPT ![i].st = "asking", ![i].mode = mode]
     \/ /\ Check(c) = "deny" /\ asked' = 0
        /\ calls' = [calls EXCEPT ![i].st = "refused"]
     \/ /\ Check(c) = "allow" /\ asked' = 0
        /\ calls' = [calls EXCEPT ![i].st = "approved", ![i].mode = mode,
                                  ![i].by = IF Allowed(c) THEN "rule" ELSE "mode",
                                  ![i].denied = Denied(c)]
  /\ UNCHANGED <<gate, file, responses, granted>>

(* persist_allow_rule: what cannot be read counts as empty. *)
Persisted(c) ==
  LET kept == IF file.ok THEN file.rules ELSE NoRules
  IN  [ok |-> TRUE, rules |-> [kept EXCEPT !.allow = @ \cup {c}]]

(* The human's line for a gated call.  "Always" also writes the rule and   *)
(* reloads the gate's, unless the file cannot be written.                  *)
AnswerGated(answer) ==
  /\ asked # 0 /\ Gated(calls[asked].of) /\ asked' = 0
  /\ calls' = [calls EXCEPT ![asked].st = IF answer = "no" THEN "refused" ELSE "approved",
                            ![asked].by = IF answer = "no" THEN "none" ELSE "human"]
  /\ \/ /\ answer = "always"
        /\ file' = Persisted(calls[asked].of) /\ user' = file'.rules
        /\ granted' = granted \cup {calls[asked].of}
     \/ UNCHANGED <<file, user, granted>>
  /\ UNCHANGED <<mode, agent, responses>>

(* The human's line for exit_plan_mode: "always" is no approval there, and *)
(* an approval means edit mode whatever the mode has become meanwhile.     *)
AnswerPlan(answer) ==
  /\ asked # 0 /\ ~Gated(calls[asked].of) /\ asked' = 0
  /\ calls' = [calls EXCEPT ![asked].st = "ran",
                            ![asked].by = IF answer = "yes" THEN "human" ELSE "none"]
  /\ mode' = IF answer = "yes" THEN "edit" ELSE mode
  /\ UNCHANGED <<user, agent, file, responses, granted>>

(* The resume leg runs what was approved, in the mode it finds. *)
Resume(i) ==
  /\ NoneIs({"new", "deferred", "asking"}) /\ calls[i].st = "approved"
  /\ calls' = [calls EXCEPT ![i].st = "ran", ![i].under = mode]
  /\ UNCHANGED <<gate, file, asked, responses, granted>>

----------------------------------------------------------------------------
(* The human in the middle of it all.  A line typed while a decision is    *)
(* pending is its answer, so the commands wait; the key does not.          *)

CycleMode ==
  /\ \E i \in 1..4 : mode = Mode[i] /\ mode' = Mode[(i % 4) + 1]
  /\ UNCHANGED <<user, agent, file, calls, asked, responses, granted>>

ModeCommand(m) ==
  /\ asked = 0 /\ mode' = m
  /\ UNCHANGED <<user, agent, file, calls, asked, responses, granted>>

AgentCommand(p) ==
  /\ asked = 0 /\ mode' = p.mode /\ agent' = p.rules
  /\ UNCHANGED <<user, file, calls, asked, responses, granted>>

(* An editor saves settings.json, valid or not.  The gate does not notice. *)
EditSettings(f) ==
  /\ file' = f /\ granted' = {}
  /\ UNCHANGED <<gate, calls, asked, responses>>

Answer == {"yes", "always", "no"}
Files == {[ok |-> TRUE, rules |-> s] : s \in Settings} \cup {[ok |-> FALSE, rules |-> NoRules]}
Next ==
  \/ \E cs \in Response : Respond(cs)
  \/ \E i \in DOMAIN calls :
       ExecuteGated(i) \/ EnterPlan(i) \/ ExitPlan(i) \/ Decide(i) \/ Resume(i)
  \/ \E a \in Answer : AnswerGated(a) \/ AnswerPlan(a)
  \/ CycleMode
  \/ \E m \in Modes : ModeCommand(m)
  \/ \E p \in Persona : AgentCommand(p)
  \/ \E f \in Files : EditSettings(f)

Spec == Init /\ [][Next]_vars

----------------------------------------------------------------------------
RuleSet == [allow : SUBSET Rule, deny : SUBSET Rule]

(* Every variable has its type, and the decision channel is pending for a  *)
(* call that waits for it.                                                 *)
TypeOK ==
  /\ mode \in Modes
  /\ user \in RuleSet /\ agent \in RuleSet
  /\ file \in [ok : BOOLEAN, rules : RuleSet]
  /\ calls \in Seq([of : Call, st : {"new", "deferred", "asking", "approved", "ran", "refused"},
                    by : {"none", "inline", "rule", "mode", "human", "crash"},
                    mode : Modes \cup {"none"}, denied : BOOLEAN, under : Modes \cup {"none"}])
  /\ asked \in 0..Len(calls)
  /\ \A i \in DOMAIN calls : calls[i].st = "asking" <=> asked = i
  /\ responses \in 0..MaxResponses /\ granted \subseteq Call

HasRun(i) == calls[i].st = "ran" /\ Gated(calls[i].of)

(* A call that changes something has run only if the human said yes to it, *)
(* a rule allowed it, or the mode it was decided in lets its kind run.     *)
ConsentBeforeMutation ==
  \A i \in DOMAIN calls : HasRun(i) /\ Kind(calls[i].of) # "read_only" =>
    \/ calls[i].by \in {"human", "rule"}
    \/ calls[i].mode = "bypass"
    \/ calls[i].mode = "edit" /\ Kind(calls[i].of) = "file_edit"

(* A call that went through the gate and ran was not denied by a rule of   *)
(* either source, whatever the other source, the mode or the human allows. *)
DenyRuleWins == \A i \in DOMAIN calls : HasRun(i) /\ calls[i].by # "inline" => ~calls[i].denied

(* Both, however modes and rules change between the decision and the run:  *)
(* what runs was let through by someone who may, and by no one refused.    *)
OnlyAllowedRuns == ConsentBeforeMutation /\ DenyRuleWins

(* "A deny rule beats everything - even bypass":                           *)
(* tests/unit/decode/permissions/test_gate.py:152.                         *)
DenyBeatsBypass == \A i \in DOMAIN calls : HasRun(i) => ~calls[i].denied

(* "PLAN denies any mutation", permissions/types.py:19: none that the      *)
(* human did not approve runs while the gate is in plan mode.              *)
PlanIsReadOnly ==
  \A i \in DOMAIN calls : HasRun(i) /\ calls[i].by \in {"mode", "inline"}
                          /\ Kind(calls[i].of) # "read_only" => calls[i].under # "plan"

(* "The next identical call auto-allows": docs/adr/0003, section 4.        *)
NextIdenticalAllowed ==
  asked # 0 /\ Gated(calls[asked].of) => calls[asked].of \notin granted

(* "Only one decision is ever pending at a time (the single-flight lock    *)
(* guarantees it)", harness/decisions.py:7: no request finds another.      *)
OneDecision == \A i \in DOMAIN calls : calls[i].by # "crash"
============================================================================
