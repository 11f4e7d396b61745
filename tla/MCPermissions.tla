--------------------------- MODULE MCPermissions ---------------------------
(* Personas and settings for Permissions: one rule of each kind, of each   *)
(* source, and one pair that contradicts itself.                           *)
EXTENDS Permissions

MCPersona ==
  {[mode |-> "default", rules |-> NoRules],
   [mode |-> "default", rules |-> [allow |-> {<<"bash", "any">>}, deny |-> {}]],
   [mode |-> "plan", rules |-> NoRules]}

MCSettings ==
  {NoRules,
   [allow |-> {<<"edit", "plain">>}, deny |-> {<<"bash", "plain">>}]}

(* One call, or two of which each may be asked for or change the gate. *)
MCResponse ==
  {<<c>> : c \in Call}
    \cup {<<c, d>> : c \in Call \ {<<"read", "plain">>, <<"enter_plan", "plain">>},
                    d \in Call \ {<<"read", "plain">>}}
============================================================================
