----------------------------- MODULE MCHandback -----------------------------
EXTENDS Handback

OneSession == <<"s1">>
TwoSessions == <<"s1", "s2">>
=============================================================================
