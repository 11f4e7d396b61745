------------------------------ MODULE MCFiles ------------------------------
(* Texts over a letter, a blank and the two line ends.                      *)
EXTENDS Files

CONSTANTS MaxBody, MaxOld

Texts(max) == UNION {[1 .. n -> {"a", " ", "N", "R"}] : n \in 0 .. max}

ShortBodies == Texts(MaxBody) \union {<<"a">> \o t \o <<"a">> : t \in Texts(2)}
ShortOlds   == Texts(MaxOld) \union {<<"a", c, "a">> : c \in {" ", "N"}}
SomeNews    == {<<>>, <<"b", "N">>}
SomeWindows == [offset : {0, 2, 3}, limit : {0, 1, NoLimit}]
SomeCaps    == {1, 3} \X {2, 4, 6}
=============================================================================
