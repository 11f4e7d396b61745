------------------------------ MODULE MCRemote ------------------------------
(* A request of every shape, for one or for more repositories.              *)
EXTENDS Remote

Ask(mode, repo, over) == [mode |-> mode, repo |-> repo, over |-> over]

SomeRequests ==
    {Ask("docker", NoRepo, FALSE), Ask("none", NoRepo, TRUE)}
      \union [mode : {"none", "modal"}, repo : Repos, over : {FALSE}]
=============================================================================
