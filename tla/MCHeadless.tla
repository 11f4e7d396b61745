----------------------------- MODULE MCHeadless -----------------------------
(* Every way to launch the command, with no ceiling or one of two requests. *)
EXTENDS Headless

Caps == {0, 2}

\* What a Worker Task's inputs hold matters to a Worker Task without TASK only.
EveryLaunch ==
    {l \in [worker : BOOLEAN, explicit : BOOLEAN, prompt : BOOLEAN, opted : BOOLEAN,
            mode : {"none", "docker", "modal"}, repo : BOOLEAN, cap : Caps, summary : BOOLEAN] :
        l.prompt => l.worker /\ ~l.explicit}
=============================================================================
