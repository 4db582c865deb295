------------------------- MODULE MCBackgroundtasks -------------------------
(***************************************************************************)
(* Two tasks of different periods: "poll" is added by a startup task, both *)
(* by anybody else.                                                        *)
(***************************************************************************)
EXTENDS Backgroundtasks

MCPeriod == [c \in Callbacks |-> IF c = "poll" THEN 1 ELSE 2]
MCEnqueues == [s \in Startups |-> "poll"]
=============================================================================
