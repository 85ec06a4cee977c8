--------------------------- MODULE MCLifecycleRun ---------------------------
(* Small instances of LifecycleRun for TLC.                                *)
EXTENDS LifecycleRun

Server(live, deleted) ==
  [p \in Projects |-> IF p \in live THEN "live"
                      ELSE IF p \in deleted THEN "deleted" ELSE "absent"]

\* The ways in which a server may resemble the configuration.
SomeProjects ==
  {Server({"bound"}, {}), Server({"namesake", "homonym"}, {"bound"}),
   Server({"homonym", "twin"}, {"bound", "namesake"})}
=============================================================================
