---------------------------- MODULE MCGameLaunch ----------------------------
(***************************************************************************)
(* Instances that are set up so that every step, way of stopping and kind  *)
(* of profiler occurs, and the ones that meet in a step occur together.    *)
(***************************************************************************)
EXTENDS GameLaunch

Plain == [validMethod |-> TRUE, server |-> FALSE, pre |-> FALSE, post |-> FALSE,
          session |-> "online", listed |-> TRUE, jarMods |-> FALSE, nativeJars |-> 1,
          direct |-> FALSE, profiler |-> "none"]

MCSettings ==
  {Plain,
   [Plain EXCEPT !.validMethod = FALSE],
   [Plain EXCEPT !.listed = FALSE, !.server = TRUE],
   [Plain EXCEPT !.server = TRUE, !.jarMods = TRUE, !.direct = TRUE],
   [Plain EXCEPT !.server = TRUE, !.pre = TRUE, !.session = "offline"],
   [Plain EXCEPT !.pre = TRUE, !.post = TRUE, !.nativeJars = 2, !.session = "demo"],
   [Plain EXCEPT !.profiler = "broken", !.jarMods = TRUE],
   [Plain EXCEPT !.profiler = "attached", !.post = TRUE],
   [Plain EXCEPT !.profiler = "attached", !.direct = TRUE, !.nativeJars = 0]}
=============================================================================
