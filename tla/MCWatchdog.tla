----------------------------- MODULE MCWatchdog -----------------------------
(***************************************************************************)
(* Watchdog for TLC: a quick task, a slow one and DiagnosticsTask, with    *)
(* different deadlines, and a clock that outlasts all of them.             *)
(***************************************************************************)
EXTENDS Watchdog

MCTasks == {"UiTask", "PowerTask", DiagnosticsTask}

MCDeadline == [t \in MCTasks |-> CASE t = "UiTask" -> 1
                                   [] t = "PowerTask" -> 2
                                   [] OTHER -> 3]
=============================================================================
