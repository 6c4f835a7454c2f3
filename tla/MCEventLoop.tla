----------------------------- MODULE MCEventLoop -----------------------------
(* Model-checking instances of EventLoop: in one behaviour tasks and timers *)
(* are used, in another fds and one task, as load says.                    *)
EXTENDS EventLoop

CONSTANT FdTasks   \* the tasks that are posted beside fds

OneShotOrRepeating == {0, 1, 2}

VARIABLE load
loadVars == <<load, vars>>

LoadInit == load \in {"queue", "fds"} /\ Init

\* What the load has its threads do.
Uses ==
  /\ load = "queue" => UNCHANGED <<callbacks, owner>>
  /\ load = "fds" => ToSet(posted') \subseteq FdTasks /\ UNCHANGED <<timers, now>>

LoadNext == Next /\ Uses /\ UNCHANGED load

LoadSpec ==
  /\ LoadInit /\ [][LoadNext]_loadVars
  /\ WF_loadVars(Run /\ Uses /\ UNCHANGED load)
  /\ SF_loadVars(UserReturns /\ UNCHANGED load)
  /\ WF_loadVars(Tick /\ Uses /\ UNCHANGED load)
  /\ \A t \in Threads : WF_loadVars(Wake(t) /\ UNCHANGED load)
=============================================================================
