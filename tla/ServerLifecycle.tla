-------------------------- MODULE ServerLifecycle --------------------------
(***************************************************************************)
(* Server::run, Server::stop and ~Server on their threads.  The owner of a *)
(* Server launches run() on a thread of its own, waits for it and, in the  *)
(* end, destroys the Server, as tests/client.cpp does; run() called in     *)
(* place is the case where the owner only waits.  Any other thread may     *)
(* call stop(), and so may a callback, on the thread of run() itself.      *)
(* isRunning is all these threads share with modernopc; the rest is the    *)
(* state of UA_Server, each of whose functions is one step here.           *)
(***************************************************************************)
EXTENDS Naturals

CONSTANTS
  Threads,    \* threads that call stop()
  MaxRuns     \* bound on the calls of run()

ASSUME LifecycleAssumption == MaxRuns \in Nat

VARIABLES
  isRunning, \* Server::isRunning
  ua,        \* UA_Server: "idle", "listening" or "deleted"
  run,       \* where the thread of run() is
  stopping,  \* thread -> it cleared isRunning and is about to shut down
  owner,     \* where the owner of the Server is
  runs,      \* calls of run() so far
  overtaken  \* history: the threads whose stop() run() overtook by setting
             \* isRunning between their two statements

vars == <<isRunning, ua, run, stopping, owner, runs, overtaken>>

TypeOK ==
  /\ isRunning \in BOOLEAN
  /\ ua \in {"idle", "listening", "deleted"}
  /\ run \in {"none", "called", "startup", "check", "iterate", "callback",
              "shutdown", "returned"}
  /\ stopping \in [Threads -> BOOLEAN]
  /\ owner \in {"idle", "started", "destroying", "deleting", "gone"}
  /\ runs \in 0..MaxRuns
  /\ overtaken \subseteq Threads

Init ==
  /\ isRunning = FALSE
  /\ ua = "idle"
  /\ run = "none"
  /\ stopping = [t \in Threads |-> FALSE]
  /\ owner = "idle"
  /\ runs = 0
  /\ overtaken = {}

NobodyStops == \A t \in Threads : ~stopping[t]

-----------------------------------------------------------------------------
(* run(), on its thread: isRunning = true, then UA_Server_run, which starts *)
(* up, iterates while it reads isRunning as true, and shuts down.          *)

EnterRun ==
  /\ run = "called"
  /\ run' = "startup"
  /\ isRunning' = TRUE
  /\ overtaken' = {t \in Threads : stopping[t]}
  /\ UNCHANGED <<ua, stopping, owner, runs>>

\* UA_Server_run_startup.  When it fails, UA_Server_run returns at once, and
\* run() drops the status.
Startup ==
  /\ run = "startup"
  /\ \/ run' = "check" /\ ua' = "listening"
     \/ run' = "returned" /\ UNCHANGED ua
  /\ UNCHANGED <<isRunning, stopping, owner, runs, overtaken>>

CheckFlag ==
  /\ run = "check"
  /\ run' = IF isRunning THEN "iterate" ELSE "shutdown"
  /\ UNCHANGED <<isRunning, ua, stopping, owner, runs, overtaken>>

Iterate ==
  /\ run = "iterate"
  /\ run' = "check"
  /\ UNCHANGED <<isRunning, ua, stopping, owner, runs, overtaken>>

\* A method or DataSource called by the iteration calls stop().
CallbackStop ==
  /\ run = "iterate"
  /\ run' = "callback"
  /\ isRunning' = FALSE
  /\ UNCHANGED <<ua, stopping, owner, runs, overtaken>>

\* The rest of the iteration may call other callbacks.
CallbackShutdown ==
  /\ run = "callback"
  /\ run' = "iterate"
  /\ ua' = "idle"
  /\ UNCHANGED <<isRunning, stopping, owner, runs, overtaken>>

\* Mutant of Shutdown: UA_Server_run leaves the shutdown to stop().
ShutdownLeft ==
  /\ run = "shutdown"
  /\ run' = "returned"
  /\ UNCHANGED <<isRunning, ua, stopping, owner, runs, overtaken>>

Shutdown ==
  /\ run = "shutdown"
  /\ run' = "returned"
  /\ ua' = "idle"
  /\ UNCHANGED <<isRunning, stopping, owner, runs, overtaken>>

RunStep ==
  EnterRun \/ Startup \/ CheckFlag \/ Iterate \/ CallbackShutdown \/ Shutdown

-----------------------------------------------------------------------------
(* stop(), on any thread: isRunning = false, then UA_Server_run_shutdown.  *)
(* No thread stops a Server it knows nothing of any more.                  *)

MayStop == owner \in {"idle", "started"}

\* Mutant of Stop: only UA_Server_run_shutdown is called.
StopShutsDownOnly(t) ==
  /\ MayStop
  /\ ~stopping[t]
  /\ stopping' = [stopping EXCEPT ![t] = TRUE]
  /\ overtaken' = overtaken \ {t}
  /\ UNCHANGED <<isRunning, ua, run, owner, runs>>

Stop(t) ==
  /\ MayStop
  /\ ~stopping[t]
  /\ isRunning' = FALSE
  /\ stopping' = [stopping EXCEPT ![t] = TRUE]
  /\ overtaken' = overtaken \ {t}
  /\ UNCHANGED <<ua, run, owner, runs>>

StopShutdown(t) ==
  /\ stopping[t]
  /\ stopping' = [stopping EXCEPT ![t] = FALSE]
  /\ ua' = "idle"
  /\ UNCHANGED <<isRunning, run, owner, runs, overtaken>>

-----------------------------------------------------------------------------
(* The owner.                                                              *)

\* std::async(... s.run()), which may be launched again while a stop() of an
\* earlier run has yet to shut down.
Start ==
  /\ owner = "idle" /\ runs < MaxRuns
  /\ owner' = "started"
  /\ run' = "called"
  /\ runs' = runs + 1
  /\ UNCHANGED <<isRunning, ua, stopping, overtaken>>

\* f.wait()
Join ==
  /\ owner = "started" /\ run = "returned"
  /\ owner' = "idle"
  /\ run' = "none"
  /\ UNCHANGED <<isRunning, ua, stopping, runs, overtaken>>

\* ~Server: stop(), then UA_Server_delete.
Destroy ==
  /\ owner = "idle" /\ NobodyStops
  /\ owner' = "destroying"
  /\ isRunning' = FALSE
  /\ UNCHANGED <<ua, run, stopping, runs, overtaken>>

DestroyShutdown ==
  /\ owner = "destroying"
  /\ owner' = "deleting"
  /\ ua' = "idle"
  /\ UNCHANGED <<isRunning, run, stopping, runs, overtaken>>

Delete ==
  /\ owner = "deleting"
  /\ owner' = "gone"
  /\ ua' = "deleted"
  /\ UNCHANGED <<isRunning, run, stopping, runs, overtaken>>

-----------------------------------------------------------------------------
Next ==
  \/ EnterRun
  \/ Startup
  \/ CheckFlag
  \/ Iterate
  \/ CallbackStop
  \/ CallbackShutdown
  \/ Shutdown
  \/ \E t \in Threads : Stop(t)
  \/ \E t \in Threads : StopShutdown(t)
  \/ Start
  \/ Join
  \/ Destroy
  \/ DestroyShutdown
  \/ Delete

Spec == Init /\ [][Next]_vars

\* Threads that can go on, do: run(), the rest of a stop(), and an owner whose
\* wait is over.  An iteration calls finitely many callbacks and returns.  Nobody
\* has to start, stop or destroy a Server.
Fairness ==
  /\ WF_vars(RunStep)
  /\ SF_vars(Iterate)
  /\ \A t \in Threads : WF_vars(StopShutdown(t))
  /\ WF_vars(Join)

FairSpec == Spec /\ Fairness

-----------------------------------------------------------------------------
(* Properties.                                                             *)

\* A server whose loop goes on is reachable.  The one thing that closes the port
\* under a run() that does not end is a stop() this run() overtook, whichever
\* run it was meant for: its flag is written over, its UA_Server_run_shutdown
\* still comes.  Every other stop(), by a thread or a callback, ends the run
\* whose port it closes, however late it shuts down.
ReachableWhileRunning ==
  overtaken = {} /\ run \in {"check", "iterate"} /\ isRunning => ua = "listening"

\* When run() has returned, whichever of stop() and run() shut down first and
\* even if it failed to start, the port is free for the next Server.
PortReleased == run \in {"none", "returned"} => ua # "listening"

\* A stop() that a thread makes after the launch of run(), and one that a
\* callback makes, ends the owner's wait for run().
StopEndsRun ==
  /\ \A t \in Threads :
       [](owner = "started" /\ ~stopping[t] =>
            [](stopping[t] => <>(owner = "idle")))
  /\ run = "callback" ~> owner = "idle"

\* A stop() that run() does not overtake, whether the run() it comes in is the
\* first or one of several, ends the owner's wait for run().
LateStopEndsRun ==
  /\ \A t \in Threads :
       (/\ owner = "started" /\ run # "called"
        /\ stopping[t] /\ t \notin overtaken) ~> owner = "idle"
  /\ run = "callback" ~> owner = "idle"
=============================================================================
