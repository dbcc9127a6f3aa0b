------------------------------- MODULE Server -------------------------------
(***************************************************************************)
(* A whole Server: the threads of ServerLifecycle use the registry of      *)
(* ServerRegistry.  Callbacks run inside the iterations of run(), or on    *)
(* the thread of the owner, who calls methods and reads variables itself   *)
(* when nothing runs.  The owner registers nodes before run(), while it    *)
(* runs (Interleave) or leaves that to callbacks.  Nothing in the code     *)
(* keeps ~Server from UA_Server_delete while callbacks are in flight: that *)
(* they are over follows from the order in which run() returns, the owner  *)
(* has waited for it and ~Server begins.                                   *)
(***************************************************************************)
EXTENDS ServerRegistry

CONSTANTS Threads, MaxRuns

VARIABLES
  isRunning, ua, run, stopping, owner, runs, overtaken,
  thread     \* whose the callbacks in flight are: those of "run" or "owner"

Life == INSTANCE ServerLifecycle

lifeVars == <<isRunning, ua, run, stopping, owner, runs, overtaken>>
serverVars == <<vars, lifeVars, thread>>

ServerInit == Init /\ Life!Init /\ thread = "owner"

-----------------------------------------------------------------------------
(* The thread of run().                                                    *)

\* Steps of run() and stop() that have nothing to do with the registry.
RunStops ==
  /\ \/ Life!EnterRun \/ Life!Startup \/ Life!CheckFlag \/ Life!Shutdown
     \/ Life!CallbackShutdown
     \/ \E t \in Threads : Life!Stop(t) \/ Life!StopShutdown(t)
  /\ UNCHANGED <<vars, thread>>

\* Mutant of Iterates: an iteration does not wait for its callbacks.
IteratesAhead == Life!Iterate /\ UNCHANGED <<vars, thread>>

\* UA_Server_run_iterate returns when its callbacks have.
Iterates == frames = <<>> /\ Life!Iterate /\ UNCHANGED <<vars, thread>>

\* A callback, which is not in the middle of a registration, calls stop().
CallbackStops ==
  /\ frames # <<>> /\ Top.entered
  /\ ~Interleave => op.pc = "idle"
  /\ Life!CallbackStop
  /\ UNCHANGED <<vars, thread>>

\* Callbacks of run(), and of the owner's own calls.
Serves ==
  /\ Serving
  /\ \/ /\ run = "iterate"
        /\ thread' = "run"
     \/ /\ owner = "idle" /\ op.pc = "idle"
        /\ thread' = "owner"
  /\ frames # <<>> => thread' = thread
  /\ UNCHANGED lifeVars

-----------------------------------------------------------------------------
(* Registrations, and the owner.                                           *)

\* The owner registers before and after run(); while it goes on, the owner or
\* its callbacks do.  When all is gone, handles are dropped.
MayRegister ==
  \/ owner = "idle" /\ (thread = "owner" => InUserCode)
  \/ Interleave /\ owner = "started"
  \/ ~Interleave /\ frames # <<>> /\ thread = "run" /\ run = "iterate"
  \/ owner = "gone"

Registers == MayRegister /\ Registration /\ UNCHANGED <<lifeVars, thread>>

\* The owner is not in the middle of something else.
OwnerIsFree == op.pc = "idle" /\ (thread = "owner" => frames = <<>>)

StartsAndJoins ==
  /\ OwnerIsFree
  /\ Life!Start \/ Life!Join
  /\ UNCHANGED <<vars, thread>>

\* Mutant of Destroys: ~Server begins before the wait for run() is over.
DestroysAtOnce ==
  /\ OwnerIsFree
  /\ owner \in {"idle", "started"} /\ Life!NobodyStops
  /\ owner' = "destroying"
  /\ isRunning' = FALSE
  /\ UNCHANGED <<vars, thread, ua, run, stopping, runs, overtaken>>

\* ~Server: stop(), UA_Server_delete, then the maps.
Destroys ==
  /\ OwnerIsFree
  /\ Life!Destroy
  /\ UNCHANGED <<vars, thread>>

DestroyShutsDown == Life!DestroyShutdown /\ UNCHANGED <<vars, thread>>

Deletes == Life!Delete /\ DeleteNodes /\ UNCHANGED thread

FreesRegistry == owner = "gone" /\ FreeRegistry /\ UNCHANGED <<lifeVars, thread>>

-----------------------------------------------------------------------------
ServerNext ==
  \/ RunStops
  \/ Iterates
  \/ CallbackStops
  \/ Serves
  \/ Registers
  \/ StartsAndJoins
  \/ Destroys
  \/ DestroyShutsDown
  \/ Deletes
  \/ FreesRegistry

ServerSpec == ServerInit /\ [][ServerNext]_serverVars

-----------------------------------------------------------------------------
(* Properties.                                                             *)

\* Callbacks are in flight only inside an iteration of a run() the owner waits
\* for, or of the owner's own calls while nothing runs; so none is when run() has
\* returned or ~Server is under way, whoever called stop() and when.
CallbacksAreServed ==
  frames # <<>> =>
    \/ thread = "run" /\ run \in {"iterate", "callback"} /\ owner = "started"
    \/ thread = "owner" /\ run = "none" /\ owner = "idle"

\* A whole Server is a registry in the sense of ServerRegistry: in particular
\* UA_Server_delete comes when no callback and no registration is under way, and
\* nothing is registered or called after it.
RegistrySpec == Spec
=============================================================================
