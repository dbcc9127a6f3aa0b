------------------------ MODULE ServerLifecycleProofs ------------------------
(***************************************************************************)
(* Proofs about ServerLifecycle, for any number of threads that stop and   *)
(* any number of runs.                                                     *)
(***************************************************************************)
EXTENDS ServerLifecycle, TLAPS

-----------------------------------------------------------------------------
(* The inductive invariants: typing and phases, which hold however early   *)
(* stop() comes, and who can still close the port of a run that goes on.   *)

\* The port is open only between the start-up and the shutdown of run(), the
\* owner is past Start only while run() is on its way, and an iteration that
\* begins after stop() is the one the flag had been read for.
PhaseInv ==
  /\ run \in {"none", "called", "startup", "returned"} => ua # "listening"
  /\ (run # "none") <=> (owner = "started")
  /\ run = "callback" => ~isRunning

\* Whoever is half-way through a stop() while the flag says that the server
\* runs was overtaken by this run().
StopInv ==
  /\ isRunning /\ run \in {"startup", "check", "iterate"} =>
       \A t \in Threads : stopping[t] => t \in overtaken
  /\ ReachableWhileRunning

-----------------------------------------------------------------------------
LEMMA TypeStep == TypeOK /\ [Next]_vars => TypeOK'
<1> SUFFICES ASSUME TypeOK, [Next]_vars PROVE TypeOK'
  OBVIOUS
<1> USE LifecycleAssumption DEF TypeOK
<1>1. CASE EnterRun BY <1>1 DEF EnterRun
<1>2. CASE Startup BY <1>2 DEF Startup
<1>3. CASE CheckFlag BY <1>3 DEF CheckFlag
<1>4. CASE Iterate BY <1>4 DEF Iterate
<1>5. CASE CallbackStop BY <1>5 DEF CallbackStop
<1>6. CASE CallbackShutdown BY <1>6 DEF CallbackShutdown
<1>7. CASE Shutdown BY <1>7 DEF Shutdown
<1>8. ASSUME NEW t \in Threads, Stop(t) PROVE TypeOK'
  BY <1>8 DEF Stop
<1>9. ASSUME NEW t \in Threads, StopShutdown(t) PROVE TypeOK'
  BY <1>9 DEF StopShutdown
<1>10. CASE Start
  <2>1. runs' \in 0..MaxRuns
    BY <1>10 DEF Start
  <2> QED BY <1>10, <2>1, Zenon DEF Start
<1>11. CASE Join BY <1>11 DEF Join
<1>12. CASE Destroy BY <1>12 DEF Destroy
<1>13. CASE DestroyShutdown BY <1>13 DEF DestroyShutdown
<1>14. CASE Delete BY <1>14 DEF Delete
<1>15. CASE UNCHANGED vars BY <1>15 DEF vars
<1>16. QED
  BY <1>1, <1>2, <1>3, <1>4, <1>5, <1>6, <1>7, <1>8, <1>9, <1>10, <1>11,
     <1>12, <1>13, <1>14, <1>15 DEF Next

LEMMA PhaseStep == TypeOK /\ PhaseInv /\ [Next]_vars => PhaseInv'
<1> SUFFICES ASSUME TypeOK, PhaseInv, [Next]_vars PROVE PhaseInv'
  OBVIOUS
<1> USE DEF TypeOK, PhaseInv
<1>1. CASE EnterRun BY <1>1 DEF EnterRun
<1>2. CASE Startup BY <1>2 DEF Startup
<1>3. CASE CheckFlag BY <1>3 DEF CheckFlag
<1>4. CASE Iterate BY <1>4 DEF Iterate
<1>5. CASE CallbackStop BY <1>5 DEF CallbackStop
<1>6. CASE CallbackShutdown BY <1>6 DEF CallbackShutdown
<1>7. CASE Shutdown BY <1>7 DEF Shutdown
<1>8. ASSUME NEW t \in Threads, Stop(t) PROVE PhaseInv'
  BY <1>8 DEF Stop, MayStop
<1>9. ASSUME NEW t \in Threads, StopShutdown(t) PROVE PhaseInv'
  BY <1>9 DEF StopShutdown
<1>10. CASE Start BY <1>10 DEF Start
<1>11. CASE Join BY <1>11 DEF Join
<1>12. CASE Destroy BY <1>12 DEF Destroy
<1>13. CASE DestroyShutdown BY <1>13 DEF DestroyShutdown
<1>14. CASE Delete BY <1>14 DEF Delete
<1>15. CASE UNCHANGED vars BY <1>15 DEF vars
<1>16. QED
  BY <1>1, <1>2, <1>3, <1>4, <1>5, <1>6, <1>7, <1>8, <1>9, <1>10, <1>11,
     <1>12, <1>13, <1>14, <1>15 DEF Next

LEMMA StopStep ==
  ASSUME TypeOK, PhaseInv, StopInv, [Next]_vars
  PROVE  StopInv'
<1> USE DEF TypeOK, PhaseInv, StopInv, ReachableWhileRunning
<1>1. CASE EnterRun BY <1>1 DEF EnterRun
<1>2. CASE Startup BY <1>2 DEF Startup
<1>3. CASE CheckFlag BY <1>3 DEF CheckFlag
<1>4. CASE Iterate BY <1>4 DEF Iterate
<1>5. CASE CallbackStop BY <1>5 DEF CallbackStop
<1>6. CASE CallbackShutdown BY <1>6 DEF CallbackShutdown
<1>7. CASE Shutdown BY <1>7 DEF Shutdown
<1>8. ASSUME NEW t \in Threads, Stop(t) PROVE StopInv'
  BY <1>8 DEF Stop, MayStop
<1>9. ASSUME NEW t \in Threads, StopShutdown(t) PROVE StopInv'
  BY <1>9 DEF StopShutdown
<1>10. CASE Start BY <1>10 DEF Start
<1>11. CASE Join BY <1>11 DEF Join
<1>12. CASE Destroy BY <1>12 DEF Destroy
<1>13. CASE DestroyShutdown BY <1>13 DEF DestroyShutdown
<1>14. CASE Delete BY <1>14 DEF Delete
<1>15. CASE UNCHANGED vars BY <1>15 DEF vars
<1>16. QED
  BY <1>1, <1>2, <1>3, <1>4, <1>5, <1>6, <1>7, <1>8, <1>9, <1>10, <1>11,
     <1>12, <1>13, <1>14, <1>15 DEF Next

-----------------------------------------------------------------------------
(* The theorems.                                                           *)

LEMMA PhaseInvariance == Spec => [](TypeOK /\ PhaseInv)
<1>1. Init => TypeOK /\ PhaseInv
  <2>1. Init => TypeOK
    <3>1. 0 \in Nat /\ 0 \in 0..MaxRuns
      BY LifecycleAssumption
    <3>2. QED
      BY <3>1, Zenon DEF Init, TypeOK
  <2>2. Init => PhaseInv
    BY DEF Init, PhaseInv
  <2>3. QED
    BY <2>1, <2>2
<1>2. (TypeOK /\ PhaseInv) /\ [Next]_vars => (TypeOK /\ PhaseInv)'
  BY TypeStep, PhaseStep
<1>3. QED
  BY <1>1, <1>2, PTL DEF Spec

\* Whatever the order of stop(), start-up failures and shutdowns, a run() that
\* has returned has left the port free.
THEOREM PortIsReleased == Spec => []PortReleased
<1>1. PhaseInv => PortReleased
  BY DEF PhaseInv, PortReleased
<1>2. QED
  BY <1>1, PhaseInvariance, PTL

\* The port of a server that goes on running is open, unless run() has overtaken
\* a stop(): also when a stop() of an earlier run has yet to shut down as the
\* next run() is launched.
THEOREM StaysReachable == Spec => []ReachableWhileRunning
<1>1. Init => StopInv
  BY DEF Init, StopInv, ReachableWhileRunning
<1>2. TypeOK /\ PhaseInv /\ StopInv /\ [Next]_vars => StopInv'
  BY StopStep
<1>3. StopInv => ReachableWhileRunning
  BY DEF StopInv
<1>4. QED
  BY <1>1, <1>2, <1>3, PhaseInvariance, PTL DEF Spec
=============================================================================
