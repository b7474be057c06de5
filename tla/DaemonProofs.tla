---------------------------- MODULE DaemonProofs ----------------------------
(***************************************************************************)
(* Proofs about Daemon: they hold for any number of signals, whether the   *)
(* server takes them or not.                                               *)
(***************************************************************************)
EXTENDS Daemon, TLAPS

(* Shutdowns are scheduled by frames that found the flag clear: the first  *)
(* one, and those that are nested in another before the flag is set.       *)
Scheduled == tasks + shutdowns + (IF scheduling THEN 1 ELSE 0)
Counted ==
  /\ tasks \in Nat /\ shutdowns \in Nat /\ entered \in Nat /\ nested \in Nat
  /\ scheduling \in BOOLEAN
  /\ Scheduled + entered <= 1 + nested
  /\ ~shuttingDown => Scheduled = 0

(* Only the handler of the server, which is in force only after serve()    *)
(* took the signals, asks for an exit without a shutdown; a shutdown runs  *)
(* when nothing that it closes can be opened any more.                     *)
ExitMeansShutdown ==
  /\ taken \in BOOLEAN
  /\ handler \in {"default", "daemon", "server"}
  /\ handler = "server" => taken
  /\ captured => taken
  /\ taken => phase \notin Starting
  /\ shouldExit /\ ~taken => shutdowns > 0
  /\ shutdowns > 0 => phase \notin Starting /\ Closed
  /\ phase \in {"leaving", "returned"} => shouldExit

DaemonInv == Counted /\ ExitMeansShutdown

-----------------------------------------------------------------------------
(* A handler that begins finds the flag set, or is the first, or is nested *)
(* in one that found it clear.                                             *)
LEMMA HandlerBegins ==
  ASSUME Counted, SignalHandler, UNCHANGED <<shuttingDown, tasks, shutdowns>>
  PROVE  Counted'
<1>1. CASE shuttingDown
  BY <1>1 DEF Counted, Scheduled, SignalHandler
<1>2. CASE ~shuttingDown /\ entered = 0
  BY <1>2 DEF Counted, Scheduled, SignalHandler
<1>3. CASE ~shuttingDown /\ entered > 0
  BY <1>3 DEF Counted, Scheduled, SignalHandler
<1> QED
  BY <1>1, <1>2, <1>3 DEF Counted

(* One step for each action: what it counts, and what it closes.           *)
LEMMA DaemonStep == ASSUME DaemonInv, [DaemonNext]_daemonVars PROVE DaemonInv'
<1> USE DEF DaemonInv
<1>1. CASE OpenStore \/ Prepare \/ Wire \/ RegisterSignalHandlers \/ StartupRaises
  <2>1. /\ phase \in Starting /\ phase' \notin {"leaving", "returned"}
        /\ shuttingDown' = shuttingDown /\ tasks' = tasks /\ shutdowns' = shutdowns
        /\ entered' = entered /\ scheduling' = scheduling /\ nested' = nested
        /\ shouldExit' = shouldExit /\ captured' = captured /\ taken' = taken
        /\ handler' = handler \/ handler' = "daemon"
    BY <1>1 DEF OpenStore, Prepare, Wire, RegisterSignalHandlers, StartupRaises, Enter, Starting,
                frames
  <2>2. ~(shutdowns > 0)
    BY <2>1 DEF ExitMeansShutdown
  <2>3. Counted'
    BY <2>1 DEF Counted, Scheduled
  <2>4. ExitMeansShutdown'
    BY <2>1, <2>2 DEF Starting, ExitMeansShutdown
  <2> QED
    BY <2>3, <2>4
<1>2. CASE Serve
  <2>1. /\ phase = "registered" /\ phase' = "serving"
        /\ UNCHANGED <<shuttingDown, entered, scheduling, nested, tasks, shutdowns, shouldExit,
                       captured, storeOpen, exporter>>
        /\ taken' \in BOOLEAN
        /\ handler' = IF taken' THEN "server" ELSE handler
    BY <1>2, DaemonAssumption DEF Serve, Enter, frames
  <2>2. ~taken /\ ~(shutdowns > 0)
    BY <2>1 DEF Starting, ExitMeansShutdown
  <2>3. Counted'
    BY <2>1 DEF Counted, Scheduled
  <2>4. ExitMeansShutdown'
    BY <2>1, <2>2 DEF Starting, ExitMeansShutdown
  <2> QED
    BY <2>3, <2>4
<1>3. CASE GracefulShutdown
  <2>1. Counted'
    BY <1>3 DEF GracefulShutdown, Shutdown, ShutDownComponents, Counted, Scheduled, frames
  <2>2. ExitMeansShutdown'
    BY <1>3 DEF GracefulShutdown, Shutdown, ShutDownComponents, Starting, Closed, Counted,
                ExitMeansShutdown
  <2> QED
    BY <2>1, <2>2
<1>4. CASE ServeReturns
  <2>1. Counted'
    BY <1>4 DEF ServeReturns, Counted, Scheduled, frames
  <2>2. captured' = FALSE \/ captured' = captured
    BY <1>4 DEF ServeReturns
  <2>3. /\ phase = "serving" /\ phase' = "leaving" /\ shouldExit
        /\ handler' = IF handler = "server" THEN "daemon" ELSE handler
        /\ UNCHANGED <<taken, shouldExit, shutdowns, storeOpen, exporter>>
    BY <1>4 DEF ServeReturns
  <2>4. ExitMeansShutdown'
    BY <2>2, <2>3 DEF Starting, Closed, ExitMeansShutdown
  <2> QED
    BY <2>1, <2>4
<1>5. CASE RaiseAgain
  <2>1. Counted'
    BY <1>5, HandlerBegins DEF RaiseAgain
  <2>2. ExitMeansShutdown'
    BY <1>5 DEF RaiseAgain, Starting, Closed, ExitMeansShutdown
  <2> QED
    BY <2>1, <2>2
<1>6. CASE LoopEnds
  <2>1. Counted'
    BY <1>6 DEF LoopEnds, Counted, Scheduled, frames
  <2>2. ExitMeansShutdown'
    BY <1>6 DEF LoopEnds, Starting, Closed, ExitMeansShutdown
  <2> QED
    BY <2>1, <2>2
<1>7. CASE SetFlag \/ Schedule
  <2>1. Counted'
    <3>1. CASE SetFlag
      <4>1. /\ shuttingDown' /\ scheduling' \in BOOLEAN /\ scheduling' /\ ~scheduling
            /\ entered > 0 /\ entered' = entered - 1
            /\ UNCHANGED <<nested, tasks, shutdowns>>
        BY <3>1, Zenon DEF SetFlag, HandlerStep
      <4>2. Scheduled' = Scheduled + 1
        BY <4>1 DEF Scheduled, Counted
      <4>3. Scheduled \in Nat
        BY DEF Scheduled, Counted
      <4> QED
        BY <4>1, <4>2, <4>3 DEF Counted
    <3>2. CASE Schedule
      <4>1. /\ scheduling /\ ~scheduling' /\ scheduling' \in BOOLEAN /\ tasks' = tasks + 1
            /\ UNCHANGED <<entered, nested, shutdowns, shuttingDown>>
        BY <3>2, Zenon DEF Schedule, HandlerStep
      <4>2. Scheduled' = Scheduled /\ Scheduled \in Nat /\ Scheduled # 0
        BY <4>1 DEF Scheduled, Counted
      <4> QED
        BY <4>1, <4>2 DEF Counted
    <3> QED
      BY <1>7, <3>1, <3>2
  <2>2. ExitMeansShutdown'
    BY <1>7 DEF SetFlag, Schedule, HandlerStep, Starting, Closed, ExitMeansShutdown
  <2> QED
    BY <2>1, <2>2
<1>8. CASE Signal
  <2>1. CASE handler = "default"
    <3>1. /\ phase' = "killed" /\ shouldExit' = shouldExit /\ captured' = captured
          /\ UNCHANGED <<storeOpen, exporter, handler, shuttingDown, entered, scheduling,
                         nested, tasks, shutdowns, taken>>
      BY <1>8, <2>1 DEF Signal, frames
    <3>2. Counted'
      BY <3>1 DEF Counted, Scheduled
    <3>3. ExitMeansShutdown'
      BY <3>1 DEF Starting, ExitMeansShutdown, Closed
    <3> QED
      BY <3>2, <3>3
  <2>2. CASE handler = "daemon" /\ SignalHandler /\ UNCHANGED <<phase, shouldExit, captured>>
    <3>1. Counted'
      BY <1>8, <2>2, HandlerBegins DEF Signal
    <3>2. ExitMeansShutdown'
      BY <1>8, <2>2 DEF Signal, Starting, ExitMeansShutdown, Closed
    <3> QED
      BY <3>1, <3>2
  <2>3. CASE handler = "server" /\ ServerHandler /\ UNCHANGED <<phase, frames>>
    <3>1. Counted'
      BY <1>8, <2>3 DEF Signal, Counted, Scheduled, frames
    <3>2. ExitMeansShutdown'
      BY <1>8, <2>3 DEF Signal, ServerHandler, Starting, ExitMeansShutdown, Closed
    <3> QED
      BY <3>1, <3>2
  <2> QED
    BY <1>8, <2>1, <2>2, <2>3 DEF Signal
<1>9. CASE UNCHANGED daemonVars
  <2>1. Counted'
    BY <1>9 DEF daemonVars, frames, Counted, Scheduled
  <2>2. ExitMeansShutdown'
    BY <1>9 DEF daemonVars, ExitMeansShutdown, Closed
  <2> QED
    BY <2>1, <2>2
<1> QED
  BY <1>1, <1>2, <1>3, <1>4, <1>5, <1>6, <1>7, <1>8, <1>9 DEF DaemonNext, Proceed

(* So the invariant holds of every reachable state.                        *)
LEMMA DaemonInvHolds == DaemonSpec => []DaemonInv
<1>1. ASSUME DaemonInit PROVE DaemonInv
  <2>1. Counted
    <3>1. ~scheduling /\ scheduling \in BOOLEAN
      BY <1>1, Zenon DEF DaemonInit
    <3> QED
      BY <1>1, <3>1 DEF DaemonInit, Counted, Scheduled
  <2>2. ~(shutdowns > 0) /\ ~captured /\ ~taken /\ ~shouldExit
    BY <1>1 DEF DaemonInit
  <2>3. taken \in BOOLEAN
    BY <1>1, Zenon DEF DaemonInit
  <2>4. ExitMeansShutdown
    BY <1>1, <2>2, <2>3 DEF DaemonInit, ExitMeansShutdown, Starting
  <2> QED
    BY <2>1, <2>4 DEF DaemonInv
<1>2. DaemonInv /\ [DaemonNext]_daemonVars => DaemonInv'
  BY DaemonStep
<1> QED
  BY <1>1, <1>2, PTL DEF DaemonSpec

-----------------------------------------------------------------------------
(* However many signals arrive, and whenever: a shutdown too many is       *)
(* scheduled only by a handler that began inside another, between its test *)
(* of the flag and the setting of it.                                      *)
THEOREM ShutdownsAreOneOrNested == DaemonSpec => []OneShutdownUnlessNested
<1>1. DaemonInv => OneShutdownUnlessNested
  BY DEF DaemonInv, Counted, Scheduled, OneShutdownUnlessNested
<1> QED
  BY <1>1, DaemonInvHolds, PTL

(* With its own handlers in force, a daemon that returned has closed the   *)
(* store and stopped the exporter.                                         *)
THEOREM AlwaysClosedWithItsOwnHandlers == DaemonSpec => []ReturnsClosed
<1>1. DaemonInv => ReturnsClosed
  BY DEF DaemonInv, ExitMeansShutdown, ReturnsClosed
<1> QED
  BY <1>1, DaemonInvHolds, PTL
=============================================================================
