------------------------------- MODULE Daemon -------------------------------
(***************************************************************************)
(* The life of the daemon process (src/src/agentvm/daemon.py): run_daemon, *)
(* the signal handlers it registers, and the shutdown they schedule on the *)
(* event loop.                                                             *)
(*                                                                         *)
(* run_daemon suspends nowhere before serve(), so until then the event     *)
(* loop runs nothing else, but a signal is handled between any two         *)
(* bytecodes, those of the handler included: its frames are a stack above  *)
(* the program, which goes on when the last of them has returned.  The     *)
(* shutdown is a task nobody awaits.  It suspends nowhere either           *)
(* (SessionManager.drain_all_sessions returns at once), which makes it one *)
(* step; when the loop ends, a task that has not run is cancelled.         *)
(***************************************************************************)
EXTENDS Naturals

CONSTANTS
  MaxSignals,           \* bound: SIGTERM and SIGINT delivered
  ServeTakesSignals     \* external: serve() may put its own handlers in place

ASSUME DaemonAssumption == MaxSignals \in Nat /\ ServeTakesSignals \in BOOLEAN

VARIABLES
  phase,          \* where run_daemon is, or how the process ended
  storeOpen,      \* _state.store is initialized and not closed
  exporter,       \* the metrics exporter runs
  handler,        \* whose handler the signals reach
  shuttingDown,   \* _state.shutting_down
  entered,        \* _signal_handler frames that found the flag clear and have
                  \* not set it
  scheduling,     \* the frame above those set it and has scheduled nothing yet
  nested,         \* history: signals that found the flag clear inside such a frame
  tasks,          \* shutdowns scheduled that have not run
  shutdowns,      \* shutdowns that ran
  shouldExit,     \* _state.server.should_exit
  taken,          \* external: serve() put its own handlers in place
  captured,       \* external: serve() holds back a signal
  signals         \* signals delivered

frames == <<entered, scheduling, nested>>
daemonVars == <<phase, storeOpen, exporter, handler, shuttingDown, frames, tasks,
                shutdowns, shouldExit, taken, captured, signals>>

Starting == {"start", "opened", "prepared", "wired", "registered"}
Running == Starting \cup {"serving", "leaving"}
Ended == {"returned", "raised", "killed"}

DaemonInit ==
  /\ phase = "start"
  /\ storeOpen = FALSE /\ exporter = FALSE
  /\ handler = "default"
  /\ shuttingDown = FALSE
  /\ entered = 0 /\ scheduling = FALSE /\ nested = 0
  /\ tasks = 0 /\ shutdowns = 0
  /\ shouldExit = FALSE
  /\ taken = FALSE /\ captured = FALSE
  /\ signals = 0

(* The handler has returned from all its frames: the program goes on.      *)
HandlersDone == entered = 0 /\ ~scheduling

-----------------------------------------------------------------------------
(* run_daemon, step by step. *)

Enter(from, to) ==
  /\ phase = from
  /\ HandlersDone
  /\ phase' = to
  /\ UNCHANGED <<shuttingDown, frames, tasks, shutdowns, shouldExit, captured, signals>>

OpenStore ==
  /\ Enter("start", "opened")
  /\ storeOpen' = TRUE
  /\ UNCHANGED <<exporter, handler, taken>>

(* reconcile_allocations (a ValueError is logged and passed over), the     *)
(* storage tree and the bridge.                                            *)
Prepare ==
  /\ Enter("opened", "prepared")
  /\ UNCHANGED <<storeOpen, exporter, handler, taken>>

(* The exporter is started if config.observability.metrics_enabled.        *)
Wire ==
  /\ Enter("prepared", "wired")
  /\ exporter' \in BOOLEAN
  /\ UNCHANGED <<storeOpen, handler, taken>>

RegisterSignalHandlers ==
  /\ Enter("wired", "registered")
  /\ handler' = "daemon"
  /\ UNCHANGED <<storeOpen, exporter, taken>>

Serve ==
  /\ Enter("registered", "serving")
  /\ taken' \in {FALSE, ServeTakesSignals}
  /\ handler' = IF taken' THEN "server" ELSE handler
  /\ UNCHANGED <<storeOpen, exporter>>

(* initialize, mkdir or chmod, or serve raises: run_daemon has no finally. *)
StartupRaises ==
  /\ \E at \in Starting : Enter(at, "raised")
  /\ UNCHANGED <<storeOpen, exporter, handler, taken>>

-----------------------------------------------------------------------------
(* _signal_handler begins: it returns when the flag is set.                *)
SignalHandler ==
  /\ entered' = IF shuttingDown THEN entered ELSE entered + 1
  /\ nested' = IF ~shuttingDown /\ entered > 0 THEN nested + 1 ELSE nested
  /\ UNCHANGED scheduling

(* External: the handler of serve() asks for an exit and keeps the signal. *)
ServerHandler ==
  /\ shouldExit' = TRUE
  /\ captured' = TRUE

(* SIGTERM or SIGINT: what the default does ends the process.              *)
Signal ==
  /\ phase \in Running
  /\ signals < MaxSignals
  /\ signals' = signals + 1
  /\ \/ /\ handler = "default"
        /\ phase' = "killed"
        /\ UNCHANGED <<frames, shouldExit, captured>>
     \/ handler = "daemon" /\ SignalHandler /\ UNCHANGED <<phase, shouldExit, captured>>
     \/ handler = "server" /\ ServerHandler /\ UNCHANGED <<phase, frames>>
  /\ UNCHANGED <<storeOpen, exporter, handler, shuttingDown, tasks, shutdowns, taken>>

HandlerStep ==
  UNCHANGED <<phase, storeOpen, exporter, handler, nested, shutdowns, shouldExit, taken,
              captured, signals>>

(* Mutant of SetFlag: the flag is left to the shutdown to set.             *)
SetFlag_Late ==
  /\ entered > 0 /\ ~scheduling
  /\ entered' = entered - 1
  /\ scheduling' = TRUE
  /\ HandlerStep
  /\ UNCHANGED <<shuttingDown, tasks>>

(* _state.shutting_down.set(), in the last frame that is not past it.  It  *)
(* does not look at the flag again, which another frame may have set since *)
(* is_set() was asked: set() is a call, and signals are handled at its     *)
(* entry too.                                                              *)
SetFlag ==
  /\ entered > 0 /\ ~scheduling
  /\ shuttingDown' = TRUE
  /\ entered' = entered - 1
  /\ scheduling' = TRUE
  /\ HandlerStep
  /\ UNCHANGED tasks

(* call_soon on the running loop, and the frame returns.                   *)
Schedule ==
  /\ scheduling
  /\ scheduling' = FALSE
  /\ tasks' = tasks + 1
  /\ HandlerStep
  /\ UNCHANGED <<entered, shuttingDown>>

Shutdown == phase = "serving" /\ tasks > 0 /\ HandlersDone

ShutDownComponents ==
  /\ exporter' = FALSE
  /\ storeOpen' = FALSE
  /\ tasks' = tasks - 1
  /\ shutdowns' = shutdowns + 1

(* Mutant of GracefulShutdown: the drain suspends, and the loop runs other *)
(* tasks before the rest of the shutdown.                                  *)
GracefulShutdown_DrainSuspends ==
  /\ Shutdown
  /\ shouldExit' = TRUE
  /\ \/ shouldExit /\ ShutDownComponents
     \/ ~shouldExit /\ UNCHANGED <<exporter, storeOpen, tasks, shutdowns>>
  /\ UNCHANGED <<phase, handler, shuttingDown, frames, taken, captured, signals>>

(* Mutant of GracefulShutdown: the server is not told.                     *)
GracefulShutdown_ServerForgotten ==
  /\ Shutdown
  /\ ShutDownComponents
  /\ UNCHANGED <<phase, handler, shuttingDown, frames, shouldExit, taken, captured, signals>>

(* _async_graceful_shutdown: the server is told to exit, nothing is left   *)
(* to drain, the exporter stops and the store is closed.                   *)
GracefulShutdown ==
  /\ Shutdown
  /\ shouldExit' = TRUE
  /\ ShutDownComponents
  /\ UNCHANGED <<phase, handler, shuttingDown, frames, taken, captured, signals>>

(* External: serve() sees should_exit and returns, putting the handlers    *)
(* back; it may keep a signal to raise again for them.                     *)
ServeReturns ==
  /\ phase = "serving"
  /\ shouldExit
  /\ HandlersDone
  /\ phase' = "leaving"
  /\ handler' = IF handler = "server" THEN "daemon" ELSE handler
  /\ captured' \in {FALSE, captured}
  /\ UNCHANGED <<storeOpen, exporter, shuttingDown, frames, tasks, shutdowns, shouldExit,
                 taken, signals>>

(* External: serve() raises the signal that it kept.                       *)
RaiseAgain ==
  /\ phase = "leaving"
  /\ captured
  /\ HandlersDone
  /\ SignalHandler
  /\ captured' = FALSE
  /\ UNCHANGED <<phase, storeOpen, exporter, handler, shuttingDown, tasks, shutdowns,
                 shouldExit, taken, signals>>

(* run_daemon returns; the loop cancels what has not run.                  *)
LoopEnds ==
  /\ phase = "leaving"
  /\ ~captured
  /\ HandlersDone
  /\ phase' = "returned"
  /\ tasks' = 0
  /\ UNCHANGED <<storeOpen, exporter, handler, shuttingDown, frames, shutdowns,
                 shouldExit, taken, captured, signals>>

Proceed ==
  \/ OpenStore \/ Prepare \/ Wire \/ RegisterSignalHandlers \/ Serve
  \/ SetFlag \/ Schedule
  \/ GracefulShutdown \/ ServeReturns \/ RaiseAgain \/ LoopEnds

DaemonNext == Proceed \/ StartupRaises \/ Signal

(* run_daemon and the loop go on while they can: serve() comes back to the *)
(* loop on a timer, so a shutdown that was scheduled gets its turn.        *)
DaemonSpec == DaemonInit /\ [][DaemonNext]_daemonVars
FairDaemonSpec == DaemonSpec /\ WF_daemonVars(Proceed)

-----------------------------------------------------------------------------
(* "Sets the shutdown flag immediately (before scheduling) to prevent      *)
(* duplicate shutdown tasks from rapid successive signals"                 *)
(* (daemon.py:97-98).  False: a signal handled after is_set() said no and  *)
(* before the flag is set schedules a shutdown, and then so does the       *)
(* handler that it interrupted.                                            *)
OneShutdown == tasks + shutdowns <= 1

(* What the flag does give: whenever signals arrive, each that does not    *)
(* fall between the test and the setting of the flag in another handler is *)
(* either the first or schedules nothing.                                  *)
OneShutdownUnlessNested == tasks + shutdowns <= 1 + nested

(* What a daemon that comes to its end by itself owes.                     *)
Closed == ~storeOpen /\ ~exporter

(* With its own handlers in force, a daemon that returns from run_daemon   *)
(* has stopped the exporter and closed the store, although nothing there   *)
(* waits for the shutdown: serve() cannot return before it has run.  This  *)
(* rests on the drain not suspending.                                      *)
ReturnsClosed == phase = "returned" /\ ~taken => Closed

(* "Close metadata store connection on shutdown"                           *)
(* (DAEMON-ENTRYPOINT-LLD:27, DE-FR-13), whoever handles the signal.       *)
(* False when serve() does: the shutdown is then scheduled when the loop   *)
(* is about to end, or not at all, and does not run.                       *)
AlwaysReturnsClosed == phase = "returned" => Closed

(* A signal the process took, in either handler, ends it.                  *)
SignalEnds == entered > 0 \/ shuttingDown \/ captured ~> phase \in Ended
=============================================================================
