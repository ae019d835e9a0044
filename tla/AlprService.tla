----------------------------- MODULE AlprService -----------------------------
(***************************************************************************)
(* The life of the ALPR service: systemd and alprctl that start it, the    *)
(* main thread (main.cpp, the loop of alpr_statemachine.cpp), the thread   *)
(* of the control socket (socket_server.cpp), the logger's buffers, the    *)
(* PID file, and what becomes of the FPGA.                                 *)
(*                                                                         *)
(* The main thread holds the mutex for a whole turn of the loop.  The      *)
(* states between FRAME_CUPTURE and RESET_FPGA, which AlprFsm has in       *)
(* detail, are the one state WORK here.  systemd runs one instance at a    *)
(* time.  A definition <operator>_<fault> is the operator with that fault. *)
(***************************************************************************)
EXTENDS Naturals, Sequences

CONSTANTS
  MaxStarts, MaxSignals,       \* bounds: incarnations, signals,
  MaxCommands, Backlog         \* commands given, and connections waiting

ASSUME ServiceAssumption ==
  /\ MaxStarts \in Nat /\ MaxSignals \in Nat /\ MaxCommands \in Nat /\ Backlog \in Nat

\* "probe" is the connection is_daemon_running makes and closes; "help" stands for
\* every command that is answered without the state machine.
Command == {"stop", "status", "restart", "flushlogs", "help", "probe"}

State == {"INIT", "WORK", "ERROR", "HALT"}

MainStep == {"off", "check", "write", "listen", "run", "turn", "locked", "exit", "stop", "close", "join"}

ThreadStep == {"none", "loop", "accept", "handle", "poll", "sleep", "answer"}

VARIABLES
  main,                        \* where the main thread is; "off": no process
  exit,                        \* how the last process ended: "clean", "failure"
  pid_file,                    \* "none", "own", or "stale": left by a process that crashed
  current_state, running, request_stop, fsm_restart_requested, request_flash_log,
  bridge,                      \* fpga_bridge_ is set
  running_lcd_status,
  log_open, unsaved,           \* the log files are open; lines wait in the buffers
  fpga,                        \* "active" once initialised, until it is reset
  thread, command,             \* the socket's thread and the command it handles
  server_running, listening,   \* SocketServer::running_; the socket accepts connections
  backlog,                     \* commands of the clients that wait in the socket
  starts, signals, commands    \* counts, for the bounds

fsmVars    == <<current_state, running, request_stop, fsm_restart_requested,
                request_flash_log, bridge, running_lcd_status>>
logVars    == <<log_open, unsaved>>
socketVars == <<thread, command, server_running, listening, backlog>>
unitVars   == <<exit, pid_file>>
countVars  == <<starts, signals, commands>>

vars == <<main, unitVars, fsmVars, logVars, fpga, socketVars, countVars>>

\* The handlers are for the commands that need the state machine, and only the stop
\* command waits.
CommandFits ==
  /\ thread = "handle" => command \notin {"help", "probe"}
  /\ thread \in {"poll", "sleep"} => command = "stop"

TypeOK ==
  /\ main \in MainStep
  /\ exit \in {"clean", "failure"}
  /\ pid_file \in {"none", "own", "stale"}
  /\ current_state \in State
  /\ {running, request_stop, fsm_restart_requested, request_flash_log, bridge} \subseteq BOOLEAN
  /\ running_lcd_status \in {"Paused", "Running", "Error", "Offline"}
  /\ {log_open, unsaved, server_running, listening} \subseteq BOOLEAN
  /\ fpga \in {"reset", "active"}
  /\ thread \in ThreadStep
  /\ command \in Command
  /\ backlog \in Seq(Command) /\ Len(backlog) <= Backlog
  /\ starts \in 0..MaxStarts /\ signals \in 0..MaxSignals /\ commands \in 0..MaxCommands
  /\ CommandFits

-----------------------------------------------------------------------------
(* What a process has when it begins; the constructor leaves running_ open. *)

FreshProcess ==
  /\ current_state' = "INIT" /\ running' \in BOOLEAN
  /\ request_stop' = FALSE /\ fsm_restart_requested' = FALSE /\ request_flash_log' = FALSE
  /\ bridge' = FALSE /\ running_lcd_status' = "Paused"
  /\ log_open' = FALSE /\ unsaved' = FALSE

\* The process is gone and its socket with it.
ProcessGone(how) ==
  /\ main' = "off" /\ exit' = how
  /\ thread' = "none" /\ server_running' = FALSE /\ listening' = FALSE /\ backlog' = <<>>
  /\ UNCHANGED command

Init ==
  /\ main = "off" /\ exit = "clean" /\ pid_file = "none"
  /\ current_state = "INIT" /\ running = FALSE
  /\ request_stop = FALSE /\ fsm_restart_requested = FALSE /\ request_flash_log = FALSE
  /\ bridge = FALSE /\ running_lcd_status = "Paused"
  /\ log_open = FALSE /\ unsaved = FALSE
  /\ fpga \in {"reset", "active"}
  /\ thread = "none" /\ command = "probe"
  /\ server_running = FALSE /\ listening = FALSE /\ backlog = <<>>
  /\ starts = 0 /\ signals = 0 /\ commands = 0

-----------------------------------------------------------------------------
(* systemd, the terminal and alprctl.                                      *)

\* alprctl start, and systemd after a failure: nothing happens while a process is there.
Start ==
  /\ main = "off" /\ starts < MaxStarts
  /\ main' = "check" /\ starts' = starts + 1
  /\ FreshProcess
  /\ UNCHANGED <<unitVars, fpga, socketVars, signals, commands>>

\* handleSignal: exit() destroys none of main's objects.
Signal ==
  /\ main # "off" /\ signals < MaxSignals
  /\ signals' = signals + 1
  /\ pid_file' = "none"
  /\ ProcessGone("clean")
  /\ UNCHANGED <<fsmVars, logVars, fpga, starts, commands>>

\* A client connects and writes its command.
Connect(c) ==
  /\ listening /\ Len(backlog) < Backlog /\ commands < MaxCommands
  /\ commands' = commands + 1
  /\ backlog' = Append(backlog, c)
  /\ UNCHANGED <<main, unitVars, fsmVars, logVars, fpga, thread, command, server_running,
                 listening, starts, signals>>

-----------------------------------------------------------------------------
(* main() up to the loop.                                                  *)

\* A PID of the file that was left may have been given to another process.
Refused ==
  /\ main = "check" /\ pid_file = "stale"
  /\ ProcessGone("failure")
  /\ UNCHANGED <<pid_file, fsmVars, logVars, fpga, countVars>>

CheckPid ==
  /\ main = "check"
  /\ main' = "write"
  /\ UNCHANGED <<unitVars, fsmVars, logVars, fpga, socketVars, countVars>>

WritePid ==
  /\ main = "write"
  /\ pid_file' = "own" /\ main' = "listen"
  /\ UNCHANGED <<exit, fsmVars, logVars, fpga, socketVars, countVars>>

Listen ==
  /\ main = "listen"
  /\ main' = "run"
  /\ server_running' = TRUE /\ listening' = TRUE /\ thread' = "loop"
  /\ UNCHANGED <<unitVars, fsmVars, logVars, fpga, command, backlog, countVars>>

ListenFails_PidLeft ==
  /\ main = "listen"
  /\ ProcessGone("failure")
  /\ UNCHANGED <<pid_file, fsmVars, logVars, fpga, countVars>>

\* SocketServer::start fails: the destructors have no thread to wait for.
ListenFails ==
  /\ main = "listen"
  /\ pid_file' = "none"
  /\ ProcessGone("failure")
  /\ UNCHANGED <<fsmVars, logVars, fpga, countVars>>

EnterLoop ==
  /\ main = "run"
  /\ running' = TRUE /\ main' = "turn"
  /\ UNCHANGED <<unitVars, current_state, request_stop, fsm_restart_requested,
                 request_flash_log, bridge, running_lcd_status, logVars, fpga, socketVars,
                 countVars>>

-----------------------------------------------------------------------------
(* The loop of AlprStateMachine::run, a turn under the mutex.              *)

TakeLock ==
  /\ main = "turn"
  /\ main' = "locked"
  /\ UNCHANGED <<unitVars, fsmVars, logVars, fpga, socketVars, countVars>>

\* resetStateMachine drops the bridge, which resets the FPGA as it goes.
TurnBridge == bridge /\ ~fsm_restart_requested

TurnFpga == IF fsm_restart_requested /\ bridge THEN "reset" ELSE fpga

\* The lines that are left after the requests at the top of a turn.
TurnUnsaved ==
  /\ unsaved \/ fsm_restart_requested
  /\ ~(request_flash_log /\ log_open)

TurnState ==
  IF request_stop THEN "HALT" ELSE IF fsm_restart_requested THEN "INIT" ELSE current_state

\* A turn that writes a line; whether the buffer is due is open, but without a file
\* it stays.
Logged(open) == unsaved' \in IF open THEN BOOLEAN ELSE {TRUE}

InitTurn ==
  /\ main = "locked" /\ TurnState = "INIT"
  /\ main' = "turn" /\ current_state' = "WORK"
  /\ bridge' = TRUE /\ fpga' = "active"
  /\ log_open' = TRUE /\ Logged(TRUE)
  /\ fsm_restart_requested' = FALSE /\ request_flash_log' = FALSE
  /\ running_lcd_status' = "Running"
  /\ UNCHANGED <<unitVars, running, request_stop, socketVars, countVars>>

\* handleInit gives up before the log files, before the bridge, or at the bridge;
\* run() returns with running_ as it was.
InitTurnFails ==
  /\ main = "locked" /\ TurnState = "INIT"
  /\ main' = "exit" /\ exit' = "failure" /\ current_state' = "ERROR"
  /\ request_flash_log' = FALSE
  /\ running_lcd_status' = "Paused"
  /\ \/ /\ bridge' = FALSE /\ fpga' = TurnFpga
        /\ UNCHANGED log_open
        /\ unsaved' = TurnUnsaved
     \/ /\ bridge' \in BOOLEAN
        /\ fpga' \in {TurnFpga} \union (IF bridge' THEN {"reset"} ELSE {})
        /\ log_open' = TRUE /\ Logged(TRUE)
  /\ UNCHANGED <<pid_file, running, request_stop, fsm_restart_requested, socketVars,
                 countVars>>

WorkTurn ==
  /\ main = "locked" /\ TurnState = "WORK"
  /\ main' = "turn" /\ current_state' \in {"WORK", "ERROR"}
  /\ request_flash_log' = FALSE
  /\ \/ unsaved' = TurnUnsaved
     \/ Logged(log_open)
  /\ UNCHANGED <<unitVars, running, request_stop, fsm_restart_requested, bridge,
                 running_lcd_status, log_open, fpga, socketVars, countVars>>

\* handleError
ErrorTurn ==
  /\ main = "locked" /\ TurnState = "ERROR"
  /\ main' = "exit" /\ exit' = "clean"
  /\ running' = FALSE /\ running_lcd_status' = "Error"
  /\ request_flash_log' = FALSE
  /\ Logged(log_open)
  /\ UNCHANGED <<pid_file, current_state, request_stop, fsm_restart_requested, bridge,
                 log_open, fpga, socketVars, countVars>>

HaltTurn_KeepsRunning ==
  /\ main = "locked" /\ TurnState = "HALT" /\ TurnBridge
  /\ main' = "turn" /\ current_state' = "HALT"
  /\ running_lcd_status' = "Offline"
  /\ request_flash_log' = FALSE
  /\ fpga' = "reset"
  /\ unsaved' = ~log_open
  /\ UNCHANGED <<unitVars, running, request_stop, fsm_restart_requested, bridge, log_open,
                 socketVars, countVars>>

\* handleHalt
HaltTurn ==
  /\ main = "locked" /\ TurnState = "HALT" /\ TurnBridge
  /\ main' = "exit" /\ exit' = "clean" /\ current_state' = "HALT"
  /\ running' = FALSE /\ running_lcd_status' = "Offline"
  /\ request_flash_log' = FALSE
  /\ fpga' = "reset"
  /\ unsaved' = ~log_open
  /\ UNCHANGED <<pid_file, request_stop, fsm_restart_requested, bridge, log_open, socketVars,
                 countVars>>

\* Without a bridge its cmdReset is a call through a null pointer.
HaltTurnCrashes ==
  /\ main = "locked" /\ TurnState = "HALT" /\ ~TurnBridge
  /\ pid_file' = "stale" /\ fpga' = TurnFpga
  /\ ProcessGone("failure")
  /\ UNCHANGED <<fsmVars, logVars, countVars>>

-----------------------------------------------------------------------------
(* main() after the loop: the PID file, SocketServer::stop and the         *)
(* destructors.                                                            *)

RemovePid ==
  /\ main = "exit"
  /\ pid_file' = "none" /\ main' = "stop"
  /\ UNCHANGED <<exit, fsmVars, logVars, fpga, socketVars, countVars>>

StopServer ==
  /\ main = "stop"
  /\ server_running' = FALSE /\ main' = "close"
  /\ UNCHANGED <<unitVars, fsmVars, logVars, fpga, thread, command, listening, backlog,
                 countVars>>

\* close() does not wake a thread that is in accept; connections nobody accepts are reset.
CloseSocket ==
  /\ main = "close"
  /\ listening' = FALSE /\ main' = "join"
  /\ backlog' = IF thread = "accept" THEN backlog ELSE <<>>
  /\ UNCHANGED <<unitVars, fsmVars, logVars, fpga, thread, command, server_running, countVars>>

\* join() returns; the bridge resets the FPGA once more and the logger empties its buffers.
Joined ==
  /\ main = "join" /\ thread = "none"
  /\ unsaved' = (unsaved /\ ~log_open)
  /\ fpga' = IF bridge THEN "reset" ELSE fpga
  /\ ProcessGone(exit)
  /\ UNCHANGED <<pid_file, fsmVars, log_open, countVars>>

-----------------------------------------------------------------------------
(* The socket's thread: SocketServer::run and the command map of main().   *)

ThreadLoop ==
  /\ thread = "loop"
  /\ thread' = IF server_running THEN "accept" ELSE "none"
  /\ UNCHANGED <<main, unitVars, fsmVars, logVars, fpga, command, server_running, listening,
                 backlog, countVars>>

Accept ==
  /\ thread = "accept" /\ backlog # <<>>
  /\ command' = Head(backlog) /\ backlog' = Tail(backlog)
  /\ thread' = IF command' = "probe" THEN "loop"
               ELSE IF command' = "help" THEN "answer" ELSE "handle"
  /\ UNCHANGED <<main, unitVars, fsmVars, logVars, fpga, server_running, listening, countVars>>

MutexFree == main # "locked"

HandleStop_StateOnly ==
  /\ thread = "handle" /\ command = "stop" /\ MutexFree
  /\ current_state' = "HALT"
  /\ Logged(log_open)
  /\ thread' = "poll"
  /\ UNCHANGED <<main, unitVars, running, request_stop, fsm_restart_requested,
                 request_flash_log, bridge, running_lcd_status, log_open, fpga, command,
                 server_running, listening, backlog, countVars>>

HandleStop ==
  /\ thread = "handle" /\ command = "stop" /\ MutexFree
  /\ request_stop' = TRUE /\ current_state' = "HALT"
  /\ Logged(log_open)
  /\ thread' = "poll"
  /\ UNCHANGED <<main, unitVars, running, fsm_restart_requested, request_flash_log, bridge,
                 running_lcd_status, log_open, fpga, command, server_running, listening,
                 backlog, countVars>>

HandleStatus ==
  /\ thread = "handle" /\ command = "status" /\ MutexFree
  /\ Logged(log_open)
  /\ thread' = "answer"
  /\ UNCHANGED <<main, unitVars, fsmVars, log_open, fpga, command, server_running, listening,
                 backlog, countVars>>

HandleRestart_Waits ==
  /\ thread = "handle" /\ command = "restart" /\ MutexFree
  /\ fsm_restart_requested' = TRUE
  /\ Logged(log_open)
  /\ thread' = "poll"
  /\ UNCHANGED <<main, unitVars, current_state, running, request_stop, request_flash_log,
                 bridge, running_lcd_status, log_open, fpga, command, server_running,
                 listening, backlog, countVars>>

HandleRestart ==
  /\ thread = "handle" /\ command = "restart" /\ MutexFree
  /\ fsm_restart_requested' = TRUE
  /\ Logged(log_open)
  /\ thread' = "answer"
  /\ UNCHANGED <<main, unitVars, current_state, running, request_stop, request_flash_log,
                 bridge, running_lcd_status, log_open, fpga, command, server_running,
                 listening, backlog, countVars>>

HandleFlush ==
  /\ thread = "handle" /\ command = "flushlogs" /\ MutexFree
  /\ request_flash_log' = TRUE
  /\ thread' = "answer"
  /\ UNCHANGED <<main, unitVars, current_state, running, request_stop, fsm_restart_requested,
                 bridge, running_lcd_status, logVars, fpga, command, server_running,
                 listening, backlog, countVars>>

StillRunning_NotAsked == FALSE

\* The stop command waits for isRunning() to be false.
StillRunning == running

Poll ==
  /\ thread = "poll" /\ MutexFree
  /\ thread' = IF StillRunning THEN "sleep" ELSE "answer"
  /\ UNCHANGED <<main, unitVars, fsmVars, logVars, fpga, command, server_running, listening,
                 backlog, countVars>>

Sleep ==
  /\ thread = "sleep"
  /\ thread' = "poll"
  /\ UNCHANGED <<main, unitVars, fsmVars, logVars, fpga, command, server_running, listening,
                 backlog, countVars>>

Answer ==
  /\ thread = "answer"
  /\ thread' = "loop"
  /\ UNCHANGED <<main, unitVars, fsmVars, logVars, fpga, command, server_running, listening,
                 backlog, countVars>>

-----------------------------------------------------------------------------
MainThread ==
  \/ CheckPid \/ WritePid \/ Listen \/ EnterLoop \/ TakeLock
  \/ InitTurn \/ WorkTurn \/ ErrorTurn \/ HaltTurn \/ HaltTurnCrashes
  \/ RemovePid \/ StopServer \/ CloseSocket \/ Joined

Failure == Refused \/ ListenFails \/ InitTurnFails

WithMutex == HandleStop \/ HandleStatus \/ HandleRestart \/ HandleFlush \/ Poll

WithoutMutex == ThreadLoop \/ Accept \/ Sleep \/ Answer

Next ==
  \/ Start \/ Signal
  \/ \E c \in Command : Connect(c)
  \/ MainThread \/ Failure
  \/ WithMutex \/ WithoutMutex

Spec == Init /\ [][Next]_vars

\* The kernel runs both threads, and the thread that waits for the mutex gets it sooner
\* or later although the loop gives it up only between two turns.
FairSpec ==
  /\ Spec
  /\ WF_vars(MainThread \/ Failure)
  /\ WF_vars(WithoutMutex) /\ SF_vars(WithMutex)

-----------------------------------------------------------------------------
(* What has to hold.                                                       *)

\* handleInit failed: run() has returned false and left running_ set.
StuckAfterInit == main \in {"exit", "stop", "close", "join"} /\ running

\* The PID file names the process from before its socket is there until after its loop,
\* on every way out of main() and by a signal; only a crash leaves it behind.
PidFileMatches ==
  pid_file = "own" <=> main \in {"listen", "run", "turn", "locked", "exit"}

\* When the stop command is answered, an initialised service has reset the FPGA, unless
\* the loop had ended with an ERROR; when the command had to wait for the loop, no log
\* line is left that is not in a file either.
StopClean ==
  /\ thread = "answer" /\ command = "stop" /\ bridge
       => running_lcd_status = "Error" \/ fpga = "reset"
  /\ thread = "sleep" /\ ~running
       => fpga = "reset" /\ ~unsaved

\* A command that was accepted is answered unless the process ends first; the stop
\* command waits for ever after a failed initialisation.
CommandsAnswered ==
  thread = "handle" ~> thread = "answer" \/ main = "off" \/ StuckAfterInit

\* The stop command was answered between the end of the loop and SocketServer::stop: the
\* thread has found running_ still set, is back in accept(), which close() does not wake,
\* and main() waits for it for ever.
BackInAccept == main = "join" /\ thread = "accept" /\ backlog = <<>>

\* A stop command that finds the loop running ends the process, unless its thread is back
\* in accept() before SocketServer::stop; and it does end it when SocketServer::stop comes
\* before the thread has noticed the end of the loop.
StopEnds ==
  /\ thread = "sleep" ~> main = "off" \/ StuckAfterInit \/ BackInAccept
  /\ main = "close" /\ thread = "sleep" ~> main = "off" \/ StuckAfterInit

\* The end of the loop, by HALT or by ERROR, is the end of the process.
LoopEndsProcess == main = "exit" ~> main = "off"
=============================================================================
