------------------------- MODULE AlprServiceProofs -------------------------
(***************************************************************************)
(* Proofs about AlprService, for any number of incarnations, signals and   *)
(* commands: its types, what a stop command that is answered has cleaned   *)
(* up, and the PID file.                                                   *)
(***************************************************************************)
EXTENDS AlprService, TLAPS

-----------------------------------------------------------------------------
(* Types.                                                                  *)

LEMMA EmptyBacklog == <<>> \in Seq(Command) /\ Len(<<>>) <= Backlog
BY ServiceAssumption

\* Only the socket's thread moves between the steps of a command.
LEMMA StillFits ==
  ASSUME CommandFits, Next
  PROVE  CommandFits'
<1> USE DEF CommandFits, socketVars
<1>1. CASE Start \/ Signal \/ (\E c \in Command : Connect(c))
  BY <1>1 DEF Start, Signal, Connect, ProcessGone
<1>2. CASE MainThread
  <2>1. CASE UNCHANGED <<thread, command>> \/ thread' \in {"none", "loop"}
    BY <2>1
  <2>2. QED
    BY <1>2, <2>1
    DEF MainThread, CheckPid, WritePid, Listen, EnterLoop, TakeLock, InitTurn, WorkTurn,
        ErrorTurn, HaltTurn, HaltTurnCrashes, RemovePid, StopServer, CloseSocket, Joined,
        ProcessGone
<1>3. CASE Failure
  BY <1>3 DEF Failure, Refused, ListenFails, InitTurnFails, ProcessGone
<1>4. CASE WithMutex
  BY <1>4 DEF WithMutex, HandleStop, HandleStatus, HandleRestart, HandleFlush, Poll
<1>5. CASE WithoutMutex
  BY <1>5 DEF WithoutMutex, ThreadLoop, Accept, Sleep, Answer
<1>6. QED
  BY <1>1, <1>2, <1>3, <1>4, <1>5 DEF Next

LEMMA OutsideTypes ==
  ASSUME TypeOK, Start \/ Signal \/ (\E c \in Command : Connect(c)), CommandFits'
  PROVE  TypeOK'
<1> USE ServiceAssumption, EmptyBacklog
    DEF TypeOK, unitVars, fsmVars, logVars, socketVars, countVars
<1>1. CASE Start
  <2>1. starts' \in 0..MaxStarts
    BY <1>1 DEF Start
  <2>2. QED
    BY <1>1, <2>1 DEF Start, FreshProcess, MainStep, State
<1>2. CASE Signal
  <2>1. signals' \in 0..MaxSignals
    BY <1>2 DEF Signal
  <2>2. QED
    BY <1>2, <2>1 DEF Signal, ProcessGone, MainStep, ThreadStep
<1>3. ASSUME NEW c \in Command, Connect(c) PROVE TypeOK'
  <2>1. backlog' \in Seq(Command) /\ Len(backlog') <= Backlog
    BY <1>3 DEF Connect
  <2>2. QED
    BY <1>3, <2>1 DEF Connect
<1>4. QED
  BY <1>1, <1>2, <1>3

LEMMA MainThreadTypes ==
  ASSUME TypeOK, MainThread, CommandFits'
  PROVE  TypeOK'
<1> USE ServiceAssumption, EmptyBacklog
    DEF TypeOK, unitVars, fsmVars, logVars, socketVars, countVars, MainStep, ThreadStep, State
<1>1. CASE CheckPid
  BY <1>1 DEF CheckPid
<1>2. CASE WritePid
  BY <1>2 DEF WritePid
<1>3. CASE Listen
  BY <1>3 DEF Listen
<1>4. CASE EnterLoop
  BY <1>4 DEF EnterLoop
<1>5. CASE TakeLock
  BY <1>5 DEF TakeLock
<1>6. CASE InitTurn
  BY <1>6 DEF InitTurn, Logged
<1>7. CASE WorkTurn
  BY <1>7 DEF WorkTurn, TurnUnsaved, Logged
<1>8. CASE ErrorTurn
  BY <1>8 DEF ErrorTurn, Logged
<1>9. CASE HaltTurn
  BY <1>9 DEF HaltTurn
<1>10. CASE HaltTurnCrashes
  BY <1>10 DEF HaltTurnCrashes, TurnFpga, ProcessGone
<1>11. CASE RemovePid
  BY <1>11 DEF RemovePid
<1>12. CASE StopServer
  BY <1>12 DEF StopServer
<1>13. CASE CloseSocket
  BY <1>13 DEF CloseSocket
<1>14. CASE Joined
  BY <1>14 DEF Joined, ProcessGone
<1>15. QED
  BY <1>1, <1>2, <1>3, <1>4, <1>5, <1>6, <1>7, <1>8, <1>9, <1>10, <1>11, <1>12, <1>13, <1>14
  DEF MainThread

LEMMA FailureTypes ==
  ASSUME TypeOK, Failure, CommandFits'
  PROVE  TypeOK'
<1> USE ServiceAssumption, EmptyBacklog
    DEF TypeOK, unitVars, fsmVars, logVars, socketVars, countVars, MainStep, ThreadStep, State
<1>1. CASE Refused
  BY <1>1 DEF Refused, ProcessGone
<1>2. CASE ListenFails
  BY <1>2 DEF ListenFails, ProcessGone
<1>3. CASE InitTurnFails
  BY <1>3 DEF InitTurnFails, TurnFpga, TurnUnsaved, Logged
<1>4. QED
  BY <1>1, <1>2, <1>3
  DEF Failure

LEMMA SocketThreadTypes ==
  ASSUME TypeOK, WithMutex \/ WithoutMutex, CommandFits'
  PROVE  TypeOK'
<1> USE ServiceAssumption, EmptyBacklog
    DEF TypeOK, unitVars, fsmVars, logVars, socketVars, countVars, MainStep, ThreadStep, State
<1>1. CASE HandleStop
  BY <1>1 DEF HandleStop, Logged
<1>2. CASE HandleStatus
  BY <1>2 DEF HandleStatus, Logged
<1>3. CASE HandleRestart
  BY <1>3 DEF HandleRestart, Logged
<1>4. CASE HandleFlush
  BY <1>4 DEF HandleFlush
<1>5. CASE Poll
  BY <1>5 DEF Poll
<1>6. CASE ThreadLoop
  BY <1>6 DEF ThreadLoop
<1>7. CASE Sleep
  BY <1>7 DEF Sleep
<1>8. CASE Answer
  BY <1>8 DEF Answer
<1>9. CASE Accept
  <2>1. Head(backlog) \in Command /\ Tail(backlog) \in Seq(Command)
        /\ Len(Tail(backlog)) = Len(backlog) - 1
    BY <1>9 DEF Accept
  <2>2. backlog' \in Seq(Command) /\ Len(backlog') <= Backlog /\ command' \in Command
    BY <1>9, <2>1 DEF Accept
  <2>3. thread' \in ThreadStep
    BY <1>9 DEF Accept
  <2>4. QED
    BY <1>9, <2>2, <2>3 DEF Accept
<1>10. QED
  BY <1>1, <1>2, <1>3, <1>4, <1>5, <1>6, <1>7, <1>8, <1>9
  DEF WithMutex, WithoutMutex

\* Every variable of the service stays in its type.
THEOREM TypeCorrect == Spec => []TypeOK
<1>1. Init => TypeOK
  <2>1. ASSUME Init PROVE /\ starts \in 0..MaxStarts
                          /\ signals \in 0..MaxSignals
                          /\ commands \in 0..MaxCommands
    BY <2>1, ServiceAssumption DEF Init
  <2>2. QED
    BY <2>1, EmptyBacklog DEF Init, TypeOK, CommandFits, MainStep, ThreadStep, State, Command
<1>2. TypeOK /\ [Next]_vars => TypeOK'
  <2>1. ASSUME TypeOK, Next PROVE TypeOK'
    <3>1. CommandFits'
      BY <2>1, StillFits DEF TypeOK
    <3>2. QED
      BY <2>1, <3>1, OutsideTypes, MainThreadTypes, FailureTypes, SocketThreadTypes DEF Next
  <2>2. ASSUME TypeOK, UNCHANGED vars PROVE TypeOK'
    BY <2>2 DEF TypeOK, CommandFits, vars, unitVars, fsmVars, logVars, socketVars, countVars
  <2>3. QED
    BY <2>1, <2>2
<1>3. QED
  BY <1>1, <1>2, PTL DEF Spec

-----------------------------------------------------------------------------
(* The inductive invariant. *)

\* No thread outlives its process.
ThreadLives == main = "off" => thread = "none"

\* handleInit opens the files before it makes the bridge, and there is no bridge
\* before the loop.
BridgeLast ==
  /\ bridge => log_open
  /\ main \in {"check", "write", "listen", "run"} => ~bridge

\* While the stop command waits, and when it is answered, the request is there.
StopAsked ==
  thread \in {"poll", "sleep"} \/ (thread = "answer" /\ command = "stop") => request_stop

LoopRuns == main \in {"turn", "locked"} => running

\* A loop that has ended left the FPGA reset, or said that it ended in an ERROR.
EndedClean == bridge /\ ~running => running_lcd_status = "Error" \/ fpga = "reset"

\* A stop command is not answered while an initialised loop runs.
AnsweredLast == thread = "answer" /\ command = "stop" /\ bridge => ~running

SleepClean == thread = "sleep" /\ ~running => fpga = "reset" /\ ~unsaved

IInv == /\ ThreadLives /\ BridgeLast /\ StopAsked /\ LoopRuns
        /\ EndedClean /\ AnsweredLast /\ SleepClean

-----------------------------------------------------------------------------
(* Every step keeps it. *)

LEMMA OutsideKeeps ==
  ASSUME IInv, Start \/ Signal \/ (\E c \in Command : Connect(c))
  PROVE  IInv'
<1> USE DEF IInv, ThreadLives, BridgeLast, StopAsked, LoopRuns, EndedClean, AnsweredLast,
            SleepClean, unitVars, fsmVars, logVars, socketVars, countVars
<1>1. CASE Start
  BY <1>1 DEF Start, FreshProcess
<1>2. CASE Signal
  BY <1>2 DEF Signal, ProcessGone
<1>3. ASSUME NEW c \in Command, Connect(c) PROVE IInv'
  BY <1>3 DEF Connect
<1>4. QED
  BY <1>1, <1>2, <1>3

\* The turns of the loop: with a stop requested there is no INIT and no ERROR, so that
\* nothing but HALT, which needs the bridge, ends the loop under a waiting command.
LEMMA MainThreadKeeps ==
  ASSUME IInv, MainThread
  PROVE  IInv'
<1> USE DEF IInv, ThreadLives, BridgeLast, StopAsked, LoopRuns, EndedClean, AnsweredLast,
            SleepClean, unitVars, fsmVars, logVars, socketVars, countVars
<1>1. CASE CheckPid
  BY <1>1 DEF CheckPid
<1>2. CASE WritePid
  BY <1>2 DEF WritePid
<1>3. CASE Listen
  BY <1>3 DEF Listen
<1>4. CASE EnterLoop
  BY <1>4 DEF EnterLoop
<1>5. CASE TakeLock
  BY <1>5 DEF TakeLock
<1>6. CASE InitTurn
  BY <1>6 DEF InitTurn, TurnState, Logged
<1>7. CASE WorkTurn
  BY <1>7 DEF WorkTurn, TurnState, TurnUnsaved, Logged
<1>8. CASE ErrorTurn
  BY <1>8 DEF ErrorTurn, TurnState, Logged
<1>9. CASE HaltTurn
  BY <1>9 DEF HaltTurn, TurnState, TurnBridge
<1>10. CASE HaltTurnCrashes
  BY <1>10 DEF HaltTurnCrashes, TurnState, TurnBridge, TurnFpga, ProcessGone
<1>11. CASE RemovePid
  BY <1>11 DEF RemovePid
<1>12. CASE StopServer
  BY <1>12 DEF StopServer
<1>13. CASE CloseSocket
  BY <1>13 DEF CloseSocket
<1>14. CASE Joined
  BY <1>14 DEF Joined, ProcessGone
<1>15. QED
  BY <1>1, <1>2, <1>3, <1>4, <1>5, <1>6, <1>7, <1>8, <1>9, <1>10, <1>11, <1>12, <1>13, <1>14
  DEF MainThread

LEMMA FailureKeeps ==
  ASSUME IInv, Failure
  PROVE  IInv'
<1> USE DEF IInv, ThreadLives, BridgeLast, StopAsked, LoopRuns, EndedClean, AnsweredLast,
            SleepClean, unitVars, fsmVars, logVars, socketVars, countVars
<1>1. CASE Refused
  BY <1>1 DEF Refused, ProcessGone
<1>2. CASE ListenFails
  BY <1>2 DEF ListenFails, ProcessGone
<1>3. CASE InitTurnFails
  BY <1>3 DEF InitTurnFails, TurnState, TurnFpga, TurnUnsaved, Logged
<1>4. QED
  BY <1>1, <1>2, <1>3 DEF Failure

LEMMA SocketThreadKeeps ==
  ASSUME IInv, WithMutex \/ WithoutMutex
  PROVE  IInv'
<1> USE DEF IInv, ThreadLives, BridgeLast, StopAsked, LoopRuns, EndedClean, AnsweredLast,
            SleepClean, unitVars, fsmVars, logVars, socketVars, countVars
<1>1. CASE HandleStop
  BY <1>1 DEF HandleStop, Logged, MutexFree
<1>2. CASE HandleStatus
  BY <1>2 DEF HandleStatus, Logged, MutexFree
<1>3. CASE HandleRestart
  BY <1>3 DEF HandleRestart, Logged, MutexFree
<1>4. CASE HandleFlush
  BY <1>4 DEF HandleFlush, MutexFree
<1>5. CASE Poll
  BY <1>5 DEF Poll, MutexFree, StillRunning
<1>6. CASE ThreadLoop
  BY <1>6 DEF ThreadLoop
<1>7. CASE Accept
  BY <1>7 DEF Accept
<1>8. CASE Sleep
  BY <1>8 DEF Sleep
<1>9. CASE Answer
  BY <1>9 DEF Answer
<1>10. QED
  BY <1>1, <1>2, <1>3, <1>4, <1>5, <1>6, <1>7, <1>8, <1>9 DEF WithMutex, WithoutMutex

LEMMA NextIInv ==
  ASSUME IInv, [Next]_vars
  PROVE  IInv'
<1>1. CASE Next
  BY <1>1, OutsideKeeps, MainThreadKeeps, FailureKeeps, SocketThreadKeeps DEF Next
<1>2. CASE UNCHANGED vars
  BY <1>2 DEF IInv, ThreadLives, BridgeLast, StopAsked, LoopRuns, EndedClean, AnsweredLast,
              SleepClean, vars, unitVars, fsmVars, logVars, socketVars, countVars
<1>3. QED
  BY <1>1, <1>2

\* What holds of threads, bridge and requests in every reachable state.
THEOREM ProcessInStep == Spec => []IInv
<1>1. Init => IInv
  BY DEF Init, IInv, ThreadLives, BridgeLast, StopAsked, LoopRuns, EndedClean, AnsweredLast,
         SleepClean
<1>2. QED
  BY <1>1, NextIInv, PTL DEF Spec

\* A stop command that is answered has left the FPGA reset, unless the loop had ended with
\* an ERROR before, and one that waited has left no line behind that is not in a file.
THEOREM StopCleans == Spec => []StopClean
<1>1. IInv => StopClean
  BY DEF IInv, EndedClean, AnsweredLast, SleepClean, StopClean
<1>2. QED
  BY <1>1, ProcessInStep, PTL

-----------------------------------------------------------------------------
(* The PID file. *)

LEMMA OutsideKeepsPid ==
  ASSUME PidFileMatches, Start \/ Signal \/ (\E c \in Command : Connect(c))
  PROVE  PidFileMatches'
BY DEF PidFileMatches, Start, Signal, Connect, ProcessGone, unitVars

LEMMA MainThreadKeepsPid ==
  ASSUME PidFileMatches, MainThread
  PROVE  PidFileMatches'
<1>1. CASE CheckPid \/ WritePid \/ Listen \/ EnterLoop \/ TakeLock
  BY <1>1 DEF PidFileMatches, CheckPid, WritePid, Listen, EnterLoop, TakeLock, unitVars
<1>2. CASE InitTurn \/ WorkTurn \/ ErrorTurn \/ HaltTurn \/ HaltTurnCrashes
  BY <1>2 DEF PidFileMatches, InitTurn, WorkTurn, ErrorTurn, HaltTurn, HaltTurnCrashes,
              ProcessGone, unitVars
<1>3. CASE RemovePid \/ StopServer \/ CloseSocket \/ Joined
  BY <1>3 DEF PidFileMatches, RemovePid, StopServer, CloseSocket, Joined, ProcessGone, unitVars
<1>4. QED
  BY <1>1, <1>2, <1>3 DEF MainThread

LEMMA FailureKeepsPid ==
  ASSUME PidFileMatches, Failure
  PROVE  PidFileMatches'
BY DEF PidFileMatches, Failure, Refused, ListenFails, InitTurnFails, ProcessGone, unitVars

LEMMA SocketThreadKeepsPid ==
  ASSUME PidFileMatches, WithMutex \/ WithoutMutex
  PROVE  PidFileMatches'
<1>1. CASE WithMutex
  BY <1>1 DEF PidFileMatches, WithMutex, HandleStop, HandleStatus, HandleRestart, HandleFlush,
              Poll, unitVars
<1>2. CASE WithoutMutex
  BY <1>2 DEF PidFileMatches, WithoutMutex, ThreadLoop, Accept, Sleep, Answer, unitVars
<1>3. QED
  BY <1>1, <1>2

\* The PID file names the process from before its socket is there until after its loop.
THEOREM PidFileExact == Spec => []PidFileMatches
<1>1. Init => PidFileMatches
  BY DEF Init, PidFileMatches
<1>2. PidFileMatches /\ [Next]_vars => PidFileMatches'
  <2>1. ASSUME PidFileMatches, Next PROVE PidFileMatches'
    BY <2>1, OutsideKeepsPid, MainThreadKeepsPid, FailureKeepsPid, SocketThreadKeepsPid DEF Next
  <2>2. ASSUME PidFileMatches, UNCHANGED vars PROVE PidFileMatches'
    BY <2>2 DEF PidFileMatches, vars, unitVars
  <2>3. QED
    BY <2>1, <2>2
<1>3. QED
  BY <1>1, <1>2, PTL DEF Spec
=============================================================================
