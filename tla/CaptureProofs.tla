---------------------------- MODULE CaptureProofs ----------------------------
(***************************************************************************)
(* Proofs about the capture of a sample, for every set of simulator plans  *)
(* in which the power-down comes last and every capacity of the pipe.      *)
(***************************************************************************)
EXTENDS Capture, FiniteSetTheorems, TLAPS

\* Between commands the control pipes are empty.
Quiet == pc \in {"launch", "loop", "select"} => message = "none" /\ ~ack
Types == TypeOK /\ Quiet

\* What the exit statuses say of the processes.
Children ==
  /\ guest = "none" => pc \in {"launch", "rejected"} /\ code = "none" /\ perf = "none"
  /\ pc = "launch" => guest = "none"
  /\ guest # "none" => (perf # "none" <=> script = "counters")
  /\ guest = "running" => code = "none"
  /\ code = "ok" => guest \in {"closing", "gone"} /\ printed = Total
  /\ perf # "gone" => perf_code = "none"
  /\ perf_code = "ok" => guest = "gone"
  /\ perf = "gone" => guest = "gone" \/ perf_code = "signal"

\* After the loop everything printed has been read; after the wait the status is
\* that of the process launched.
Reaped == pc \in {"judge", "accepted"} \/ (pc = "finally" /\ ~raised)
Caught ==
  /\ raised => pc \in {"finally", "rejected"}
  /\ pc = "wait" \/ Reaped => data = printed /\ guest # "running"
  /\ Reaped => Leader = "gone" /\ rc = LeaderCode

\* What the finally clauses leave; the boot script opens nothing but its console.
CleanedUp ==
  /\ script = "boot" => fds \subseteq Unclosed
  /\ pc \in {"judge"} \cup Ended =>
       /\ fds \subseteq Unclosed /\ perf # "running"
       /\ guest \in {"none", "gone"} \/ (script = "counters" /\ perf_code = "signal")
       /\ guest # "none" => log = data

\* What was judged has not changed since.
Approved == pc = "accepted" => Passes

IInv == Types /\ Children /\ Caught /\ CleanedUp /\ Approved

\* A marker is stamped as soon as it is in what has been read.
Noted == \A m \in Markers : stamps[m] # 0 <=> Prints(m, data)

\* The command under way is the one the stamps call for, and none is after the end.
Commanded ==
  /\ message # "none" \/ ack \/ counting \/ measured # {} \/ pc = "control" =>
       script = "counters" /\ stamps["START"] # 0
  /\ pc = "control" => stamps["END"] = 0 /\ stamps["disabled"] = 0
  /\ pc = "control" /\ message # "none" => message = Request
  /\ pc = "control" /\ ack /\ stamps["enabled"] # 0 => ~counting /\ message = "none"
  /\ stamps["disabled"] # 0 => ~counting /\ message = "none" /\ ~ack
Within ==
  /\ "boot" \notin measured
  /\ "after" \in measured => stamps["END"] # 0 /\ stamps["disabled"] = 0

WInv == IInv /\ Noted /\ Commanded /\ Within

\* Without a fault everything ends well, is read to its end and is judged once.
Faultless ==
  /\ raised => fault
  /\ ~fault /\ guest \in {"closing", "gone"} => code = "ok"
  /\ ~fault /\ perf = "gone" => perf_code = "ok"
Settled == pc \in {"judge"} \cup Ended /\ ~fault => rc = "ok" /\ data = Total
Refused == pc = "rejected" /\ ~fault => ~Passes

\* The stamps are in the order of what they stamp.
Ordered ==
  /\ \A m \in Stamped : stamps[m] <= clock
  /\ stamps["enabled"] # 0 => stamps["START"] # 0 /\ stamps["START"] < stamps["enabled"]
  /\ stamps["disabled"] # 0 => stamps["enabled"] # 0 /\ stamps["enabled"] < stamps["disabled"]
  /\ stamps["disabled"] # 0 /\ stamps["END"] # 0 => stamps["disabled"] < stamps["END"]
  /\ plan = WorkloadRun /\ script # "boot" /\ stamps["END"] # 0 => stamps["START"] <= stamps["END"]

CInv == WInv /\ Faultless /\ Settled /\ Refused /\ Ordered

-----------------------------------------------------------------------------
(* Texts *)

\* The lines of a plan are counted by naturals.
LEMMA TotalIsNat ==
  ASSUME plan \in Plans
  PROVE  Len(plan) \in Nat /\ Total \in Nat /\ Total = 2 * Len(plan)
BY CaptureAssumption DEF Total

\* What has been printed stays printed.
LEMMA PrintsGrows ==
  ASSUME NEW line, NEW m \in Nat, NEW n \in Nat, m <= n, plan \in Plans, Prints(line, m)
  PROVE  Prints(line, n)
<1>1. PICK i \in 1 .. Len(plan) : plan[i] = line /\ 2 * i <= m
  BY DEF Prints
<1>2. i \in Nat /\ 2 * i <= n
  BY <1>1, TotalIsNat
<1> QED
  BY <1>1, <1>2 DEF Prints

LEMMA NothingPrinted ==
  ASSUME NEW line, plan \in Plans
  PROVE  ~Prints(line, 0)
BY TotalIsNat DEF Prints

\* The power-down is the last of everything.
LEMMA DownIsLast ==
  ASSUME NEW n \in Nat, plan \in Plans, n <= Total, Prints("DOWN", n)
  PROVE  n = Total
<1>1. PICK i \in 1 .. Len(plan) : plan[i] = "DOWN" /\ 2 * i <= n
  BY DEF Prints
<1>2. i = Len(plan)
  BY <1>1, CaptureAssumption
<1> QED
  BY <1>1, <1>2, TotalIsNat

-----------------------------------------------------------------------------
(* Types *)

LEMMA StampsTyped ==
  ASSUME stamps \in [Stamped -> Nat], clock \in Nat, NEW new
  PROVE  Stamps(new) \in [Stamped -> Nat]
BY DEF Stamps

LEMMA InitTypes == Init => Types
<1> SUFFICES ASSUME Init PROVE Types
  OBVIOUS
<1>1. Total \in Nat
  BY TotalIsNat DEF Init
<1>2. PIPE \in Nat /\ PIPE > 0
  BY CaptureAssumption
<1>3. fds \subseteq {"stdout", "ctl_read", "ctl_write", "ack_read", "ack_write"}
  BY DEF Init
<1>4. ack \in BOOLEAN /\ raised \in BOOLEAN /\ counting \in BOOLEAN /\ fault \in BOOLEAN
  BY DEF Init
<1>5. stamps \in [Stamped -> Nat]
  BY DEF Init
<1> QED
  BY <1>1, <1>2, <1>3, <1>4, <1>5 DEF Init, Types, TypeOK, Quiet, Processes, Codes, Ended, NoLog

LEMMA NextTypes == Types /\ [Next]_vars => Types'
<1> SUFFICES ASSUME Types, [Next]_vars PROVE Types'
  OBVIOUS
<1>0. Total \in Nat /\ (plan' = plan => Total' = Total) /\ PIPE \in Nat
  BY TotalIsNat, CaptureAssumption DEF Types, TypeOK, Total
<1>1. CASE PrintHalf
  BY <1>1, <1>0 DEF PrintHalf, Measure, Phase, Types, TypeOK, Quiet, Processes, Codes, Stamped, Ended, NoLog, console, processes, pipes, notes, files, history
<1>2. CASE Finish
  BY <1>2, <1>0 DEF Finish, Types, TypeOK, Quiet, Processes, Codes, Stamped, Ended, NoLog, console, processes, pipes, notes, files, history
<1>3. CASE Fail
  BY <1>3, <1>0 DEF Fail, Types, TypeOK, Quiet, Processes, Codes, Stamped, Ended, NoLog, console, processes, pipes, notes, files, history
<1>4. CASE Exit
  BY <1>4, <1>0 DEF Exit, Types, TypeOK, Quiet, Processes, Codes, Stamped, Ended, NoLog, console, processes, pipes, notes, files, history
<1>5. CASE PerfFinish
  <2>1. counting' \in BOOLEAN /\ fault' \in BOOLEAN /\ raised' \in BOOLEAN /\ ack' \in BOOLEAN
    BY <1>5 DEF PerfFinish, Types, TypeOK, pipes, history
  <2> QED
    BY <1>5, <1>0, <2>1 DEF PerfFinish, Types, TypeOK, Quiet, Processes, Codes, Stamped, Ended, NoLog, console, processes, pipes, notes, files, history
<1>6. CASE PerfDie
  <2>1. counting' \in BOOLEAN /\ fault' \in BOOLEAN /\ raised' \in BOOLEAN /\ ack' \in BOOLEAN
    BY <1>6 DEF PerfDie, Types, TypeOK, pipes, history
  <2> QED
    BY <1>6, <1>0, <2>1 DEF PerfDie, Types, TypeOK, Quiet, Processes, Codes, Stamped, Ended, NoLog, console, processes, pipes, notes, files, history
<1>7. CASE PerfObey
  BY <1>7, <1>0 DEF PerfObey, Measure, Phase, Types, TypeOK, Quiet, Processes, Codes, Stamped, Ended, NoLog, console, processes, pipes, notes, files, history
<1>8. CASE Launch
  BY <1>8, <1>0 DEF Launch, Types, TypeOK, Quiet, Processes, Codes, Stamped, Ended, NoLog, console, processes, pipes, notes, files, history
<1>9. CASE LaunchFails
  BY <1>9, <1>0 DEF LaunchFails, Types, TypeOK, Quiet, Processes, Codes, Stamped, Ended, NoLog, console, processes, pipes, notes, files, history
<1>10. CASE Control
  BY <1>10, <1>0 DEF Control, Request, Types, TypeOK, Quiet, Processes, Codes, Stamped, Ended, NoLog, console, processes, pipes, notes, files, history
<1>11. CASE Acknowledged
  <2>1. counting' \in BOOLEAN /\ fault' \in BOOLEAN /\ raised' \in BOOLEAN /\ ack' \in BOOLEAN
    BY <1>11 DEF Acknowledged, Types, TypeOK, pipes, history
  <2> QED
    BY <1>11, <1>0, <2>1 DEF Acknowledged, Types, TypeOK, Quiet, Processes, Codes, Stamped, Ended, NoLog, console, processes, pipes, notes, files, history
<1>12. CASE Unacknowledged
  BY <1>12, <1>0 DEF Unacknowledged, Types, TypeOK, Quiet, Processes, Codes, Stamped, Ended, NoLog, console, processes, pipes, notes, files, history
<1>13. CASE Proceed
  BY <1>13, <1>0 DEF Proceed, Types, TypeOK, Quiet, Processes, Codes, Stamped, Ended, NoLog, console, processes, pipes, notes, files, history
<1>14. CASE Read
  <2>0. Stamps({m \in Markers : Seen(m, data, printed)}) \in [Stamped -> Nat]
    BY StampsTyped DEF Types, TypeOK
  <2>1. counting' \in BOOLEAN /\ fault' \in BOOLEAN /\ raised' \in BOOLEAN /\ ack' \in BOOLEAN
    BY <1>14 DEF Read, Types, TypeOK, pipes, history
  <2> QED
    BY <1>14, <1>0, <2>1, <2>0 DEF Read, Measure, Phase, Types, TypeOK, Quiet, Processes, Codes, Stamped, Ended, NoLog, console, processes, pipes, notes, files, history
<1>15. CASE Poll
  BY <1>15, <1>0 DEF Poll, Types, TypeOK, Quiet, Processes, Codes, Stamped, Ended, NoLog, console, processes, pipes, notes, files, history
<1>16. CASE EndOfFile
  BY <1>16, <1>0 DEF EndOfFile, Types, TypeOK, Quiet, Processes, Codes, Stamped, Ended, NoLog, console, processes, pipes, notes, files, history
<1>17. CASE Reap
  <2>1. counting' \in BOOLEAN /\ fault' \in BOOLEAN /\ raised' \in BOOLEAN /\ ack' \in BOOLEAN
    BY <1>17 DEF Reap, Types, TypeOK, pipes, history
  <2> QED
    BY <1>17, <1>0, <2>1 DEF Reap, Leader, LeaderCode, Types, TypeOK, Quiet, Processes, Codes, Stamped, Ended, NoLog, console, processes, pipes, notes, files, history
<1>18. CASE ReapTimesOut
  BY <1>18, <1>0 DEF ReapTimesOut, Types, TypeOK, Quiet, Processes, Codes, Stamped, Ended, NoLog, console, processes, pipes, notes, files, history
<1>19. CASE CleanUp
  <2>1. counting' \in BOOLEAN /\ fault' \in BOOLEAN /\ raised' \in BOOLEAN /\ ack' \in BOOLEAN
    BY <1>19 DEF CleanUp, Types, TypeOK, pipes, history
  <2> QED
    BY <1>19, <1>0, <2>1 DEF CleanUp, Kill, Types, TypeOK, Quiet, Processes, Codes, Stamped, Ended, NoLog, console, processes, pipes, notes, files, history
<1>20. CASE Judge
  BY <1>20, <1>0 DEF Judge, Types, TypeOK, Quiet, Processes, Codes, Stamped, Ended, NoLog, console, processes, pipes, notes, files, history
<1>21. CASE JudgeMultiplexed
  BY <1>21, <1>0 DEF JudgeMultiplexed, Types, TypeOK, Quiet, Processes, Codes, Stamped, Ended, NoLog, console, processes, pipes, notes, files, history
<1>22. CASE TimeOut
  BY <1>22, <1>0 DEF TimeOut, Types, TypeOK, Quiet, Processes, Codes, Stamped, Ended, NoLog, console, processes, pipes, notes, files, history
<1>23. CASE UNCHANGED vars
  BY <1>23, <1>0 DEF vars, console, processes, pipes, notes, files, history, Types, TypeOK, Quiet, Processes, Codes, Stamped, Ended, NoLog, console, processes, pipes, notes, files, history
<1>24. QED
  BY <1>1, <1>2, <1>3, <1>4, <1>5, <1>6, <1>7, <1>8, <1>9, <1>10, <1>11, <1>12, <1>13, <1>14, <1>15, <1>16, <1>17, <1>18, <1>19, <1>20, <1>21, <1>22, <1>23 DEF Next, Simulator, Perf, Script
-----------------------------------------------------------------------------
(* Processes and the end of a run *)

LEMMA NextChildren == Types /\ Children /\ [Next]_vars => Children'
<1> SUFFICES ASSUME Types, Children, [Next]_vars PROVE Children'
  OBVIOUS
<1>0. Total \in Nat /\ (plan' = plan => Total' = Total) /\ printed \in 0 .. Total
  BY TotalIsNat DEF Types, TypeOK, Total
<1>1. CASE PrintHalf
  BY <1>1, <1>0 DEF PrintHalf, Types, TypeOK, Children, Processes, Ended, console, processes, pipes, notes, files, history
<1>2. CASE Finish
  BY <1>2, <1>0 DEF Finish, Types, TypeOK, Children, Processes, Ended, console, processes, pipes, notes, files, history
<1>3. CASE Fail
  BY <1>3, <1>0 DEF Fail, Types, TypeOK, Children, Processes, Ended, console, processes, pipes, notes, files, history
<1>4. CASE Exit
  BY <1>4, <1>0 DEF Exit, Types, TypeOK, Children, Processes, Ended, console, processes, pipes, notes, files, history
<1>5. CASE PerfFinish
  BY <1>5, <1>0 DEF PerfFinish, Types, TypeOK, Children, Processes, Ended, console, processes, pipes, notes, files, history
<1>6. CASE PerfDie
  BY <1>6, <1>0 DEF PerfDie, Types, TypeOK, Children, Processes, Ended, console, processes, pipes, notes, files, history
<1>7. CASE PerfObey
  BY <1>7, <1>0 DEF PerfObey, Types, TypeOK, Children, Processes, Ended, console, processes, pipes, notes, files, history
<1>8. CASE Launch
  BY <1>8, <1>0 DEF Launch, Types, TypeOK, Children, Processes, Ended, console, processes, pipes, notes, files, history
<1>9. CASE LaunchFails
  BY <1>9, <1>0 DEF LaunchFails, Types, TypeOK, Children, Processes, Ended, console, processes, pipes, notes, files, history
<1>10. CASE Control
  BY <1>10, <1>0 DEF Control, Types, TypeOK, Children, Processes, Ended, console, processes, pipes, notes, files, history
<1>11. CASE Acknowledged
  BY <1>11, <1>0 DEF Acknowledged, Types, TypeOK, Children, Processes, Ended, console, processes, pipes, notes, files, history
<1>12. CASE Unacknowledged
  BY <1>12, <1>0 DEF Unacknowledged, Types, TypeOK, Children, Processes, Ended, console, processes, pipes, notes, files, history
<1>13. CASE Proceed
  BY <1>13, <1>0 DEF Proceed, Types, TypeOK, Children, Processes, Ended, console, processes, pipes, notes, files, history
<1>14. CASE Read
  BY <1>14, <1>0 DEF Read, Types, TypeOK, Children, Processes, Ended, console, processes, pipes, notes, files, history
<1>15. CASE Poll
  BY <1>15, <1>0 DEF Poll, Types, TypeOK, Children, Processes, Ended, console, processes, pipes, notes, files, history
<1>16. CASE EndOfFile
  BY <1>16, <1>0 DEF EndOfFile, Types, TypeOK, Children, Processes, Ended, console, processes, pipes, notes, files, history
<1>17. CASE Reap
  BY <1>17, <1>0 DEF Reap, Leader, Types, TypeOK, Children, Processes, Ended, console, processes, pipes, notes, files, history
<1>18. CASE ReapTimesOut
  BY <1>18, <1>0 DEF ReapTimesOut, Types, TypeOK, Children, Processes, Ended, console, processes, pipes, notes, files, history
<1>19. CASE CleanUp
  BY <1>19, <1>0 DEF CleanUp, Kill, Leader, Types, TypeOK, Children, Processes, Ended, console, processes, pipes, notes, files, history
<1>20. CASE Judge
  BY <1>20, <1>0 DEF Judge, Types, TypeOK, Children, Processes, Ended, console, processes, pipes, notes, files, history
<1>21. CASE JudgeMultiplexed
  BY <1>21, <1>0 DEF JudgeMultiplexed, Types, TypeOK, Children, Processes, Ended, console, processes, pipes, notes, files, history
<1>22. CASE TimeOut
  BY <1>22, <1>0 DEF TimeOut, Types, TypeOK, Children, Processes, Ended, console, processes, pipes, notes, files, history
<1>23. CASE UNCHANGED vars
  BY <1>23, <1>0 DEF vars, Types, TypeOK, Children, Processes, Ended, console, processes, pipes, notes, files, history
<1>24. QED
  BY <1>1, <1>2, <1>3, <1>4, <1>5, <1>6, <1>7, <1>8, <1>9, <1>10, <1>11, <1>12, <1>13, <1>14, <1>15, <1>16, <1>17, <1>18, <1>19, <1>20, <1>21, <1>22, <1>23 DEF Next, Simulator, Perf, Script

LEMMA NextCaught == Types /\ Children /\ Caught /\ [Next]_vars => Caught'
<1> SUFFICES ASSUME Types, Children, Caught, [Next]_vars PROVE Caught'
  OBVIOUS
<1>1. CASE PrintHalf
  BY <1>1 DEF PrintHalf, Types, TypeOK, Children, Caught, Reaped, Leader, LeaderCode, Processes, console, processes, pipes, notes, files, history
<1>2. CASE Finish
  BY <1>2 DEF Finish, Types, TypeOK, Children, Caught, Reaped, Leader, LeaderCode, Processes, console, processes, pipes, notes, files, history
<1>3. CASE Fail
  BY <1>3 DEF Fail, Types, TypeOK, Children, Caught, Reaped, Leader, LeaderCode, Processes, console, processes, pipes, notes, files, history
<1>4. CASE Exit
  BY <1>4 DEF Exit, Types, TypeOK, Children, Caught, Reaped, Leader, LeaderCode, Processes, console, processes, pipes, notes, files, history
<1>5. CASE PerfFinish
  BY <1>5 DEF PerfFinish, Types, TypeOK, Children, Caught, Reaped, Leader, LeaderCode, Processes, console, processes, pipes, notes, files, history
<1>6. CASE PerfDie
  BY <1>6 DEF PerfDie, Types, TypeOK, Children, Caught, Reaped, Leader, LeaderCode, Processes, console, processes, pipes, notes, files, history
<1>7. CASE PerfObey
  BY <1>7 DEF PerfObey, Types, TypeOK, Children, Caught, Reaped, Leader, LeaderCode, Processes, console, processes, pipes, notes, files, history
<1>8. CASE Launch
  BY <1>8 DEF Launch, Types, TypeOK, Children, Caught, Reaped, Leader, LeaderCode, Processes, console, processes, pipes, notes, files, history
<1>9. CASE LaunchFails
  BY <1>9 DEF LaunchFails, Types, TypeOK, Children, Caught, Reaped, Leader, LeaderCode, Processes, console, processes, pipes, notes, files, history
<1>10. CASE Control
  BY <1>10 DEF Control, Types, TypeOK, Children, Caught, Reaped, Leader, LeaderCode, Processes, console, processes, pipes, notes, files, history
<1>11. CASE Acknowledged
  BY <1>11 DEF Acknowledged, Types, TypeOK, Children, Caught, Reaped, Leader, LeaderCode, Processes, console, processes, pipes, notes, files, history
<1>12. CASE Unacknowledged
  BY <1>12 DEF Unacknowledged, Types, TypeOK, Children, Caught, Reaped, Leader, LeaderCode, Processes, console, processes, pipes, notes, files, history
<1>13. CASE Proceed
  BY <1>13 DEF Proceed, Types, TypeOK, Children, Caught, Reaped, Leader, LeaderCode, Processes, console, processes, pipes, notes, files, history
<1>14. CASE Read
  BY <1>14 DEF Read, Types, TypeOK, Children, Caught, Reaped, Leader, LeaderCode, Processes, console, processes, pipes, notes, files, history
<1>15. CASE Poll
  BY <1>15 DEF Poll, Types, TypeOK, Children, Caught, Reaped, Leader, LeaderCode, Processes, console, processes, pipes, notes, files, history
<1>16. CASE EndOfFile
  BY <1>16 DEF EndOfFile, Closed, Types, TypeOK, Children, Caught, Reaped, Leader, LeaderCode, Processes, console, processes, pipes, notes, files, history
<1>17. CASE Reap
  BY <1>17 DEF Reap, Types, TypeOK, Children, Caught, Reaped, Leader, LeaderCode, Processes, console, processes, pipes, notes, files, history
<1>18. CASE ReapTimesOut
  BY <1>18 DEF ReapTimesOut, Types, TypeOK, Children, Caught, Reaped, Leader, LeaderCode, Processes, console, processes, pipes, notes, files, history
<1>19. CASE CleanUp
  BY <1>19 DEF CleanUp, Kill, Types, TypeOK, Children, Caught, Reaped, Leader, LeaderCode, Processes, console, processes, pipes, notes, files, history
<1>20. CASE Judge
  BY <1>20 DEF Judge, Types, TypeOK, Children, Caught, Reaped, Leader, LeaderCode, Processes, console, processes, pipes, notes, files, history
<1>21. CASE JudgeMultiplexed
  BY <1>21 DEF JudgeMultiplexed, Types, TypeOK, Children, Caught, Reaped, Leader, LeaderCode, Processes, console, processes, pipes, notes, files, history
<1>22. CASE TimeOut
  BY <1>22 DEF TimeOut, Types, TypeOK, Children, Caught, Reaped, Leader, LeaderCode, Processes, console, processes, pipes, notes, files, history
<1>23. CASE UNCHANGED vars
  BY <1>23 DEF vars, Types, TypeOK, Children, Caught, Reaped, Leader, LeaderCode, Processes, console, processes, pipes, notes, files, history
<1>24. QED
  BY <1>1, <1>2, <1>3, <1>4, <1>5, <1>6, <1>7, <1>8, <1>9, <1>10, <1>11, <1>12, <1>13, <1>14, <1>15, <1>16, <1>17, <1>18, <1>19, <1>20, <1>21, <1>22, <1>23 DEF Next, Simulator, Perf, Script

LEMMA NextCleanedUp == Types /\ Children /\ Caught /\ CleanedUp /\ [Next]_vars => CleanedUp'
<1> SUFFICES ASSUME Types, Children, Caught, CleanedUp, [Next]_vars PROVE CleanedUp'
  OBVIOUS
<1>1. CASE PrintHalf
  BY <1>1 DEF PrintHalf, Types, TypeOK, Children, Caught, CleanedUp, Unclosed, Ended, Reaped, Leader, Processes, console, processes, pipes, notes, files, history
<1>2. CASE Finish
  BY <1>2 DEF Finish, Types, TypeOK, Children, Caught, CleanedUp, Unclosed, Ended, Reaped, Leader, Processes, console, processes, pipes, notes, files, history
<1>3. CASE Fail
  BY <1>3 DEF Fail, Types, TypeOK, Children, Caught, CleanedUp, Unclosed, Ended, Reaped, Leader, Processes, console, processes, pipes, notes, files, history
<1>4. CASE Exit
  BY <1>4 DEF Exit, Types, TypeOK, Children, Caught, CleanedUp, Unclosed, Ended, Reaped, Leader, Processes, console, processes, pipes, notes, files, history
<1>5. CASE PerfFinish
  BY <1>5 DEF PerfFinish, Types, TypeOK, Children, Caught, CleanedUp, Unclosed, Ended, Reaped, Leader, Processes, console, processes, pipes, notes, files, history
<1>6. CASE PerfDie
  BY <1>6 DEF PerfDie, Types, TypeOK, Children, Caught, CleanedUp, Unclosed, Ended, Reaped, Leader, Processes, console, processes, pipes, notes, files, history
<1>7. CASE PerfObey
  BY <1>7 DEF PerfObey, Types, TypeOK, Children, Caught, CleanedUp, Unclosed, Ended, Reaped, Leader, Processes, console, processes, pipes, notes, files, history
<1>8. CASE Launch
  BY <1>8 DEF Launch, Types, TypeOK, Children, Caught, CleanedUp, Unclosed, Ended, Reaped, Leader, Processes, console, processes, pipes, notes, files, history
<1>9. CASE LaunchFails
  BY <1>9 DEF LaunchFails, Types, TypeOK, Children, Caught, CleanedUp, Unclosed, Ended, Reaped, Leader, Processes, console, processes, pipes, notes, files, history
<1>10. CASE Control
  BY <1>10 DEF Control, Types, TypeOK, Children, Caught, CleanedUp, Unclosed, Ended, Reaped, Leader, Processes, console, processes, pipes, notes, files, history
<1>11. CASE Acknowledged
  BY <1>11 DEF Acknowledged, Types, TypeOK, Children, Caught, CleanedUp, Unclosed, Ended, Reaped, Leader, Processes, console, processes, pipes, notes, files, history
<1>12. CASE Unacknowledged
  BY <1>12 DEF Unacknowledged, Types, TypeOK, Children, Caught, CleanedUp, Unclosed, Ended, Reaped, Leader, Processes, console, processes, pipes, notes, files, history
<1>13. CASE Proceed
  BY <1>13 DEF Proceed, Types, TypeOK, Children, Caught, CleanedUp, Unclosed, Ended, Reaped, Leader, Processes, console, processes, pipes, notes, files, history
<1>14. CASE Read
  BY <1>14 DEF Read, Types, TypeOK, Children, Caught, CleanedUp, Unclosed, Ended, Reaped, Leader, Processes, console, processes, pipes, notes, files, history
<1>15. CASE Poll
  BY <1>15 DEF Poll, Types, TypeOK, Children, Caught, CleanedUp, Unclosed, Ended, Reaped, Leader, Processes, console, processes, pipes, notes, files, history
<1>16. CASE EndOfFile
  BY <1>16 DEF EndOfFile, Types, TypeOK, Children, Caught, CleanedUp, Unclosed, Ended, Reaped, Leader, Processes, console, processes, pipes, notes, files, history
<1>17. CASE Reap
  BY <1>17 DEF Reap, Types, TypeOK, Children, Caught, CleanedUp, Unclosed, Ended, Reaped, Leader, Processes, console, processes, pipes, notes, files, history
<1>18. CASE ReapTimesOut
  BY <1>18 DEF ReapTimesOut, Types, TypeOK, Children, Caught, CleanedUp, Unclosed, Ended, Reaped, Leader, Processes, console, processes, pipes, notes, files, history
<1>19. CASE CleanUp
  BY <1>19 DEF CleanUp, Kill, Types, TypeOK, Children, Caught, CleanedUp, Unclosed, Ended, Reaped, Leader, Processes, console, processes, pipes, notes, files, history
<1>20. CASE Judge
  BY <1>20 DEF Judge, Types, TypeOK, Children, Caught, CleanedUp, Unclosed, Ended, Reaped, Leader, Processes, console, processes, pipes, notes, files, history
<1>21. CASE JudgeMultiplexed
  BY <1>21 DEF JudgeMultiplexed, Types, TypeOK, Children, Caught, CleanedUp, Unclosed, Ended, Reaped, Leader, Processes, console, processes, pipes, notes, files, history
<1>22. CASE TimeOut
  BY <1>22 DEF TimeOut, Types, TypeOK, Children, Caught, CleanedUp, Unclosed, Ended, Reaped, Leader, Processes, console, processes, pipes, notes, files, history
<1>23. CASE UNCHANGED vars
  BY <1>23 DEF vars, Types, TypeOK, Children, Caught, CleanedUp, Unclosed, Ended, Reaped, Leader, Processes, console, processes, pipes, notes, files, history
<1>24. QED
  BY <1>1, <1>2, <1>3, <1>4, <1>5, <1>6, <1>7, <1>8, <1>9, <1>10, <1>11, <1>12, <1>13, <1>14, <1>15, <1>16, <1>17, <1>18, <1>19, <1>20, <1>21, <1>22, <1>23 DEF Next, Simulator, Perf, Script
LEMMA Judged ==
  ASSUME UNCHANGED <<script, plan, data, stamps, rc>>
  PROVE  Passes' <=> Passes
<1>1. \A line \in Lines : Prints(line, data)' <=> Prints(line, data)
  BY DEF Prints
<1>2. \A line \in Lines : Count(line, data)' = Count(line, data)
  BY DEF Count
<1>3. (Once' <=> Once) /\ (Validated' <=> Validated) /\ (WindowInside' <=> WindowInside)
  BY <1>1, <1>2 DEF Once, Validated, WindowInside, Lines
<1> QED
  BY <1>1, <1>3 DEF Passes, BootPasses, CoreMarkPasses, CountersPass, Lines

LEMMA NextApproved == Types /\ Approved /\ [Next]_vars => Approved'
<1> SUFFICES ASSUME Types, Approved, [Next]_vars, pc' = "accepted" PROVE Passes'
  BY DEF Approved
<1>1. UNCHANGED <<script, plan, data, stamps, rc>> /\ Passes
  <2>1. CASE Simulator
    BY <2>1 DEF Simulator, PrintHalf, Finish, Fail, Exit, Approved, console, notes
  <2>2. CASE Perf
    BY <2>2 DEF Perf, PerfFinish, PerfDie, PerfObey, Approved, console, notes
  <2>3. CASE Judge
    BY <2>3 DEF Judge, console, notes
  <2>4. CASE Script /\ ~Judge
    BY <2>4 DEF Script, Launch, LaunchFails, Control, Acknowledged, Unacknowledged, Proceed, Read, Poll,
      EndOfFile, Reap, ReapTimesOut, CleanUp, JudgeMultiplexed
  <2>5. CASE TimeOut
    BY <2>5 DEF TimeOut
  <2>6. CASE UNCHANGED vars
    BY <2>6 DEF vars, Approved, console, notes
  <2> QED
    BY <2>1, <2>2, <2>3, <2>4, <2>5, <2>6 DEF Next
<1> QED
  BY <1>1, Judged

LEMMA Invariance == Spec => []IInv
<1>1. Init => IInv
  BY InitTypes DEF Init, IInv, Children, Caught, CleanedUp, Unclosed, Reaped, Ended, Approved
<1>2. IInv /\ [Next]_vars => IInv'
  BY NextTypes, NextChildren, NextCaught, NextCleanedUp, NextApproved DEF IInv
<1> QED
  BY <1>1, <1>2, PTL DEF Spec

\* The types of the script, its files, the processes and the pipes between them.
THEOREM TypeCorrect == Spec => []TypeOK
<1>1. IInv => TypeOK
  BY DEF IInv, Types
<1> QED
  BY <1>1, Invariance, PTL

\* An accepted sample is whole, whichever way the simulator or perf could end:
\* benchmark.py by the exit status, the others by the power-down message.
THEOREM AcceptedSamplesAreComplete == Spec => []AcceptedIsComplete
<1>1. IInv => AcceptedIsComplete
  <2> SUFFICES ASSUME IInv, pc = "accepted"
               PROVE  data = Total /\ log = data /\ guest = "gone" /\ (script # "counters" => code = "ok")
    BY DEF AcceptedIsComplete
  <2>1. log = data /\ data = printed /\ Leader = "gone" /\ rc = LeaderCode
    BY DEF IInv, Children, Caught, CleanedUp, Reaped, Ended
  <2>2. script \in {"boot", "coremark", "counters"} /\ plan \in Plans /\ data \in 0 .. Total /\ Passes
    BY CaptureAssumption, TotalIsNat DEF IInv, Types, TypeOK, Approved
  <2>3. rc = "ok"
    BY <2>2 DEF Passes, BootPasses, CoreMarkPasses, CountersPass
  <2>4. CASE script = "counters"
    <3>1. Prints("DOWN", data)
      BY <2>2, <2>4 DEF Passes, CountersPass
    <3>2. data = Total
      BY <3>1, <2>2, DownIsLast, TotalIsNat
    <3> QED
      BY <3>2, <2>1, <2>3, <2>4 DEF IInv, Children, LeaderCode
  <2>5. CASE script # "counters"
    BY <2>1, <2>3, <2>5 DEF IInv, Children, Leader, LeaderCode
  <2> QED
    BY <2>4, <2>5
<1> QED
  BY <1>1, Invariance, PTL

\* However a run ends nothing is left behind but the simulator of a perf that died
\* and the boot script's end of a console nobody writes to.
THEOREM NothingIsLeft == Spec => []LeavesNothing
<1>1. IInv => LeavesNothing
  BY DEF IInv, CleanedUp, LeavesNothing, Ended
<1> QED
  BY <1>1, Invariance, PTL
-----------------------------------------------------------------------------
(* The window *)

LEMMA NextNoted == Types /\ Noted /\ [Next]_vars => Noted'
<1> SUFFICES ASSUME Types, Noted, [Next]_vars, NEW m \in Markers'
             PROVE  stamps'[m] # 0 <=> Prints(m, data)'
  BY DEF Noted
<1>0. m \in Markers /\ plan' = plan /\ plan \in Plans /\ m \in {"READY", "START", "END"} /\ m \in Stamped
  BY DEF Markers, Types, TypeOK, Stamped, Next, Simulator, Perf, Script, vars, PrintHalf, Finish, Fail, Exit, PerfFinish, PerfDie, PerfObey, Launch, LaunchFails, Control, Acknowledged, Unacknowledged, Proceed, Read, Poll, EndOfFile, Reap, ReapTimesOut, CleanUp, Judge, JudgeMultiplexed, TimeOut, console
<1>1. CASE UNCHANGED <<data, stamps>>
  BY <1>0, <1>1 DEF Noted, Prints
<1>2. CASE Read
  <2> DEFINE new == {n \in Markers : Seen(n, data, printed)}
  <2>1. stamps' = Stamps(new) /\ data' = printed
    BY <1>2 DEF Read
  <2>2. stamps'[m] # 0 <=> stamps[m] # 0 \/ m \in new
    BY <1>0, <2>1 DEF Stamps, Types, TypeOK
  <2>3. m \in new <=> stamps[m] = 0 /\ Prints(m, printed)
    BY <1>0 DEF Seen, InData
  <2>4. Prints(m, data)' <=> Prints(m, printed)
    BY <1>0, <2>1 DEF Prints
  <2>5. Prints(m, data) => Prints(m, printed)
    BY <1>0, PrintsGrows, TotalIsNat DEF Types, TypeOK
  <2> QED
    BY <1>0, <2>2, <2>3, <2>4, <2>5 DEF Noted
<1>3. CASE Acknowledged
  <2>1. stamps'[m] = stamps[m] /\ data' = data
    BY <1>0, <1>3 DEF Acknowledged, Types, TypeOK
  <2> QED
    BY <1>0, <2>1 DEF Noted, Prints
<1> QED
  BY <1>1, <1>2, <1>3 DEF Next, Simulator, Perf, Script, vars, PrintHalf, Finish, Fail, Exit, PerfFinish, PerfDie, PerfObey, Launch, LaunchFails, Control, Unacknowledged, Proceed, Poll, EndOfFile, Reap, ReapTimesOut, CleanUp, Judge, JudgeMultiplexed, TimeOut, notes

LEMMA NextCommanded == Types /\ Commanded /\ [Next]_vars => Commanded'
<1> SUFFICES ASSUME Types, Commanded, [Next]_vars PROVE Commanded'
  OBVIOUS
<1>1. CASE PrintHalf
  BY <1>1 DEF PrintHalf, Measure, Types, TypeOK, Quiet, Commanded, Request, Stamped, console, processes, pipes, notes, files, history
<1>2. CASE Finish
  BY <1>2 DEF Finish, Types, TypeOK, Quiet, Commanded, Request, Stamped, console, processes, pipes, notes, files, history
<1>3. CASE Fail
  BY <1>3 DEF Fail, Types, TypeOK, Quiet, Commanded, Request, Stamped, console, processes, pipes, notes, files, history
<1>4. CASE Exit
  BY <1>4 DEF Exit, Types, TypeOK, Quiet, Commanded, Request, Stamped, console, processes, pipes, notes, files, history
<1>5. CASE PerfFinish
  BY <1>5 DEF PerfFinish, Types, TypeOK, Quiet, Commanded, Request, Stamped, console, processes, pipes, notes, files, history
<1>6. CASE PerfDie
  BY <1>6 DEF PerfDie, Types, TypeOK, Quiet, Commanded, Request, Stamped, console, processes, pipes, notes, files, history
<1>7. CASE PerfObey
  BY <1>7 DEF PerfObey, Measure, Types, TypeOK, Quiet, Commanded, Request, Stamped, console, processes, pipes, notes, files, history
<1>8. CASE Launch
  BY <1>8 DEF Launch, Types, TypeOK, Quiet, Commanded, Request, Stamped, console, processes, pipes, notes, files, history
<1>9. CASE LaunchFails
  BY <1>9 DEF LaunchFails, Types, TypeOK, Quiet, Commanded, Request, Stamped, console, processes, pipes, notes, files, history
<1>10. CASE Control
  BY <1>10 DEF Control, MayControl, InWorkload, Types, TypeOK, Quiet, Commanded, Request, Stamped, console, processes, pipes, notes, files, history
<1>11. CASE Acknowledged
  BY <1>11 DEF Acknowledged, Types, TypeOK, Quiet, Commanded, Request, Stamped, console, processes, pipes, notes, files, history
<1>12. CASE Unacknowledged
  BY <1>12 DEF Unacknowledged, Types, TypeOK, Quiet, Commanded, Request, Stamped, console, processes, pipes, notes, files, history
<1>13. CASE Proceed
  BY <1>13 DEF Proceed, Types, TypeOK, Quiet, Commanded, Request, Stamped, console, processes, pipes, notes, files, history
<1>14. CASE Read
  <2>1. \A m \in Stamped : stamps[m] # 0 => stamps'[m] = stamps[m]
    BY <1>14 DEF Read, Stamps, Seen, Types, TypeOK
  <2>2. stamps'["enabled"] = stamps["enabled"] /\ stamps'["disabled"] = stamps["disabled"]
    BY <1>14 DEF Read, Stamps, Markers, Stamped, Types, TypeOK
  <2> QED
    BY <1>14, <2>1, <2>2 DEF Read, Measure, Types, TypeOK, Quiet, Commanded, Request, Stamped, processes, pipes
<1>15. CASE Poll
  BY <1>15 DEF Poll, Types, TypeOK, Quiet, Commanded, Request, Stamped, console, processes, pipes, notes, files, history
<1>16. CASE EndOfFile
  BY <1>16 DEF EndOfFile, Types, TypeOK, Quiet, Commanded, Request, Stamped, console, processes, pipes, notes, files, history
<1>17. CASE Reap
  BY <1>17 DEF Reap, Types, TypeOK, Quiet, Commanded, Request, Stamped, console, processes, pipes, notes, files, history
<1>18. CASE ReapTimesOut
  BY <1>18 DEF ReapTimesOut, Types, TypeOK, Quiet, Commanded, Request, Stamped, console, processes, pipes, notes, files, history
<1>19. CASE CleanUp
  BY <1>19 DEF CleanUp, Types, TypeOK, Quiet, Commanded, Request, Stamped, console, processes, pipes, notes, files, history
<1>20. CASE Judge
  BY <1>20 DEF Judge, Types, TypeOK, Quiet, Commanded, Request, Stamped, console, processes, pipes, notes, files, history
<1>21. CASE JudgeMultiplexed
  BY <1>21 DEF JudgeMultiplexed, Types, TypeOK, Quiet, Commanded, Request, Stamped, console, processes, pipes, notes, files, history
<1>22. CASE TimeOut
  BY <1>22 DEF TimeOut, Types, TypeOK, Quiet, Commanded, Request, Stamped, console, processes, pipes, notes, files, history
<1>23. CASE UNCHANGED vars
  BY <1>23 DEF vars, Types, TypeOK, Quiet, Commanded, Request, Stamped, console, processes, pipes, notes, files, history
<1>24. QED
  BY <1>1, <1>2, <1>3, <1>4, <1>5, <1>6, <1>7, <1>8, <1>9, <1>10, <1>11, <1>12, <1>13, <1>14, <1>15, <1>16, <1>17, <1>18, <1>19, <1>20, <1>21, <1>22, <1>23 DEF Next, Simulator, Perf, Script

\* What is counted in a state is neither the boot nor, once the counters have been
\* disabled, anything after the workload.
LEMMA MeasuredWithin ==
  ASSUME Types', Commanded', Noted', Within, Measure, plan' = plan,
         stamps["END"] # 0 => stamps'["END"] # 0, stamps'["disabled"] = stamps["disabled"]
  PROVE  Within'
<1>0. plan' \in Plans' /\ data' \in Nat /\ printed' \in Nat /\ data' <= printed'
  BY TotalIsNat DEF Types, TypeOK
<1>1. CASE ~(counting' /\ guest' = "running")
  BY <1>1 DEF Measure, Within
<1>2. CASE counting' /\ guest' = "running"
  <2>1. script' = "counters" /\ stamps'["START"] # 0 /\ stamps'["disabled"] = 0
    BY <1>2 DEF Commanded
  <2>2. Prints("START", data)'
    BY <2>1 DEF Noted, Markers
  <2>3. PICK i \in 1 .. Len(plan') : plan'[i] = "START" /\ 2 * i <= data'
    BY <2>2 DEF Prints
  <2>4. Prints("START", printed)'
    BY <2>3, <1>0 DEF Prints
  <2>5. Prints("END", data)' => stamps'["END"] # 0
    BY <2>1 DEF Noted, Markers
  <2>6. measured' = measured \cup {Phase(printed, data)'}
    BY <1>2 DEF Measure, Phase, Prints
  <2>7. Phase(printed, data)' # "boot" /\ (Phase(printed, data)' = "after" => stamps'["END"] # 0)
    BY <2>4, <2>5 DEF Phase
  <2> QED
    BY <2>1, <2>6, <2>7 DEF Within
<1> QED
  BY <1>1, <1>2

LEMMA NextWithin == WInv /\ Types' /\ Commanded' /\ Noted' /\ [Next]_vars => Within'
<1> SUFFICES ASSUME WInv, Types', Commanded', Noted', [Next]_vars PROVE Within'
  OBVIOUS
<1>1. CASE PrintHalf
  BY <1>1, MeasuredWithin DEF PrintHalf, WInv, notes
<1>2. CASE Finish
  BY <1>2 DEF Finish, Types, TypeOK, WInv, IInv, Within, Commanded, console, processes, pipes, notes, files, history
<1>3. CASE Fail
  BY <1>3 DEF Fail, Types, TypeOK, WInv, IInv, Within, Commanded, console, processes, pipes, notes, files, history
<1>4. CASE Exit
  BY <1>4 DEF Exit, Types, TypeOK, WInv, IInv, Within, Commanded, console, processes, pipes, notes, files, history
<1>5. CASE PerfFinish
  BY <1>5 DEF PerfFinish, Types, TypeOK, WInv, IInv, Within, Commanded, console, processes, pipes, notes, files, history
<1>6. CASE PerfDie
  BY <1>6 DEF PerfDie, Types, TypeOK, WInv, IInv, Within, Commanded, console, processes, pipes, notes, files, history
<1>7. CASE PerfObey
  BY <1>7, MeasuredWithin DEF PerfObey, WInv, notes, console
<1>8. CASE Launch
  BY <1>8 DEF Launch, Types, TypeOK, WInv, IInv, Within, Commanded, console, processes, pipes, notes, files, history
<1>9. CASE LaunchFails
  BY <1>9 DEF LaunchFails, Types, TypeOK, WInv, IInv, Within, Commanded, console, processes, pipes, notes, files, history
<1>10. CASE Control
  BY <1>10 DEF Control, Types, TypeOK, WInv, IInv, Within, Commanded, console, processes, pipes, notes, files, history
<1>11. CASE Acknowledged
  BY <1>11 DEF Acknowledged, Types, TypeOK, WInv, IInv, Within, Commanded, console, processes, pipes, notes, files, history
<1>12. CASE Unacknowledged
  BY <1>12 DEF Unacknowledged, Types, TypeOK, WInv, IInv, Within, Commanded, console, processes, pipes, notes, files, history
<1>13. CASE Proceed
  BY <1>13 DEF Proceed, Types, TypeOK, WInv, IInv, Within, Commanded, console, processes, pipes, notes, files, history
<1>14. CASE Read
  <2>1. stamps["END"] # 0 => stamps'["END"] # 0
    BY <1>14 DEF Read, Stamps, Seen, Stamped, Types, TypeOK, WInv, IInv
  <2>2. stamps'["disabled"] = stamps["disabled"]
    BY <1>14 DEF Read, Stamps, Markers, Stamped, Types, TypeOK, WInv, IInv
  <2> QED
    BY <1>14, <2>1, <2>2, MeasuredWithin DEF Read, WInv, console
<1>15. CASE Poll
  BY <1>15 DEF Poll, Types, TypeOK, WInv, IInv, Within, Commanded, console, processes, pipes, notes, files, history
<1>16. CASE EndOfFile
  BY <1>16 DEF EndOfFile, Types, TypeOK, WInv, IInv, Within, Commanded, console, processes, pipes, notes, files, history
<1>17. CASE Reap
  BY <1>17 DEF Reap, Types, TypeOK, WInv, IInv, Within, Commanded, console, processes, pipes, notes, files, history
<1>18. CASE ReapTimesOut
  BY <1>18 DEF ReapTimesOut, Types, TypeOK, WInv, IInv, Within, Commanded, console, processes, pipes, notes, files, history
<1>19. CASE CleanUp
  BY <1>19 DEF CleanUp, Types, TypeOK, WInv, IInv, Within, Commanded, console, processes, pipes, notes, files, history
<1>20. CASE Judge
  BY <1>20 DEF Judge, Types, TypeOK, WInv, IInv, Within, Commanded, console, processes, pipes, notes, files, history
<1>21. CASE JudgeMultiplexed
  BY <1>21 DEF JudgeMultiplexed, Types, TypeOK, WInv, IInv, Within, Commanded, console, processes, pipes, notes, files, history
<1>22. CASE TimeOut
  BY <1>22 DEF TimeOut, Types, TypeOK, WInv, IInv, Within, Commanded, console, processes, pipes, notes, files, history
<1>23. CASE UNCHANGED vars
  BY <1>23 DEF vars, Types, TypeOK, WInv, IInv, Within, Commanded, console, processes, pipes, notes, files, history
<1>24. QED
  BY <1>1, <1>2, <1>3, <1>4, <1>5, <1>6, <1>7, <1>8, <1>9, <1>10, <1>11, <1>12, <1>13, <1>14, <1>15, <1>16, <1>17, <1>18, <1>19, <1>20, <1>21, <1>22, <1>23 DEF Next, Simulator, Perf, Script
LEMMA WindowInvariance == Spec => []WInv
<1>1. Init => Noted /\ Commanded /\ Within
  BY NothingPrinted DEF Init, Noted, Commanded, Within, Markers, Stamped
<1>2. WInv /\ [Next]_vars => WInv'
  BY NextTypes, NextChildren, NextCaught, NextCleanedUp, NextApproved, NextNoted, NextCommanded, NextWithin
  DEF WInv, IInv
<1>3. Init => IInv
  BY InitTypes DEF Init, IInv, Children, Caught, CleanedUp, Unclosed, Reaped, Ended, Approved
<1>4. Init => WInv
  BY <1>1, <1>3 DEF WInv
<1> QED
  BY <1>2, <1>4, PTL DEF Spec

\* The counters of an accepted sample counted nothing of the boot, and nothing
\* after the workload once its end had been read.
THEOREM WindowHasSlackOfOneControl == Spec => []WindowSlack
<1>1. WInv => WindowSlack
  <2> SUFFICES ASSUME WInv, pc = "accepted", script = "counters"
               PROVE  measured \subseteq {"loop", "unread"}
    BY DEF WindowSlack
  <2>1. measured \subseteq {"boot", "loop", "unread", "after"}
    BY DEF WInv, IInv, Types, TypeOK
  <2>2. stamps["disabled"] # 0
    BY DEF WInv, IInv, Approved, Passes, CountersPass, WindowInside
  <2> QED
    BY <2>1, <2>2 DEF WInv, Within
<1> QED
  BY <1>1, WindowInvariance, PTL

-----------------------------------------------------------------------------
(* Rejections *)

LEMMA NextFaultless == IInv /\ Faultless /\ [Next]_vars => Faultless'
<1> SUFFICES ASSUME Types, Children, Caught, Faultless, [Next]_vars PROVE Faultless'
  BY DEF IInv
<1>1. CASE PrintHalf
  BY <1>1 DEF PrintHalf, Types, TypeOK, Children, Caught, Reaped, Faultless, Processes, console, processes, pipes, notes, files
<1>2. CASE Finish
  BY <1>2 DEF Finish, Types, TypeOK, Children, Caught, Reaped, Faultless, Processes, console, processes, pipes, notes, files
<1>3. CASE Fail
  BY <1>3 DEF Fail, Types, TypeOK, Children, Caught, Reaped, Faultless, Processes, console, processes, pipes, notes, files
<1>4. CASE Exit
  BY <1>4 DEF Exit, Types, TypeOK, Children, Caught, Reaped, Faultless, Processes, console, processes, pipes, notes, files
<1>5. CASE PerfFinish
  BY <1>5 DEF PerfFinish, Types, TypeOK, Children, Caught, Reaped, Faultless, Processes, console, processes, pipes, notes, files
<1>6. CASE PerfDie
  BY <1>6 DEF PerfDie, Types, TypeOK, Children, Caught, Reaped, Faultless, Processes, console, processes, pipes, notes, files
<1>7. CASE PerfObey
  BY <1>7 DEF PerfObey, Types, TypeOK, Children, Caught, Reaped, Faultless, Processes, console, processes, pipes, notes, files
<1>8. CASE Launch
  BY <1>8 DEF Launch, Types, TypeOK, Children, Caught, Reaped, Faultless, Processes, console, processes, pipes, notes, files
<1>9. CASE LaunchFails
  BY <1>9 DEF LaunchFails, Types, TypeOK, Children, Caught, Reaped, Faultless, Processes, console, processes, pipes, notes, files
<1>10. CASE Control
  BY <1>10 DEF Control, Types, TypeOK, Children, Caught, Reaped, Faultless, Processes, console, processes, pipes, notes, files
<1>11. CASE Acknowledged
  BY <1>11 DEF Acknowledged, Types, TypeOK, Children, Caught, Reaped, Faultless, Processes, console, processes, pipes, notes, files
<1>12. CASE Unacknowledged
  BY <1>12 DEF Unacknowledged, Types, TypeOK, Children, Caught, Reaped, Faultless, Processes, console, processes, pipes, notes, files
<1>13. CASE Proceed
  BY <1>13 DEF Proceed, Types, TypeOK, Children, Caught, Reaped, Faultless, Processes, console, processes, pipes, notes, files
<1>14. CASE Read
  BY <1>14 DEF Read, Types, TypeOK, Children, Caught, Reaped, Faultless, Processes, console, processes, pipes, notes, files
<1>15. CASE Poll
  BY <1>15 DEF Poll, Types, TypeOK, Children, Caught, Reaped, Faultless, Processes, console, processes, pipes, notes, files
<1>16. CASE EndOfFile
  BY <1>16 DEF EndOfFile, Types, TypeOK, Children, Caught, Reaped, Faultless, Processes, console, processes, pipes, notes, files
<1>17. CASE Reap
  BY <1>17 DEF Reap, Types, TypeOK, Children, Caught, Reaped, Faultless, Processes, console, processes, pipes, notes, files
<1>18. CASE ReapTimesOut
  BY <1>18 DEF ReapTimesOut, Types, TypeOK, Children, Caught, Reaped, Faultless, Processes, console, processes, pipes, notes, files
<1>19. CASE CleanUp
  BY <1>19 DEF CleanUp, Kill, Leader, Types, TypeOK, Children, Caught, Reaped, Faultless, Processes, console, processes, pipes, notes, files
<1>20. CASE Judge
  BY <1>20 DEF Judge, Types, TypeOK, Children, Caught, Reaped, Faultless, Processes, console, processes, pipes, notes, files
<1>21. CASE JudgeMultiplexed
  BY <1>21 DEF JudgeMultiplexed, Types, TypeOK, Children, Caught, Reaped, Faultless, Processes, console, processes, pipes, notes, files
<1>22. CASE TimeOut
  BY <1>22 DEF TimeOut, Types, TypeOK, Children, Caught, Reaped, Faultless, Processes, console, processes, pipes, notes, files
<1>23. CASE UNCHANGED vars
  BY <1>23 DEF vars, Types, TypeOK, Children, Caught, Reaped, Faultless, Processes, console, processes, pipes, notes, files
<1>24. QED
  BY <1>1, <1>2, <1>3, <1>4, <1>5, <1>6, <1>7, <1>8, <1>9, <1>10, <1>11, <1>12, <1>13, <1>14, <1>15, <1>16, <1>17, <1>18, <1>19, <1>20, <1>21, <1>22, <1>23 DEF Next, Simulator, Perf, Script

\* The judgement is about what the script has read and the status it has reaped.
LEMMA NextSettled == IInv /\ Settled /\ IInv' /\ Faultless' /\ [Next]_vars => Settled'
<1> SUFFICES ASSUME IInv, Settled, IInv', Faultless', [Next]_vars,
                    pc' \in {"judge"} \cup Ended, ~fault'
             PROVE  rc' = "ok" /\ data' = Total'
  BY DEF Settled
<1>1. CASE pc' = "judge"
  <2>1. data' = printed' /\ Leader' = "gone" /\ rc' = LeaderCode' /\ guest' # "running"
    BY <1>1 DEF IInv, Caught, Reaped
  <2>2. guest' \in {"closing", "gone"}
    BY <1>1, <2>1 DEF IInv, Types, TypeOK, Children, Processes
  <2>3. code' = "ok" /\ printed' = Total'
    BY <2>2 DEF Faultless, IInv, Children
  <2>4. rc' = "ok"
    BY <2>1, <2>3 DEF Leader, LeaderCode, Faultless
  <2> QED
    BY <2>1, <2>3, <2>4
<1>2. CASE pc' \in Ended
  <2>1. UNCHANGED <<plan, data, rc>> /\ pc \in {"judge"} \cup Ended /\ ~fault
    <3>1. CASE Simulator \/ Perf
      BY <1>2, <3>1 DEF Simulator, Perf, PrintHalf, Finish, Fail, Exit, PerfFinish, PerfDie, PerfObey, console
    <3>2. CASE Judge
      BY <3>2 DEF Judge, console
    <3>3. CASE CleanUp
      BY <1>2, <3>3 DEF CleanUp, Ended, Faultless
    <3>4. CASE Script /\ ~Judge /\ ~CleanUp
      BY <1>2, <3>4 DEF Script, Launch, LaunchFails, Control, Acknowledged, Unacknowledged, Proceed, Read,
        Poll, EndOfFile, Reap, ReapTimesOut, JudgeMultiplexed, Ended
    <3>5. CASE TimeOut
      BY <1>2, <3>5 DEF TimeOut, Ended
    <3>6. CASE UNCHANGED vars
      BY <1>2, <3>6 DEF vars, console
    <3> QED
      BY <3>1, <3>2, <3>3, <3>4, <3>5, <3>6 DEF Next
  <2> QED
    BY <2>1 DEF Settled, Total
<1> QED
  BY <1>1, <1>2

\* A rejection without a fault is the script's judgement, and what was judged has
\* not changed since.
LEMMA NextRefused == IInv /\ Refused /\ Faultless' /\ [Next]_vars => Refused'
<1> SUFFICES ASSUME IInv, Refused, Faultless', [Next]_vars, pc' = "rejected", ~fault'
             PROVE  ~Passes'
  BY DEF Refused
<1>1. UNCHANGED <<script, plan, data, stamps, rc>> /\ ~Passes
  <2>1. CASE Simulator
    BY <2>1 DEF Simulator, PrintHalf, Finish, Fail, Exit, Refused, console, notes
  <2>2. CASE Perf
    BY <2>2 DEF Perf, PerfFinish, PerfDie, PerfObey, Refused, console, notes
  <2>3. CASE Judge
    BY <2>3 DEF Judge, console, notes
  <2>4. CASE CleanUp
    BY <2>4 DEF CleanUp, Faultless
  <2>5. CASE Script /\ ~Judge /\ ~CleanUp
    BY <2>5 DEF Script, Launch, LaunchFails, Control, Acknowledged, Unacknowledged, Proceed, Read, Poll,
      EndOfFile, Reap, ReapTimesOut, JudgeMultiplexed
  <2>6. CASE TimeOut
    BY <2>6 DEF TimeOut
  <2>7. CASE UNCHANGED vars
    BY <2>7 DEF vars, Refused, console, notes
  <2> QED
    BY <2>1, <2>2, <2>3, <2>4, <2>5, <2>6, <2>7 DEF Next
<1> QED
  BY <1>1, Judged

\* Of the workload's plan the start comes before the end.
LEMMA StartComesFirst ==
  ASSUME plan = WorkloadRun, NEW n \in Nat, Prints("END", n)
  PROVE  Prints("START", n)
<1>1. PICK i \in 1 .. Len(plan) : plan[i] = "END" /\ 2 * i <= n
  BY DEF Prints
<1>2. Len(plan) = 7 /\ plan[2] = "START"
  BY DEF WorkloadRun
<1>3. i # 1
  BY <1>1 DEF WorkloadRun
<1>4. 2 \in 1 .. Len(plan) /\ 2 * 2 <= n
  BY <1>1, <1>2, <1>3
<1> QED
  BY <1>2, <1>4 DEF Prints

LEMMA NextOrdered == WInv /\ Ordered /\ [Next]_vars => Ordered'
<1> SUFFICES ASSUME WInv, Ordered, [Next]_vars PROVE Ordered'
  OBVIOUS
<1>0. stamps \in [Stamped -> Nat] /\ clock \in Nat
  BY DEF WInv, IInv, Types, TypeOK
<1>1. CASE UNCHANGED <<script, plan, stamps, clock>>
  BY <1>1 DEF Ordered
<1>2. CASE Acknowledged
  <2>1. stamps["START"] # 0 /\ stamps["END"] = 0 /\ stamps["disabled"] = 0
    BY <1>2 DEF Acknowledged, WInv, Commanded
  <2>2. UNCHANGED <<script, plan>> /\ clock' = clock + 1
    BY <1>2 DEF Acknowledged, console
  <2>3. CASE stamps["enabled"] = 0
    <3>1. stamps' = [stamps EXCEPT !["enabled"] = clock + 1]
      BY <1>2, <2>3 DEF Acknowledged
    <3> QED
      BY <1>0, <2>1, <2>2, <2>3, <3>1 DEF Ordered, Stamped
  <2>4. CASE stamps["enabled"] # 0
    <3>1. stamps' = [stamps EXCEPT !["disabled"] = clock + 1]
      BY <1>2, <2>4 DEF Acknowledged
    <3> QED
      BY <1>0, <2>1, <2>2, <2>4, <3>1 DEF Ordered, Stamped
  <2> QED
    BY <2>3, <2>4
<1>3. CASE Read
  <2> DEFINE new == {m \in Markers : Seen(m, data, printed)}
  <2>1. /\ stamps' = Stamps(new) /\ UNCHANGED <<script, plan>>
        /\ clock' = clock + IF new = {} THEN 0 ELSE 2
    BY <1>3 DEF Read, console
  <2>2. \A m \in new : m \in Markers /\ stamps[m] = 0 /\ Prints(m, printed)
    BY DEF Seen, InData
  <2>3. new \subseteq {"READY", "START", "END"}
    BY DEF Markers
  <2>4. plan = WorkloadRun /\ script # "boot" /\ "END" \in new => stamps["START"] # 0 \/ "START" \in new
    <3> SUFFICES ASSUME plan = WorkloadRun, script # "boot", "END" \in new
                 PROVE  stamps["START"] # 0 \/ "START" \in new
      OBVIOUS
    <3>1. Prints("START", printed)
      BY <2>2, StartComesFirst, TotalIsNat DEF WInv, IInv, Types, TypeOK
    <3>2. "START" \in Markers
      BY CaptureAssumption DEF Markers, WInv, IInv, Types, TypeOK
    <3> QED
      BY <3>1, <3>2 DEF Seen, InData
  <2>5. plan = WorkloadRun /\ script # "boot" /\ stamps["END"] # 0 => stamps["START"] # 0
    <3> SUFFICES ASSUME plan = WorkloadRun, script # "boot", stamps["END"] # 0
                 PROVE  stamps["START"] # 0
      OBVIOUS
    <3>1. "START" \in Markers /\ "END" \in Markers
      BY CaptureAssumption DEF Markers, WInv, IInv, Types, TypeOK
    <3>2. Prints("START", data)
      BY <3>1, StartComesFirst, TotalIsNat DEF WInv, IInv, Types, TypeOK, Noted
    <3> QED
      BY <3>1, <3>2 DEF WInv, Noted
  <2> HIDE DEF new
  <2>6. \A m \in Stamped : m \notin new => stamps'[m] = stamps[m]
    BY <2>1 DEF Stamps
  <2>7. \A m \in new : stamps'[m] \in {clock + 1, clock + 2}
    BY <1>0, <2>1, <2>3 DEF Stamps, Stamped
  <2>8. "START" \in new => stamps'["START"] = clock + 1
    BY <2>1 DEF Stamps, Stamped
  <2>9. clock' \in Nat /\ clock <= clock' /\ (new # {} => clock' = clock + 2)
    BY <1>0, <2>1
  <2>10. \A m \in Stamped : stamps'[m] <= clock'
    BY <1>0, <2>6, <2>7, <2>9 DEF Ordered
  <2>11. /\ stamps'["enabled"] = stamps["enabled"] /\ stamps'["disabled"] = stamps["disabled"]
         /\ stamps["START"] # 0 => stamps'["START"] = stamps["START"]
         /\ stamps["END"] # 0 => stamps'["END"] = stamps["END"]
    BY <2>2, <2>3, <2>6 DEF Stamped
  <2>12. stamps'["disabled"] # 0 /\ stamps'["END"] # 0 => stamps'["disabled"] < stamps'["END"]
    BY <1>0, <2>6, <2>7, <2>11 DEF Ordered, Stamped
  <2>13. plan = WorkloadRun /\ script # "boot" /\ stamps'["END"] # 0 => stamps'["START"] <= stamps'["END"]
    <3> SUFFICES ASSUME plan = WorkloadRun, script # "boot", stamps'["END"] # 0
                 PROVE  stamps'["START"] <= stamps'["END"]
      OBVIOUS
    <3>1. CASE stamps["END"] # 0
      BY <1>0, <2>11, <2>5, <3>1 DEF Ordered, Stamped
    <3>2. CASE "END" \in new
      <4>1. stamps'["END"] \in {clock + 1, clock + 2}
        BY <2>7, <3>2
      <4>2. stamps'["START"] <= clock + 1
        BY <1>0, <2>4, <2>8, <2>11, <3>2 DEF Ordered, Stamped
      <4>3. stamps'["START"] \in Nat
        BY <1>0, <2>4, <2>8, <2>11, <3>2 DEF Stamped
      <4> QED
        BY <1>0, <4>1, <4>2, <4>3
    <3> QED
      BY <2>6, <3>1, <3>2 DEF Stamped
  <2> QED
    BY <2>1, <2>10, <2>11, <2>12, <2>13 DEF Ordered
<1> QED
  BY <1>1, <1>2, <1>3 DEF Next, Simulator, Perf, Script, vars, PrintHalf, Finish, Fail, Exit, PerfFinish,
    PerfDie, PerfObey, Launch, LaunchFails, Control, Unacknowledged, Proceed, Poll, EndOfFile, Reap,
    ReapTimesOut, CleanUp, Judge, JudgeMultiplexed, TimeOut, console, notes

LEMMA CauseInvariance == Spec => []CInv
<1>1. Init => Faultless /\ Settled /\ Refused /\ Ordered
  BY DEF Init, Faultless, Settled, Refused, Ordered, Stamped, Ended
<1>2. CInv /\ WInv' /\ [Next]_vars => CInv'
  BY NextFaultless, NextSettled, NextRefused, NextOrdered DEF CInv, WInv
<1> QED
  BY <1>1, <1>2, WindowInvariance, PTL DEF Spec, CInv

\* What the scripts look for in the text of a whole workload.
LEMMA WorkloadText ==
  ASSUME plan = WorkloadRun
  PROVE  /\ \A line \in {"READY", "START", "END", "INSTRET", "GOOD", "EXIT0", "DOWN"} : Prints(line, Total)
         /\ ~Prints("WRONG", Total) /\ ~Prints("ERROR", Total)
         /\ Count("START", Total) = 1 /\ Count("END", Total) = 1
<1>1. /\ Len(plan) = 7 /\ Total = 14
      /\ plan[1] = "READY" /\ plan[2] = "START" /\ plan[3] = "END" /\ plan[4] = "INSTRET"
      /\ plan[5] = "GOOD" /\ plan[6] = "EXIT0" /\ plan[7] = "DOWN"
  BY DEF WorkloadRun, Total
<1>2. \A i \in 1 .. 7 : i \in 1 .. Len(plan) /\ 2 * i <= Total
  BY <1>1
<1>3. \A i \in 1 .. 7 : Prints(plan[i], Total)
  BY <1>2 DEF Prints
<1>4. \A i \in 1 .. Len(plan) : i = 1 \/ i = 2 \/ i = 3 \/ i = 4 \/ i = 5 \/ i = 6 \/ i = 7
  BY <1>1
<1>5. ~Prints("WRONG", Total) /\ ~Prints("ERROR", Total)
  BY <1>1, <1>4 DEF Prints
<1>6. /\ {i \in 1 .. Len(plan) : plan[i] = "START" /\ 2 * i <= Total} = {2}
      /\ {i \in 1 .. Len(plan) : plan[i] = "END" /\ 2 * i <= Total} = {3}
  BY <1>1, <1>4
<1>7. Count("START", Total) = 1 /\ Count("END", Total) = 1
  BY <1>6, FS_Singleton DEF Count
<1> QED
  BY <1>1, <1>3, <1>5, <1>7

\* Without a fault a script rejects nothing that is as it should be: a boot of
\* either init script, or a workload whose end it read after its start, and for
\* the counters after the window.
THEOREM RejectionsHaveACause == Spec => []RejectedForCause
<1>1. CInv => RejectedForCause
  <2> SUFFICES ASSUME CInv, pc = "rejected", ~fault
               PROVE  \/ script = "boot" /\ plan \notin {BootRun, WorkloadRun}
                      \/ script # "boot" /\ plan # WorkloadRun
                      \/ script = "coremark" /\ stamps["START"] = stamps["END"]
                      \/ script = "counters" /\ stamps["disabled"] = 0
    BY DEF RejectedForCause
  <2>1. rc = "ok" /\ data = Total /\ ~Passes
    BY DEF CInv, Settled, Refused, Ended
  <2>2. script \in {"boot", "coremark", "counters"} /\ stamps \in [Stamped -> Nat]
    BY CaptureAssumption DEF CInv, WInv, IInv, Types, TypeOK
  <2>3. \A m \in Markers : stamps[m] # 0 <=> Prints(m, Total)
    BY <2>1 DEF CInv, WInv, Noted
  <2>4. ASSUME script = "boot", plan \in {BootRun, WorkloadRun} PROVE FALSE
    <3>1. Prints("READY", Total)
      <4>1. 1 \in 1 .. Len(plan) /\ plan[1] = "READY" /\ 2 * 1 <= Total
        BY <2>4 DEF BootRun, WorkloadRun, Total
      <4> QED
        BY <4>1 DEF Prints
    <3> QED
      BY <2>1, <2>3, <2>4, <3>1 DEF Markers, Passes, BootPasses
  <2>5. ASSUME script = "coremark", plan = WorkloadRun, stamps["START"] # stamps["END"] PROVE FALSE
    <3>1. Once /\ Validated /\ Prints("DOWN", data) /\ Prints("EXIT0", data)
      BY <2>1, <2>5, WorkloadText DEF Once, Validated
    <3>2. stamps["READY"] # 0 /\ stamps["START"] # 0 /\ stamps["END"] # 0
      BY <2>3, <2>5, WorkloadText DEF Markers
    <3>3. stamps["START"] < stamps["END"]
      BY <2>2, <2>5, <3>2 DEF CInv, Ordered, Stamped
    <3> QED
      BY <2>1, <2>5, <3>1, <3>2, <3>3 DEF Passes, CoreMarkPasses
  <2>6. ASSUME script = "counters", plan = WorkloadRun, stamps["disabled"] # 0 PROVE FALSE
    <3>1. /\ Once /\ Validated /\ Prints("DOWN", data) /\ Prints("EXIT0", data)
          /\ Prints("INSTRET", data)
      BY <2>1, <2>6, WorkloadText DEF Once, Validated
    <3>2. stamps["END"] # 0
      BY <2>3, <2>6, WorkloadText DEF Markers
    <3>3. WindowInside
      BY <2>6, <3>2 DEF CInv, Ordered, WindowInside
    <3> QED
      BY <2>1, <2>6, <3>1, <3>3 DEF Passes, CountersPass
  <2> QED
    BY <2>2, <2>4, <2>5, <2>6
<1> QED
  BY <1>1, CauseInvariance, PTL
=============================================================================
