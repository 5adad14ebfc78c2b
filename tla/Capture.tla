------------------------------- MODULE Capture -------------------------------
(***************************************************************************)
(* How the benchmark drivers take one sample.  scripts/benchmark.py times  *)
(* a boot, benchmark-coremark.py a workload, measure-host-counters.py      *)
(* counts host events inside that workload.  Each launches a simulator,    *)
(* reads its console through a pipe while it looks for markers, reaps it,  *)
(* and accepts or rejects the sample by what it has read.                  *)
(*                                                                         *)
(* The processes are the script; the simulator, which prints the lines of  *)
(* a plan, each in two halves so that a read may cut a marker in two; and, *)
(* for the counters, perf, which runs the simulator as its child and turns *)
(* the counters on and off when the script asks it to.  A simulator may    *)
(* hang, crash or fail at any point and perf may die or not answer.        *)
(* counting, measured and fault are history.                               *)
(***************************************************************************)
EXTENDS Integers, Sequences, FiniteSets

CONSTANTS
  Scripts,     \* the scripts that are run
  Plans,       \* what simulators print, line by line
  PIPE         \* capacity of the pipe, in half lines; 65536 bytes

Lines == {"READY", "START", "END", "INSTRET", "GOOD", "WRONG", "ERROR", "EXIT0", "DOWN"}

\* The kernel powers the machine down once, as the last thing it says.
ASSUME CaptureAssumption ==
  /\ Scripts \subseteq {"boot", "coremark", "counters"}
  /\ Plans \subseteq Seq(Lines)
  /\ \A p \in Plans : \A i \in 1 .. Len(p) : p[i] = "DOWN" => i = Len(p)
  /\ PIPE \in Nat \ {0}

VARIABLES
  script,              \* which script this is
  plan, printed,       \* the simulator's lines, and the half lines it has printed
  guest, code,         \* the simulator's process and how it ended
  perf, perf_code,     \* the same of perf
  message, ack,        \* the control and the acknowledgement pipes
  pc,                  \* where the script is
  data,                \* half lines it has read
  stamps, clock,       \* when it saw each marker, and its clock
  raised, rc,
  fds, log,            \* pipes the script holds open, and the log it wrote
  counting, measured,  \* whether the counters run, and what they have counted
  fault                \* whether something outside the script went wrong

console == <<plan, printed>>
processes == <<guest, code, perf, perf_code>>
pipes == <<message, ack>>
notes == <<stamps, clock>>
files == <<fds, log>>
history == <<counting, measured>>
vars == <<script, console, processes, pipes, pc, data, notes, raised, rc, files, history, fault>>

Processes == {"none", "running", "closing", "gone"}
Codes == {"none", "ok", "bad", "signal", "killed"}
Stamped == {"READY", "START", "END", "enabled", "disabled"}
Ended == {"accepted", "rejected"}
NoLog == -1

Total == 2 * Len(plan)

\* A marker is in a text when its two halves are.
PrintsHalf(line, n) == \E i \in 1 .. Len(plan) : plan[i] = line /\ 2 * i - 1 <= n
Prints(line, n) == \E i \in 1 .. Len(plan) : plan[i] = line /\ 2 * i <= n
Count(line, n) == Cardinality({i \in 1 .. Len(plan) : plan[i] = line /\ 2 * i <= n})

\* The process the script has launched, and its exit status.
Leader == IF script = "counters" THEN perf ELSE guest
LeaderCode == IF script = "counters" THEN perf_code ELSE code

\* Nobody holds the write end of the console any more.
Closed == guest # "running" /\ perf # "running"

\* What the guest is doing: its boot, its workload, or what follows.  The end of
\* the workload is "unread" until the script has read the marker.
Phase(n, d) ==
  IF ~Prints("START", n) THEN "boot"
  ELSE IF ~Prints("END", n) THEN "loop"
  ELSE IF ~Prints("END", d) THEN "unread" ELSE "after"
Measure ==
  measured' = measured \cup IF counting' /\ guest' = "running" THEN {Phase(printed', data')} ELSE {}

-----------------------------------------------------------------------------
(* The simulator and perf *)

PrintHalf ==
  /\ guest = "running" /\ printed < Total /\ printed - data < PIPE
  /\ printed' = printed + 1
  /\ UNCHANGED <<script, plan, processes, pipes, pc, data, notes, raised, rc, files, counting, fault>>
  /\ Measure

Finish ==
  /\ guest = "running" /\ printed = Total
  /\ guest' = "closing" /\ code' = "ok"
  /\ UNCHANGED <<script, console, perf, perf_code, pipes, pc, data, notes, raised, rc, files, history,
                 fault>>

\* It is killed or stops with an error, anywhere.
Fail ==
  /\ guest = "running"
  /\ guest' = "closing" /\ code' \in {"bad", "signal"} /\ fault' = TRUE
  /\ UNCHANGED <<script, console, perf, perf_code, pipes, pc, data, notes, raised, rc, files, history>>

\* A process closes its files before it can be waited for.
Exit ==
  /\ guest = "closing"
  /\ guest' = "gone"
  /\ UNCHANGED <<script, console, code, perf, perf_code, pipes, pc, data, notes, raised, rc, files,
                 history, fault>>

\* perf passes on the status of its child, but not that a signal ended it.
PerfFinish ==
  /\ perf = "running" /\ guest = "gone"
  /\ perf' = "gone" /\ counting' = FALSE
  /\ perf_code' \in IF code = "signal" THEN {"ok", "bad"} ELSE {code}
  /\ UNCHANGED <<script, console, guest, code, pipes, pc, data, notes, raised, rc, files, measured, fault>>

\* perf dies alone: the simulator goes on, and nothing counts any more.
PerfDie ==
  /\ perf = "running"
  /\ perf' = "gone" /\ perf_code' = "signal" /\ counting' = FALSE /\ fault' = TRUE
  /\ UNCHANGED <<script, console, guest, code, pipes, pc, data, notes, raised, rc, files, measured>>

PerfObey ==
  /\ perf = "running" /\ message # "none"
  /\ counting' = (message = "enable")
  /\ message' = "none" /\ ack' = TRUE
  /\ UNCHANGED <<script, console, processes, pc, data, notes, raised, rc, files, fault>>
  /\ Measure

-----------------------------------------------------------------------------
(* The script *)

\* Popen; without a simulator or perf to run it raises, and only the counters'
\* script has something to give back by then.
Launch ==
  /\ pc = "launch"
  /\ guest' = "running"
  /\ perf' = IF script = "counters" THEN "running" ELSE "none"
  /\ fds' = (IF script = "counters" THEN {"ctl_write", "ack_read"} ELSE {}) \cup {"stdout"}
  /\ pc' = "loop"
  /\ UNCHANGED <<script, console, code, perf_code, pipes, data, notes, raised, rc, log, history, fault>>
LaunchFails ==
  /\ pc = "launch"
  /\ pc' = "rejected" /\ raised' = TRUE /\ fault' = TRUE
  /\ fds' = {}
  /\ log' = IF script = "counters" THEN data ELSE NoLog
  /\ UNCHANGED <<script, console, processes, pipes, data, notes, rc, history>>

\* The script gives up at the head of its loop, after its timeout.
TimeOutAfterRead ==
  /\ pc = "loop" /\ printed > data
  /\ pc' = "finally" /\ raised' = TRUE /\ fault' = TRUE
  /\ UNCHANGED <<script, console, processes, pipes, data, notes, rc, files, history>>
TimeOut ==
  /\ pc = "loop"
  /\ pc' = "finally" /\ raised' = TRUE /\ fault' = TRUE
  /\ UNCHANGED <<script, console, processes, pipes, data, notes, rc, files, history>>

\* Whether the counters are to be switched, once settle or window has passed.
InWorkload == stamps["START"] # 0 /\ stamps["END"] = 0
MayControl == script = "counters" /\ InWorkload /\ stamps["disabled"] = 0
Request == IF stamps["enabled"] = 0 THEN "enable" ELSE "disable"

Control ==
  /\ pc = "loop" /\ MayControl
  /\ message' = Request
  /\ pc' = "control"
  /\ UNCHANGED <<script, console, processes, ack, data, notes, raised, rc, files, history, fault>>
FireAndForget ==
  /\ pc = "control"
  /\ ack' = FALSE
  /\ clock' = clock + 1
  /\ stamps' = [stamps EXCEPT ![IF stamps["enabled"] = 0 THEN "enabled" ELSE "disabled"] = clock']
  /\ pc' = "select"
  /\ UNCHANGED <<script, console, processes, message, data, raised, rc, files, history, fault>>
AcknowledgedUnread ==
  /\ pc = "control" /\ ack
  /\ clock' = clock + 1
  /\ stamps' = [stamps EXCEPT ![IF stamps["enabled"] = 0 THEN "enabled" ELSE "disabled"] = clock']
  /\ pc' = "select"
  /\ UNCHANGED <<script, console, processes, pipes, data, raised, rc, files, history, fault>>
Acknowledged ==
  /\ pc = "control" /\ ack
  /\ ack' = FALSE
  /\ clock' = clock + 1
  /\ stamps' = [stamps EXCEPT ![IF stamps["enabled"] = 0 THEN "enabled" ELSE "disabled"] = clock']
  /\ pc' = "select"
  /\ UNCHANGED <<script, console, processes, message, data, raised, rc, files, history, fault>>
\* Two seconds without an answer, or the other end of the pipe closed.
Unacknowledged ==
  /\ pc = "control" /\ ~ack
  /\ pc' = "finally" /\ raised' = TRUE /\ fault' = TRUE
  /\ UNCHANGED <<script, console, processes, pipes, data, notes, rc, files, history>>

Proceed ==
  /\ pc = "loop"
  /\ pc' = "select"
  /\ UNCHANGED <<script, console, processes, pipes, data, notes, raised, rc, files, history, fault>>

Markers == IF script = "boot" THEN {"READY"}
           ELSE IF script = "coremark" THEN {"READY", "START", "END"} ELSE {"START", "END"}
InChunk(m, from, to) == \E i \in 1 .. Len(plan) : plan[i] = m /\ from < 2 * i - 1 /\ 2 * i <= to
InData(m, from, to) == Prints(m, to)
Seen(m, from, to) == stamps[m] = 0 /\ InData(m, from, to)

\* The counters' script reads the clock for each marker, the others for each chunk.
Stamps(new) ==
  [m \in Stamped |->
     IF m \notin new THEN stamps[m]
     ELSE IF script = "counters" /\ m = "END" /\ "START" \in new THEN clock + 2 ELSE clock + 1]

Read ==
  /\ pc = "select" /\ printed > data
  /\ data' = printed
  /\ LET new == {m \in Markers : Seen(m, data, printed)} IN
       /\ stamps' = Stamps(new)
       /\ clock' = clock + IF new = {} THEN 0 ELSE 2
  /\ pc' = "loop"
  /\ UNCHANGED <<script, console, processes, pipes, raised, rc, files, counting, fault>>
  /\ Measure
\* Nothing to read for as long as select waits.
Poll ==
  /\ pc = "select" /\ printed = data /\ ~Closed
  /\ pc' = "loop"
  /\ UNCHANGED <<script, console, processes, pipes, data, notes, raised, rc, files, history, fault>>
\* The end of the file: the script leaves the loop.
EndOfFile ==
  /\ pc = "select" /\ printed = data /\ Closed
  /\ pc' = "wait"
  /\ UNCHANGED <<script, console, processes, pipes, data, notes, raised, rc, files, history, fault>>

Reap ==
  /\ pc = "wait" /\ Leader = "gone"
  /\ rc' = LeaderCode
  /\ pc' = "finally"
  /\ UNCHANGED <<script, console, processes, pipes, data, notes, raised, files, history, fault>>
ReapTimesOut ==
  /\ pc = "wait" /\ Leader # "gone"
  /\ pc' = "finally" /\ raised' = TRUE /\ fault' = TRUE
  /\ UNCHANGED <<script, console, processes, pipes, data, notes, rc, files, history>>

\* finally: kill what has been launched, with its group for perf, unless it is
\* gone; close the pipes; write the log.  The boot script closes its selector but
\* not the console itself.
KillLeader ==
  /\ guest' = IF script # "counters" THEN "gone" ELSE guest
  /\ perf' = IF perf = "none" THEN "none" ELSE "gone"
Kill ==
  /\ guest' = IF Leader # "gone" THEN "gone" ELSE guest
  /\ perf' = IF perf = "none" THEN "none" ELSE "gone"
CleanUp ==
  /\ pc = "finally"
  /\ Kill
  /\ code' = IF guest # guest' /\ code = "none" THEN "killed" ELSE code
  /\ perf_code' = IF perf # perf' THEN "killed" ELSE perf_code
  /\ counting' = FALSE
  /\ fds' = (IF script = "boot" THEN fds ELSE {}) /\ log' = data
  /\ pc' = IF raised THEN "rejected" ELSE "judge"
  /\ UNCHANGED <<script, console, pipes, data, notes, raised, rc, measured, fault>>

\* Tests of the script on what it has read and noted.
BootPasses == stamps["READY"] # 0 /\ rc = "ok"
Once == Count("START", data) = 1 /\ Count("END", data) = 1
Validated == Prints("GOOD", data) /\ ~Prints("WRONG", data) /\ ~Prints("ERROR", data)
CoreMarkPasses ==
  /\ rc = "ok" /\ Prints("DOWN", data) /\ Prints("EXIT0", data)
  /\ Once
  /\ Validated
  /\ stamps["START"] < stamps["END"]
  /\ stamps["READY"] # 0
WindowInside ==
  /\ stamps["enabled"] # 0 /\ stamps["disabled"] # 0
  /\ stamps["START"] < stamps["enabled"]
  /\ stamps["enabled"] < stamps["disabled"]
  /\ stamps["disabled"] < stamps["END"]
CountersWithoutDown ==
  /\ rc = "ok" /\ Prints("EXIT0", data)
  /\ Once
  /\ WindowInside
  /\ Validated /\ Prints("INSTRET", data)
CountersPass ==
  /\ rc = "ok" /\ Prints("EXIT0", data) /\ Prints("DOWN", data)
  /\ Once
  /\ WindowInside
  /\ Validated /\ Prints("INSTRET", data)
Passes ==
  \/ script = "boot" /\ BootPasses
  \/ script = "coremark" /\ CoreMarkPasses
  \/ script = "counters" /\ CountersPass

Judge ==
  /\ pc = "judge"
  /\ pc' = IF Passes THEN "accepted" ELSE "rejected"
  /\ UNCHANGED <<script, console, processes, pipes, data, notes, raised, rc, files, history, fault>>
\* The counters were multiplexed with those of another user of the processor.
JudgeMultiplexed ==
  /\ pc = "judge" /\ script = "counters"
  /\ pc' = "rejected" /\ fault' = TRUE
  /\ UNCHANGED <<script, console, processes, pipes, data, notes, raised, rc, files, history>>

-----------------------------------------------------------------------------
Init ==
  /\ script \in Scripts /\ plan \in Plans /\ printed = 0
  /\ guest = "none" /\ code = "none" /\ perf = "none" /\ perf_code = "none"
  /\ message = "none" /\ ack = FALSE
  /\ pc = "launch" /\ data = 0
  /\ stamps = [m \in Stamped |-> 0] /\ clock = 0
  /\ raised = FALSE /\ rc = "none"
  /\ fds = (IF script = "counters" THEN {"ctl_read", "ctl_write", "ack_read", "ack_write"} ELSE {})
  /\ log = NoLog
  /\ counting = FALSE /\ measured = {} /\ fault = FALSE

Simulator == PrintHalf \/ Finish \/ Fail \/ Exit
Perf == PerfFinish \/ PerfDie \/ PerfObey
Script ==
  \/ Launch \/ LaunchFails
  \/ Control \/ Acknowledged \/ Unacknowledged
  \/ Proceed \/ Read \/ Poll \/ EndOfFile
  \/ Reap \/ ReapTimesOut
  \/ CleanUp \/ Judge \/ JudgeMultiplexed
Next == Simulator \/ Perf \/ Script \/ TimeOut

\* The operating system runs the script and its timers expire; it goes round its
\* loop, so TimeOut is enabled again and again rather than all the time.  Nothing
\* is assumed of the simulator or of perf.
Fairness == WF_vars(Script) /\ SF_vars(TimeOut)
Spec == Init /\ [][Next]_vars /\ Fairness

-----------------------------------------------------------------------------
(* Properties *)

\* Every variable has its type; the pipe stays within its capacity, and a command
\* and the answer to an earlier one are never under way together.
TypeOK ==
  /\ script \in Scripts /\ plan \in Plans
  /\ printed \in 0 .. Total /\ data \in 0 .. printed /\ printed - data <= PIPE
  /\ guest \in Processes /\ perf \in {"none", "running", "gone"}
  /\ code \in Codes /\ perf_code \in Codes
  /\ message \in {"none", "enable", "disable"} /\ ack \in BOOLEAN
  /\ ack => message = "none"
  /\ pc \in {"launch", "loop", "control", "select", "wait", "finally", "judge"} \cup Ended
  /\ stamps \in [Stamped -> Nat] /\ clock \in Nat
  /\ raised \in BOOLEAN /\ rc \in Codes
  /\ fds \subseteq {"stdout", "ctl_read", "ctl_write", "ack_read", "ack_write"}
  /\ log \in {NoLog} \cup Nat
  /\ counting \in BOOLEAN /\ fault \in BOOLEAN
  /\ measured \subseteq {"boot", "loop", "unread", "after"}

\* A sample that is accepted is of a simulator that printed all it had to and ended,
\* by itself where the script would know, and the log holds all of that: whatever
\* way a simulator is cut short, perf's loss of the signal included.
AcceptedIsComplete ==
  pc = "accepted" =>
    /\ data = Total /\ log = data
    /\ guest = "gone" /\ (script # "counters" => code = "ok")

\* A sample is only rejected for a cause: a fault, a plan other than the guest's
\* init script, a workload over within one read, or over before the window.  In
\* particular no marker is missed because a read cut it in two.
BootRun == <<"READY", "DOWN">>
WorkloadRun == <<"READY", "START", "END", "INSTRET", "GOOD", "EXIT0", "DOWN">>
RejectedForCause ==
  pc = "rejected" =>
    \/ fault
    \/ script = "boot" /\ plan \notin {BootRun, WorkloadRun}
    \/ script # "boot" /\ plan # WorkloadRun
    \/ script = "coremark" /\ stamps["START"] = stamps["END"]
    \/ script = "counters" /\ stamps["disabled"] = 0

\* However a run ends, the script leaves no process behind, no pipe open and a log
\* of what it has read; except the simulator of a perf that died alone and the boot
\* script's end of the console, which has no writer by then.
Unclosed == IF script = "boot" THEN {"stdout"} ELSE {}
LeavesNothing ==
  pc \in Ended =>
    /\ fds \subseteq Unclosed
    /\ guest \in {"none", "gone"} \/ (script = "counters" /\ perf_code = "signal")
    /\ perf # "running"
    /\ guest # "none" => log = data

\* The counters of an accepted sample have not counted the boot, and nothing after
\* the end of the workload once the script could know of it.
WindowSlack ==
  pc = "accepted" /\ script = "counters" => measured \subseteq {"loop", "unread"}

\* What the README says of the counters: they were disabled before the workload's
\* end marker.
WindowInsideWorkload ==
  pc = "accepted" /\ script = "counters" => measured \subseteq {"loop"}

\* Every run ends, whatever the simulator and perf do or fail to do.
Terminates == <>(pc \in Ended)
=============================================================================
