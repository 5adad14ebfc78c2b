------------------------------ MODULE Series ------------------------------
(***************************************************************************)
(* A measured series and what is published of it: the drivers that run     *)
(* every variant round after round and write a row per run, and the        *)
(* scripts that turn the rows into a report, while simulators are rebuilt. *)
(*                                                                         *)
(*   boot          benchmark.py, report.py                                 *)
(*   coremark      coremark-provenance.py, benchmark-coremark.py,          *)
(*                 report-coremark.py                                      *)
(*   optimization  benchmark-optimization.py, report-optimization.py and   *)
(*                 report-round2.py                                        *)
(*   counters      measure-host-counters.py, which publishes by itself     *)
(*                                                                         *)
(* An executable stands for its hash.  The OxySpike variants are what Pgo  *)
(* builds; the first variant is a Spike build, which make replaces.        *)
(***************************************************************************)
EXTENDS Pgo, Sequences, FiniteSets

CONSTANTS
  Drivers, Runs, Warmups,
  MaxStarts, MaxMakes    \* bounds: series begun, and Spike builds replaced

ASSUME SeriesAssumption ==
  /\ Drivers \subseteq {"boot", "coremark", "optimization", "counters"}
  /\ {Runs, Warmups, MaxStarts, MaxMakes} \subseteq Nat

Indices == -Warmups .. Runs - 1
Executables == [by : Builders \cup 0 .. MaxMakes, whole : BOOLEAN]
Contents == Executables \cup {Absent}
Rows == [variant : {"spike", "qemu", "oxyspike"}, index : Indices, ran : Executables,
         hash : Contents, attempt : 1 .. MaxStarts]
Logs == [attempt : 1 .. MaxStarts, whole : BOOLEAN]

ASSUME AbsentAssumption ==
  Absent \notin Nat \cup Seq(Rows) \cup Executables \cup Logs
                \cup [{"spike", "qemu"} -> Executables]

VARIABLES
  driver,      \* the script in use
  made,        \* the Spike executable, by the times it was made
  file,        \* the rows of the output file, or Absent
  logs,        \* of each variant and round, by its name: [attempt, whole], or Absent
  k,           \* runs begun by the open series, or Absent
  running,     \* the executable of the run in progress, or Absent
  hashes,      \* what the series hashed when it began, or Absent
  snapshot,    \* what coremark-provenance.py hashed, or Absent
  published,   \* the rows of a report, or Absent
  starts

seriesVars == <<driver, made, file, logs, k, running, hashes, snapshot, published, starts>>

Pair == IF driver \in {"boot", "coremark"} THEN <<"spike", "qemu">> ELSE <<"spike", "oxyspike">>
Linked(n) == [by |-> n, whole |-> TRUE]
Executable(v) ==
  CASE v = "spike" -> Linked(made) [] v = "qemu" -> Linked(0) [] v = "oxyspike" -> output
Hashed == [v \in {Pair[1], Pair[2]} |-> Executable(v)]
Present == \A v \in {Pair[1], Pair[2]} : Executable(v) # Absent

\* The round of the n-th run, counted from 0, and its variant: Python's remainder of a
\* negative round is not negative, so that warm-ups alternate as measured rounds do.
Round(n) == n \div 2 - (IF driver = "counters" THEN 0 ELSE Warmups)
Odd(i) == i % 2 = 1
VariantOf(n) == IF (n % 2 = 0) # Odd(Round(n)) THEN Pair[1] ELSE Pair[2]

SeriesInit ==
  /\ driver \in Drivers
  /\ made = 0
  /\ logs = [run \in {Pair[1], Pair[2]} \X Indices |-> Absent]
  /\ file = Absent /\ k = Absent /\ running = Absent /\ hashes = Absent
  /\ snapshot = Absent /\ published = Absent
  /\ starts = 0

Idle == k = Absent

\* coremark-provenance.py: the snapshot is refused beside measurements it may not fit.
Snapshot ==
  /\ driver = "coremark" /\ file = Absent /\ Present
  /\ snapshot' = Hashed
  /\ UNCHANGED <<driver, made, file, logs, k, running, hashes, published, starts>>

\* Only benchmark.py adds to what an earlier series left.
AlwaysMayOpen == TRUE
MayOpen == file = Absent \/ driver = "boot"
Start ==
  /\ Idle /\ starts < MaxStarts
  /\ MayOpen
  /\ driver = "optimization" => Present
  /\ hashes' = IF driver = "optimization" THEN Hashed ELSE Absent
  /\ file' = IF file = Absent THEN <<>> ELSE file
  /\ k' = 0
  /\ starts' = starts + 1
  /\ UNCHANGED <<driver, made, logs, running, snapshot, published>>

More == Round(k) < Runs

Launch ==
  /\ ~ Idle /\ running = Absent /\ More
  /\ Executable(VariantOf(k)) # Absent
  /\ running' = Executable(VariantOf(k))
  /\ UNCHANGED <<driver, made, file, logs, k, hashes, snapshot, published, starts>>

\* A run writes its log over one of the same name, which an earlier attempt left.
LogKept(run, whole) ==
  IF logs[run] = Absent THEN [logs EXCEPT ![run] = [attempt |-> starts, whole |-> whole]] ELSE logs
LogWritten(run, whole) == [logs EXCEPT ![run] = [attempt |-> starts, whole |-> whole]]

\* A run that is accepted has its row written and flushed.  Its hash is the one the
\* series began with, or, for the counters, one of the file as it is after the run.
HashAfterRun(v) == IF driver \in {"optimization", "counters"} THEN Executable(v) ELSE Absent
RowHash(v) ==
  CASE driver = "optimization" -> hashes[v]
    [] driver = "counters" -> Executable(v)
    [] OTHER -> Absent
Row(v) == [variant |-> v, index |-> Round(k), ran |-> running,
           hash |-> RowHash(v), attempt |-> starts]
Measured ==
  /\ running # Absent
  /\ driver = "counters" => Executable(VariantOf(k)) # Absent
  /\ file' = Append(file, Row(VariantOf(k)))
  /\ logs' = LogWritten(<<VariantOf(k), Round(k)>>, TRUE)
  /\ k' = k + 1 /\ running' = Absent
  /\ UNCHANGED <<driver, made, hashes, snapshot, published, starts>>

\* A run that is not accepted, or cannot be started, ends the driver; so does the user.
\* Unless the driver is killed a run leaves a log, for the counters even one that
\* could not be started.
Stop ==
  /\ ~ Idle
  /\ \/ UNCHANGED logs
     \/ /\ running # Absent
        /\ \E whole \in BOOLEAN : logs' = LogWritten(<<VariantOf(k), Round(k)>>, whole)
     \/ /\ running = Absent /\ More /\ driver = "counters"
        /\ logs' = LogWritten(<<VariantOf(k), Round(k)>>, FALSE)
  /\ k' = Absent /\ running' = Absent /\ hashes' = Absent
  /\ UNCHANGED <<driver, made, file, snapshot, published, starts>>

Publish == published' = file
Finish ==
  /\ ~ Idle /\ running = Absent /\ ~ More
  /\ k' = Absent /\ hashes' = Absent
  /\ IF driver = "counters" THEN Publish ELSE UNCHANGED published
  /\ UNCHANGED <<driver, made, file, logs, running, snapshot, starts>>

MeasuredRows(rows, v) == {n \in DOMAIN rows : rows[n].variant = v /\ rows[n].index >= 0}
CountsFit == \A v \in {Pair[1], Pair[2]} : Cardinality(MeasuredRows(file, v)) = Runs
SnapshotFits == snapshot = Hashed
BinariesFit ==
  CASE driver = "optimization" ->
         \A n \in DOMAIN file : file[n].hash = Executable(file[n].variant)
    [] driver = "coremark" -> SnapshotFits
    [] driver = "boot" -> TRUE

\* The log of a row shows that its run was complete; report.py is content with the
\* shell, which a run may have reached that was then cut short.
LogShowsShell(log) == log # Absent
LogShowsWorkload(log) == log # Absent /\ log.whole
LogsFit ==
  \A n \in DOMAIN file :
    LET log == logs[<<file[n].variant, file[n].index>>]
    IN IF driver = "boot" THEN LogShowsShell(log) ELSE LogShowsWorkload(log)

\* The report scripts, which assert all this before they write.
Report ==
  /\ driver # "counters" /\ file # Absent /\ published = Absent
  /\ CountsFit /\ LogsFit /\ BinariesFit
  /\ Publish
  /\ UNCHANGED <<driver, made, file, logs, k, running, hashes, snapshot, starts>>

\* The user moves the output away, with the directory of the logs for the counters
\* and without them otherwise, or makes Spike anew.
Archive ==
  /\ Idle /\ file # Absent
  /\ file' = Absent
  /\ logs' = IF driver = "counters" THEN [run \in DOMAIN logs |-> Absent] ELSE logs
  /\ UNCHANGED <<driver, made, k, running, hashes, snapshot, published, starts>>
Make ==
  /\ made < MaxMakes
  /\ made' = made + 1
  /\ UNCHANGED <<driver, file, logs, k, running, hashes, snapshot, published, starts>>

SeriesStep ==
  \/ Snapshot \/ Start \/ Launch \/ Measured \/ Stop \/ Finish \/ Report \/ Archive \/ Make

\* Builds are interleaved only with the drivers that run what they build.
Init == BuildInit /\ SeriesInit
Next ==
  \/ SeriesStep /\ UNCHANGED buildVars
  \/ Pair[2] = "oxyspike" /\ BuildNext /\ UNCHANGED seriesVars

vars == <<buildVars, seriesVars>>
Spec == Init /\ [][Next]_vars

-----------------------------------------------------------------------------
(* Properties *)

IsRows(f) == f = Absent \/ f \in Seq(Rows)

\* Types of the builds and of the series; the output file of a series is there while
\* it is written, and only the drivers that hash hold a hash.
TypeOK ==
  /\ BuildTypeOK
  /\ driver \in Drivers /\ made \in 0 .. MaxMakes /\ starts \in 0 .. MaxStarts
  /\ IsRows(file) /\ IsRows(published)
  /\ logs \in [{Pair[1], Pair[2]} \X Indices -> Logs \cup {Absent}]
  /\ k \in 0 .. 2 * (Runs + Warmups) \cup {Absent}
  /\ running \in Contents
  /\ hashes # Absent => driver = "optimization" /\ ~ Idle
  /\ ~ Idle => file # Absent

\* What is published of a driver that refuses an existing file is one series: every
\* variant once in every measured round, whatever earlier attempts left behind.
PublishedSeriesIsWhole ==
  published # Absent /\ driver # "boot" =>
    \A v \in {Pair[1], Pair[2]}, i \in 0 .. Runs - 1 :
      Cardinality({n \in DOMAIN published :
                     published[n].variant = v /\ published[n].index = i}) = 1

\* Rows published under one variant were measured on one executable, the one of their
\* hash if they have it, whatever was rebuilt before, during or after the series.
PublishedRowsAreOfOneBinary ==
  published # Absent /\ driver \in {"coremark", "optimization"} =>
    /\ \A m, n \in DOMAIN published :
         published[m].variant = published[n].variant => published[m].ran = published[n].ran
    /\ \A n \in DOMAIN published : published[n].hash \in {Absent, published[n].ran}

\* When a report is published, the log of each of its rows is the whole log of the run
\* that made the row: no attempt before or after has written over it.
PublishedLogsAreOfTheirRuns ==
  [][published' # published /\ driver # "boot" =>
       \A n \in DOMAIN published' :
         logs[<<published'[n].variant, published'[n].index>>]
           = [attempt |-> published'[n].attempt, whole |-> TRUE]]_vars
=============================================================================
