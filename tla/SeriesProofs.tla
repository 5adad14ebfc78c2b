---------------------------- MODULE SeriesProofs ----------------------------
(***************************************************************************)
(* Proofs about the builds of one variant name and about the series that   *)
(* run them, for every set of builders, every number of rounds and warm-up *)
(* rounds, and every number of series begun and of Spike builds.           *)
(***************************************************************************)
EXTENDS Series, FiniteSetTheorems, SequenceTheorems, TLAPS

-----------------------------------------------------------------------------
(* The builds *)

AtWork == {"train", "boot", "merge", "copy", "copying", "record"}
Complete == [n \in 1 .. TRAINING |-> TRUE]

\* Where one build of the name stands: at work it owns the work directory, which is
\* without provenance, and the executable is there only once it has begun to copy it.
BuilderInv(b) ==
  /\ pc[b] \in AtWork => work = b /\ provenance = Absent
  /\ pc[b] \in {"train", "boot", "merge", "copy"} => output = Absent
  /\ pc[b] = "mkdir" /\ output # Absent => work # Absent
  /\ pc[b] = "train" => raw = <<>>
  /\ pc[b] = "boot" => Len(raw) < TRAINING /\ \A n \in DOMAIN raw : raw[n] = TRUE
  /\ pc[b] \in {"merge", "copy", "copying", "record"} => raw = Complete
  /\ pc[b] = "copying" => output = [by |-> b, whole |-> FALSE]
  /\ pc[b] = "record" => output = [by |-> b, whole |-> TRUE]

\* Provenance is never left without its work directory, and the executable is of a
\* builder that has got as far.
BuildInv ==
  /\ BuildTypeOK
  /\ \A b \in Builders : BuilderInv(b)
  /\ provenance # Absent => work # Absent
  /\ output # Absent => pc[output.by] \in {"copying", "record", "failed", "done"}
  /\ ProvenanceHolds

\* The profiles of a directory are a sequence of at most three.
LEMMA ProfilesAreSequences ==
  \A p : p \in Profiles <=> p \in Seq(BOOLEAN) /\ Len(p) <= TRAINING
<1>1. ASSUME NEW p \in Profiles PROVE p \in Seq(BOOLEAN) /\ Len(p) <= TRAINING
  <2>1. PICK n \in 0 .. TRAINING : p \in [1 .. n -> BOOLEAN]
    BY DEF Profiles
  <2>2. n \in Nat /\ n <= TRAINING
    BY <2>1 DEF TRAINING
  <2>3. p \in Seq(BOOLEAN)
    BY <2>1, <2>2, SeqDef
  <2>4. Len(p) \in Nat /\ DOMAIN p = 1 .. Len(p) /\ DOMAIN p = 1 .. n
    BY <2>1, <2>3, LenProperties
  <2>5. (Len(p) # 0 => Len(p) \in 1 .. n) /\ (n # 0 => n \in 1 .. Len(p))
    <3>1. (Len(p) # 0 => Len(p) \in 1 .. Len(p)) /\ (n # 0 => n \in 1 .. n)
      BY <2>2, <2>4
    <3> QED
      BY <2>4, <3>1
  <2> QED
    BY <2>2, <2>3, <2>4, <2>5
<1>2. ASSUME NEW p \in Seq(BOOLEAN), Len(p) <= TRAINING PROVE p \in Profiles
  <2>1. Len(p) \in Nat /\ p \in [1 .. Len(p) -> BOOLEAN]
    BY LenProperties
  <2>2. Len(p) \in 0 .. TRAINING
    BY <1>2, <2>1 DEF TRAINING
  <2> QED
    BY <2>1, <2>2 DEF Profiles
<1> QED
  BY <1>1, <1>2

\* What is Absent is neither an executable nor a record of provenance.
LEMMA AbsentApart ==
  /\ \A b \in Builders : b # Absent
  /\ \A b \in Builders, w \in BOOLEAN : [by |-> b, whole |-> w] # Absent
  /\ \A b \in Builders, p \in Profiles : [by |-> b, raw |-> p] # Absent
BY BuildersAssumption, ProfilesAreSequences

\* A training boot after others that were complete, itself complete or not.
LEMMA TrainedProfiles ==
  ASSUME raw \in Profiles, Len(raw) < TRAINING, \A n \in DOMAIN raw : raw[n] = TRUE,
         NEW complete \in BOOLEAN
  PROVE  /\ Append(raw, complete) \in Profiles
         /\ Len(Append(raw, complete)) = Len(raw) + 1
         /\ complete => /\ \A n \in DOMAIN Append(raw, complete) : Append(raw, complete)[n] = TRUE
                        /\ Len(raw) + 1 = TRAINING => Append(raw, complete) = Complete
<1> DEFINE new == Append(raw, complete)
<1>1. raw \in Seq(BOOLEAN) /\ Len(raw) \in Nat /\ DOMAIN raw = 1 .. Len(raw)
  BY ProfilesAreSequences, LenProperties
<1>2. /\ new \in Seq(BOOLEAN) /\ Len(new) = Len(raw) + 1
      /\ \A n \in 1 .. Len(raw) : new[n] = raw[n]
      /\ new[Len(raw) + 1] = complete
  BY <1>1, AppendProperties
<1>3. new \in [1 .. Len(raw) + 1 -> BOOLEAN] /\ DOMAIN new = 1 .. Len(raw) + 1
  BY <1>2, LenProperties
<1> HIDE DEF new
<1>4. new \in Profiles
  <2>1. Len(raw) + 1 <= TRAINING
    BY <1>1 DEF TRAINING
  <2> QED
    BY <1>2, <2>1, ProfilesAreSequences
<1>5. ASSUME complete PROVE \A n \in DOMAIN new : new[n] = TRUE
  <2> SUFFICES ASSUME NEW n \in 1 .. Len(raw) + 1 PROVE new[n] = TRUE
    BY <1>3
  <2>1. CASE n = Len(raw) + 1
    BY <1>2, <1>5, <2>1
  <2>2. CASE n # Len(raw) + 1
    <3>1. n \in 1 .. Len(raw)
      BY <1>1, <2>2
    <3> QED
      BY <1>1, <1>2, <3>1
  <2> QED
    BY <2>1, <2>2
<1>6. ASSUME complete, Len(raw) + 1 = TRAINING PROVE new = Complete
  BY <1>3, <1>5, <1>6 DEF Complete
<1> QED
  BY <1>2, <1>4, <1>5, <1>6 DEF new

\* A new work directory has no profiles.
LEMMA EmptyProfile == <<>> \in Profiles
<1>1. <<>> \in Seq(BOOLEAN) /\ Len(<<>>) = 0 /\ 0 <= TRAINING
  BY EmptySeq DEF TRAINING
<1> QED
  BY <1>1, ProfilesAreSequences

LEMMA BuildInitInv == BuildInit => BuildInv
BY EmptyProfile DEF BuildInit, BuildInv, BuildTypeOK, BuilderInv, ProvenanceHolds, Stopped, AtWork

\* Every step of a build, and the user's removals, keep the invariant.
LEMMA BuildStepInv == BuildInv /\ [BuildNext]_buildVars => BuildInv'
<1> SUFFICES ASSUME BuildInv, [BuildNext]_buildVars PROVE BuildInv'
  OBVIOUS
<1> USE AbsentApart
<1>0. /\ pc \in [Builders -> Steps \cup Stopped]
      /\ raw \in Profiles
      /\ work \in Builders \cup {Absent}
      /\ output \in [by : Builders, whole : BOOLEAN] \cup {Absent}
      /\ provenance \in [by : Builders, raw : Profiles] \cup {Absent}
  BY DEF BuildInv, BuildTypeOK
<1>1. ASSUME NEW b \in Builders, CheckOutput(b) PROVE BuildInv'
  BY <1>0, <1>1 DEF CheckOutput, MayUseName, Goto, BuildInv, BuildTypeOK, BuilderInv, ProvenanceHolds,
    Steps, Stopped, AtWork
<1>2. ASSUME NEW b \in Builders, MakeWork(b) PROVE BuildInv'
  <2>1. CASE work = Absent
    <3>1. work' = b /\ raw' = <<>> /\ pc' = [pc EXCEPT ![b] = "train"] /\ UNCHANGED <<output, provenance>>
      BY <1>2, <2>1 DEF MakeWork, Goto
    <3>2. output = Absent /\ provenance = Absent /\ pc[b] = "mkdir"
      BY <1>2, <2>1 DEF MakeWork, BuildInv, BuilderInv
    <3>3. raw' \in Profiles
      BY <3>1, EmptyProfile
    <3>4. \A c \in Builders : pc[c] \notin AtWork
      BY <2>1 DEF BuildInv, BuilderInv
    <3> QED
      BY <1>0, <3>1, <3>2, <3>3, <3>4 DEF BuildInv, BuildTypeOK, BuilderInv, ProvenanceHolds, Steps, Stopped,
        AtWork
  <2>2. CASE work # Absent
    BY <1>0, <1>2, <2>2 DEF MakeWork, Goto, BuildInv, BuildTypeOK, BuilderInv, ProvenanceHolds,
      Steps, Stopped, AtWork
  <2> QED
    BY <2>1, <2>2
<1>3. ASSUME NEW b \in Builders, BuildTrainer(b) PROVE BuildInv'
  <2>1. raw = <<>> /\ Len(raw) < TRAINING /\ \A n \in DOMAIN raw : raw[n] = TRUE
    BY <1>3, EmptySeq DEF BuildTrainer, BuildInv, BuilderInv, TRAINING
  <2> QED
    BY <1>0, <1>3, <2>1 DEF BuildTrainer, Goto, BuildInv, BuildTypeOK, BuilderInv, ProvenanceHolds,
      Steps, Stopped, AtWork
<1>4. ASSUME NEW b \in Builders, Train(b) PROVE BuildInv'
  <2>1. PICK complete \in BOOLEAN :
          /\ raw' = Append(raw, complete)
          /\ pc' = [pc EXCEPT ![b] = IF ~ complete THEN "failed"
                                     ELSE IF Len(raw') < TRAINING THEN "boot" ELSE "merge"]
    BY <1>4 DEF Train, Trained, Goto
  <2>2. /\ pc[b] = "boot" /\ work = b /\ provenance = Absent /\ output = Absent
        /\ Len(raw) < TRAINING /\ \A n \in DOMAIN raw : raw[n] = TRUE
        /\ UNCHANGED <<work, output, provenance>>
    BY <1>4 DEF Train, BuildInv, BuilderInv, AtWork
  <2>3. /\ raw' \in Profiles
        /\ Len(raw') = Len(raw) + 1
        /\ complete => /\ \A n \in DOMAIN raw' : raw'[n] = TRUE
                       /\ Len(raw) + 1 = TRAINING => raw' = Complete
    BY <1>0, <2>1, <2>2, TrainedProfiles
  <2>4. Len(raw) \in Nat /\ (~ (Len(raw') < TRAINING) => Len(raw) + 1 = TRAINING)
    BY <1>0, <2>2, <2>3, ProfilesAreSequences, LenProperties DEF TRAINING
  <2>5. \A c \in Builders : c # b => pc[c] \notin AtWork
    BY <2>2 DEF BuildInv, BuilderInv
  <2> QED
    BY <1>0, <2>1, <2>2, <2>3, <2>4, <2>5 DEF BuildInv, BuildTypeOK, BuilderInv, ProvenanceHolds,
      Steps, Stopped, AtWork
<1>5. ASSUME NEW b \in Builders, MergeAndUse(b) PROVE BuildInv'
  BY <1>0, <1>5 DEF MergeAndUse, Goto, BuildInv, BuildTypeOK, BuilderInv, ProvenanceHolds,
    Steps, Stopped, AtWork
<1>6. ASSUME NEW b \in Builders, BeginCopy(b) PROVE BuildInv'
  <2>1. pc[b] = "copy" /\ work = b /\ \A c \in Builders : c # b => pc[c] \notin AtWork
    BY <1>6 DEF BeginCopy, BuildInv, BuilderInv, AtWork
  <2> QED
    BY <1>0, <1>6, <2>1 DEF BeginCopy, Goto, BuildInv, BuildTypeOK, BuilderInv, ProvenanceHolds,
      Steps, Stopped, AtWork
<1>7. ASSUME NEW b \in Builders, EndCopy(b) PROVE BuildInv'
  <2>1. pc[b] = "copying" /\ work = b /\ \A c \in Builders : c # b => pc[c] \notin AtWork
    BY <1>7 DEF EndCopy, BuildInv, BuilderInv, AtWork
  <2> QED
    BY <1>0, <1>7, <2>1 DEF EndCopy, Goto, BuildInv, BuildTypeOK, BuilderInv, ProvenanceHolds,
      Steps, Stopped, AtWork
<1>8. ASSUME NEW b \in Builders, Record(b) PROVE BuildInv'
  <2>1. /\ pc[b] = "record" /\ work = b /\ \A c \in Builders : c # b => pc[c] \notin AtWork
        /\ raw = Complete /\ output = [by |-> b, whole |-> TRUE]
    BY <1>8 DEF Record, BuildInv, BuilderInv, AtWork
  <2> QED
    BY <1>0, <1>8, <2>1 DEF Record, Goto, BuildInv, BuildTypeOK, BuilderInv, ProvenanceHolds, Complete,
      Steps, Stopped, AtWork
<1>9. ASSUME NEW b \in Builders, Fail(b) PROVE BuildInv'
  <2>1. output # Absent => output.by # b \/ pc[b] \in {"copying", "record"}
    BY <1>9 DEF Fail, BuildInv, Steps
  <2> QED
    BY <1>0, <1>9, <2>1 DEF Fail, Goto, BuildInv, BuildTypeOK, BuilderInv, ProvenanceHolds,
      Steps, Stopped, AtWork
<1>10. CASE RemoveWork
  BY <1>0, <1>10, EmptyProfile DEF RemoveWork, Quiescent, BuildInv, BuildTypeOK, BuilderInv,
    ProvenanceHolds, Stopped, AtWork
<1>11. CASE RemoveName
  BY <1>0, <1>11, EmptyProfile DEF RemoveName, Quiescent, BuildInv, BuildTypeOK, BuilderInv,
    ProvenanceHolds, Stopped, AtWork
<1>12. CASE UNCHANGED buildVars
  BY <1>12 DEF buildVars, BuildInv, BuildTypeOK, BuilderInv, ProvenanceHolds
<1> QED
  BY <1>1, <1>2, <1>3, <1>4, <1>5, <1>6, <1>7, <1>8, <1>9, <1>10, <1>11, <1>12 DEF BuildNext, Build

-----------------------------------------------------------------------------
(* The runs of a series *)

Variants == {"spike", "qemu", "oxyspike"}
RunNames == {Pair[1], Pair[2]} \X Indices

\* The pairs of variants that are measured together.
LEMMA Pairs ==
  /\ Pair[1] = "spike" /\ Pair[2] \in {"qemu", "oxyspike"}
  /\ driver = "optimization" => Pair[2] = "oxyspike"
  /\ driver = "coremark" => Pair[2] = "qemu"
BY DEF Pair

\* The variant and the round of a run; rounds go on from the first warm-up.
LEMMA RunTyped ==
  ASSUME NEW n \in Nat
  PROVE  /\ VariantOf(n) \in {Pair[1], Pair[2]} /\ VariantOf(n) \in Variants
         /\ Round(n) \in Int /\ -Warmups <= Round(n)
         /\ Round(n) < Runs => n < 2 * (Runs + Warmups) /\ <<VariantOf(n), Round(n)>> \in RunNames
<1>1. Runs \in Nat /\ Warmups \in Nat
  BY SeriesAssumption
<1>2. VariantOf(n) \in {Pair[1], Pair[2]} /\ VariantOf(n) \in Variants
  BY Pairs DEF VariantOf, Variants
<1>3. Round(n) \in Int /\ -Warmups <= Round(n) /\ (Round(n) < Runs => n < 2 * (Runs + Warmups))
  BY <1>1 DEF Round
<1>4. Round(n) < Runs => Round(n) \in Indices
  BY <1>1, <1>3 DEF Indices
<1> QED
  BY <1>2, <1>3, <1>4 DEF RunNames

\* No two runs of a series have the same variant and the same round.
LEMMA RunsApart ==
  ASSUME NEW m \in Nat, NEW n \in Nat, VariantOf(m) = VariantOf(n), Round(m) = Round(n)
  PROVE  m = n
<1>1. Pair[1] # Pair[2]
  BY Pairs
<1>2. (m % 2 = 0) <=> (n % 2 = 0)
  BY <1>1 DEF VariantOf, Odd
<1>3. m \div 2 = n \div 2
  BY SeriesAssumption DEF Round
<1> QED
  BY <1>2, <1>3

\* Every variant has a run in every measured round.
LEMMA RunOfRound ==
  ASSUME NEW v \in {Pair[1], Pair[2]}, NEW i \in Nat
  PROVE  \E n \in Nat : VariantOf(n) = v /\ Round(n) = i
<1> DEFINE skipped == IF driver = "counters" THEN 0 ELSE Warmups
           first == 2 * (i + skipped)
<1>1. skipped \in Nat /\ first \in Nat /\ first \div 2 = i + skipped
  BY SeriesAssumption
<1>2. (first + 1) \div 2 = first \div 2 /\ first % 2 = 0 /\ (first + 1) % 2 = 1
  BY SeriesAssumption
<1>3. Round(first) = first \div 2 - skipped /\ Round(first + 1) = (first + 1) \div 2 - skipped
  BY DEF Round
<1> HIDE DEF first, skipped
<1>4. Round(first) = i /\ Round(first + 1) = i
  BY <1>1, <1>2, <1>3
<1>5. VariantOf(first) = v \/ VariantOf(first + 1) = v
  BY <1>2, <1>4 DEF VariantOf, Odd
<1> QED
  BY <1>1, <1>4, <1>5

-----------------------------------------------------------------------------
(* Types of a series *)

\* Beside the types: a run in progress is one of the series, which has begun, and the
\* series of the optimization has the hash of an executable of each variant.
Typed ==
  /\ TypeOK
  /\ running # Absent => ~ Idle /\ More
  /\ ~ Idle => starts > 0
  /\ ~ Idle /\ driver = "optimization" => \A v \in {"spike", "oxyspike"} : hashes[v] \in Executables

\* What TypeOK says of each variable.
LEMMA TypesOfVariables ==
  ASSUME TypeOK
  PROVE  /\ output \in [by : Builders, whole : BOOLEAN] \cup {Absent}
         /\ driver \in {"boot", "coremark", "optimization", "counters"}
         /\ made \in 0 .. MaxMakes /\ starts \in 0 .. MaxStarts
         /\ MaxMakes \in Nat /\ MaxStarts \in Nat
         /\ file # Absent => file \in Seq(Rows)
         /\ logs \in [RunNames -> Logs \cup {Absent}]
         /\ ~ Idle => k \in Nat /\ file \in Seq(Rows)
BY SeriesAssumption DEF TypeOK, BuildTypeOK, IsRows, RunNames, Idle

\* What is Absent is neither a number, an executable, a log nor the rows of a file.
LEMMA AbsentElsewhere ==
  /\ Absent \notin Nat /\ Absent \notin Seq(Rows) /\ Absent \notin Executables /\ Absent \notin Logs
  /\ Absent \notin [{"spike", "qemu"} -> Executables]
BY AbsentAssumption

\* The executable of a variant is one, or is absent.
LEMMA ExecutableTyped ==
  ASSUME TypeOK, NEW v \in Variants
  PROVE  /\ Executable(v) \in Contents
         /\ Executable(v) # Absent => Executable(v) \in Executables
         /\ v = "spike" => Executable(v) = Linked(made)
         /\ v = "qemu" => Executable(v) = Linked(0)
         /\ v = "oxyspike" => Executable(v) = output
<1>1. \A n \in 0 .. MaxMakes : Linked(n) \in Executables
  BY DEF Linked, Executables
<1>2. 0 \in 0 .. MaxMakes /\ made \in 0 .. MaxMakes
  BY TypesOfVariables
<1>3. output # Absent => output \in Executables
  BY TypesOfVariables DEF Executables
<1> QED
  BY <1>1, <1>2, <1>3 DEF Executable, Variants, Contents

LEMMA TypedInit == Init => Typed
<1> SUFFICES ASSUME Init PROVE Typed
  OBVIOUS
<1>1. BuildTypeOK
  BY BuildInitInv DEF Init, BuildInv
<1>2. logs \in [RunNames -> Logs \cup {Absent}]
  BY DEF Init, SeriesInit, RunNames
<1> QED
  BY <1>1, <1>2, SeriesAssumption DEF Init, SeriesInit, Typed, TypeOK, IsRows, RunNames, Idle, Contents

\* The row and the log of a run in progress.
LEMMA RowTyped ==
  ASSUME Typed, running # Absent, driver = "counters" => Executable(VariantOf(k)) # Absent
  PROVE  /\ Row(VariantOf(k)) \in Rows
         /\ <<VariantOf(k), Round(k)>> \in RunNames
         /\ \A whole \in BOOLEAN : LogWritten(<<VariantOf(k), Round(k)>>, whole)
                                     \in [RunNames -> Logs \cup {Absent}]
         /\ k + 1 \in 0 .. 2 * (Runs + Warmups)
<1>1. TypeOK /\ ~ Idle /\ Round(k) < Runs /\ k \in Nat /\ starts \in 1 .. MaxStarts
  BY TypesOfVariables DEF Typed, More
<1>2. /\ VariantOf(k) \in Variants /\ VariantOf(k) \in {Pair[1], Pair[2]}
      /\ k < 2 * (Runs + Warmups) /\ <<VariantOf(k), Round(k)>> \in RunNames
  BY <1>1, RunTyped
<1>3. Round(k) \in Indices
  BY <1>2 DEF RunNames
<1>4. running \in Executables
  BY <1>1 DEF TypeOK, Contents
<1>5. RowHash(VariantOf(k)) \in Contents
  <2>1. CASE driver = "optimization"
    BY <1>1, <1>2, <2>1, Pairs DEF RowHash, Typed, Contents
  <2>2. CASE driver = "counters"
    BY <1>1, <1>2, <2>2, ExecutableTyped DEF RowHash
  <2>3. CASE driver \notin {"optimization", "counters"}
    BY <2>3 DEF RowHash, Contents
  <2> QED
    BY <2>1, <2>2, <2>3
<1>6. Row(VariantOf(k)) \in Rows
  BY <1>1, <1>2, <1>3, <1>4, <1>5 DEF Row, Rows, Variants
<1>7. \A whole \in BOOLEAN : [attempt |-> starts, whole |-> whole] \in Logs
  BY <1>1 DEF Logs
<1>8. \A whole \in BOOLEAN : LogWritten(<<VariantOf(k), Round(k)>>, whole)
                               \in [RunNames -> Logs \cup {Absent}]
  BY <1>1, <1>7, TypesOfVariables DEF LogWritten
<1>9. k + 1 \in 0 .. 2 * (Runs + Warmups)
  BY <1>1, <1>2, SeriesAssumption
<1> QED
  BY <1>2, <1>6, <1>8, <1>9

\* The driver is chosen once, and with it the variants, the names of the runs, and
\* which run comes when.
LEMMA DriverStays ==
  ASSUME driver' = driver
  PROVE  /\ Pair' = Pair /\ RunNames' = RunNames
         /\ \A n : Round(n)' = Round(n) /\ VariantOf(n)' = VariantOf(n)
BY DEF Pair, RunNames, Round, VariantOf

LEMMA NextKeepsDriver == [Next]_vars => driver' = driver
BY DEF Next, SeriesStep, Snapshot, Start, Launch, Measured, Stop, Finish, Report, Archive, Make,
  vars, seriesVars

\* Every step keeps the types.
LEMMA TypedStep == Typed /\ BuildTypeOK' /\ [Next]_vars => Typed'
<1> SUFFICES ASSUME Typed, BuildTypeOK', [Next]_vars PROVE Typed'
  OBVIOUS
<1> USE AbsentElsewhere DEF Idle
<1>1. /\ TypeOK /\ driver' = driver /\ RunNames' = RunNames
      /\ logs \in [RunNames -> Logs \cup {Absent}]
      /\ IsRows(file) /\ IsRows(published) /\ running \in Contents
      /\ k \in 0 .. 2 * (Runs + Warmups) \cup {Absent}
      /\ made \in 0 .. MaxMakes /\ starts \in 0 .. MaxStarts /\ driver \in Drivers
      /\ MaxMakes \in Nat /\ MaxStarts \in Nat /\ Runs \in Nat /\ Warmups \in Nat
  BY NextKeepsDriver, DriverStays, TypesOfVariables, SeriesAssumption DEF Typed, TypeOK
\* It is enough that the variables have their types again.
<1>2. ASSUME logs' \in [RunNames -> Logs \cup {Absent}],
             IsRows(file'), IsRows(published'), running' \in Contents,
             k' \in 0 .. 2 * (Runs + Warmups) \cup {Absent},
             made' \in 0 .. MaxMakes, starts' \in 0 .. MaxStarts,
             hashes' # Absent => driver = "optimization" /\ k' # Absent,
             k' # Absent => file' # Absent
      PROVE  TypeOK'
  BY <1>1, <1>2 DEF TypeOK, RunNames, IsRows
<1>3. CASE Snapshot
  BY <1>1, <1>2, <1>3 DEF Snapshot, Typed, TypeOK, More, Round
<1>4. CASE Start
  <2>1. driver = "optimization" => \A v \in {"spike", "oxyspike"} : Hashed[v] \in Executables
    BY <1>1, <1>4, Pairs, ExecutableTyped DEF Start, Present, Hashed, Variants
  <2>2. <<>> \in Seq(Rows) /\ 0 \in 0 .. 2 * (Runs + Warmups) /\ starts' \in 1 .. MaxStarts
    BY <1>1, <1>4, EmptySeq DEF Start
  <2>3. running = Absent
    BY <1>4 DEF Start, Typed
  <2>4. TypeOK'
    <3>1. IsRows(file') /\ file' # Absent
      BY <1>1, <1>4, <2>2 DEF Start, IsRows
    <3>2. k' = 0 /\ k' # Absent /\ starts' \in 0 .. MaxStarts
      BY <1>1, <1>4, <2>2 DEF Start
    <3> QED
      BY <1>1, <1>2, <1>4, <2>2, <3>1, <3>2 DEF Start
  <2> QED
    BY <1>1, <1>4, <2>1, <2>2, <2>3, <2>4 DEF Start, Typed
<1>5. CASE Launch
  <2>1. k \in Nat
    BY <1>1, <1>5, TypesOfVariables DEF Launch
  <2>2. running' \in Contents
    BY <1>1, <1>5, <2>1, RunTyped, ExecutableTyped DEF Launch
  <2>3. TypeOK'
    BY <1>1, <1>2, <1>5, <2>2 DEF Launch, TypeOK
  <2> QED
    BY <1>1, <1>5, <2>3 DEF Launch, Typed, More, Round
<1>6. CASE Measured
  <2>1. /\ Row(VariantOf(k)) \in Rows /\ logs' \in [RunNames -> Logs \cup {Absent}]
        /\ k' \in 0 .. 2 * (Runs + Warmups)
    BY <1>6, RowTyped DEF Measured
  <2>2. file \in Seq(Rows) /\ k # Absent
    BY <1>1, <1>6, TypesOfVariables DEF Measured, Typed
  <2>3. file' \in Seq(Rows)
    BY <1>6, <2>1, <2>2, AppendProperties DEF Measured
  <2>4. TypeOK'
    <3>1. k' # Absent /\ file' # Absent
      BY <2>1, <2>3
    <3>2. running' \in Contents
      BY <1>6 DEF Measured, Contents
    <3> QED
      BY <1>1, <1>2, <1>6, <2>1, <2>2, <2>3, <3>1, <3>2 DEF Measured, TypeOK, IsRows
  <2> QED
    BY <1>1, <1>6, <2>2, <2>4 DEF Measured, Typed
<1>7. CASE Stop
  <2>1. logs' \in [RunNames -> Logs \cup {Absent}]
    <3>1. k \in Nat /\ starts \in 1 .. MaxStarts
      BY <1>1, <1>7, TypesOfVariables DEF Stop, Typed
    <3>2. CASE More
      <4>1. <<VariantOf(k), Round(k)>> \in RunNames
        BY <3>1, <3>2, RunTyped DEF More
      <4>2. \A whole \in BOOLEAN : [attempt |-> starts, whole |-> whole] \in Logs
        BY <3>1 DEF Logs
      <4> QED
        BY <1>1, <1>7, <4>1, <4>2 DEF Stop, LogWritten
    <3>3. CASE ~ More
      BY <1>1, <1>7, <3>3 DEF Stop, Typed
    <3> QED
      BY <3>2, <3>3
  <2>2. TypeOK'
    BY <1>1, <1>2, <1>7, <2>1 DEF Stop, TypeOK, Contents
  <2> QED
    BY <1>7, <2>2 DEF Stop, Typed
<1>8. CASE Finish
  <2>1. IsRows(published')
    BY <1>1, <1>8 DEF Finish, Publish
  <2>2. TypeOK'
    BY <1>1, <1>2, <1>8, <2>1 DEF Finish, TypeOK
  <2> QED
    BY <1>8, <2>2 DEF Finish, Typed
<1>9. CASE Report
  <2>1. TypeOK'
    BY <1>1, <1>2, <1>9 DEF Report, Publish, TypeOK
  <2> QED
    BY <1>1, <1>9, <2>1 DEF Report, Typed, More, Round
<1>10. CASE Archive
  <2>1. logs' \in [RunNames -> Logs \cup {Absent}]
    BY <1>1, <1>10 DEF Archive
  <2>2. TypeOK'
    BY <1>1, <1>2, <1>10, <2>1 DEF Archive, TypeOK, IsRows
  <2> QED
    BY <1>1, <1>10, <2>2 DEF Archive, Typed
<1>11. CASE Make
  <2>1. TypeOK'
    BY <1>1, <1>2, <1>11 DEF Make, TypeOK
  <2> QED
    BY <1>1, <1>11, <2>1 DEF Make, Typed, More, Round
<1>12. CASE UNCHANGED seriesVars
  <2>1. TypeOK'
    BY <1>1, <1>2, <1>12 DEF seriesVars, TypeOK
  <2> QED
    BY <1>12, <2>1 DEF seriesVars, Typed, More, Round
<1> QED
  BY <1>3, <1>4, <1>5, <1>6, <1>7, <1>8, <1>9, <1>10, <1>11, <1>12 DEF Next, SeriesStep, vars

-----------------------------------------------------------------------------
(* The rows of a series, and their logs *)

\* Row n is of the n-th run, and the log of that name is the one that the run left.
RowPlaced(rows, n) ==
  /\ rows[n].variant = VariantOf(n - 1)
  /\ rows[n].index = Round(n - 1) /\ Round(n - 1) < Runs
LogOwn(n) ==
  /\ file[n].attempt = starts
  /\ logs[<<file[n].variant, file[n].index>>] = [attempt |-> starts, whole |-> TRUE]

\* A file that its driver refuses to add to holds the runs of the last series, in order.
Placed ==
  driver # "boot" /\ file # Absent =>
    /\ \A n \in DOMAIN file : RowPlaced(file, n) /\ LogOwn(n)
    /\ ~ Idle => Len(file) = k

LEMMA PlacedInit == Init => Placed
BY DEF Init, SeriesInit, Placed

\* The rows of a file are as many as its length, each of a run of its own.
LEMMA RowsOfFile ==
  ASSUME TypeOK, file # Absent
  PROVE  /\ file \in Seq(Rows) /\ Len(file) \in Nat /\ DOMAIN file = 1 .. Len(file)
         /\ \A n \in DOMAIN file : file[n] \in Rows
BY TypesOfVariables, LenProperties, ElementOfSeq

\* A log of the run that the series is at is of none of the rows.
LEMMA LogOfNoRow ==
  ASSUME Typed, Placed, driver # "boot", ~ Idle, NEW n \in DOMAIN file
  PROVE  /\ <<file[n].variant, file[n].index>> \in RunNames
         /\ <<file[n].variant, file[n].index>> # <<VariantOf(k), Round(k)>>
<1>1. file # Absent /\ TypeOK /\ k \in Nat
  BY TypesOfVariables DEF Typed, TypeOK
<1>2. Len(file) = k /\ n \in 1 .. k /\ RowPlaced(file, n)
  BY <1>1, RowsOfFile DEF Placed
<1>3. n - 1 \in Nat /\ n - 1 # k
  BY <1>1, <1>2
<1> QED
  BY <1>1, <1>2, <1>3, RunsApart, RunTyped DEF RowPlaced

LEMMA PlacedStep == Typed /\ Placed /\ [Next]_vars => Placed'
<1> SUFFICES ASSUME Typed, Placed, [Next]_vars, driver # "boot", file' # Absent PROVE
      /\ \A n \in DOMAIN file' : RowPlaced(file', n) /\ LogOwn(n)'
      /\ ~ Idle' => Len(file') = k'
  BY NextKeepsDriver, DriverStays DEF Placed, RowPlaced
<1>1. TypeOK /\ logs \in [RunNames -> Logs \cup {Absent}]
  BY TypesOfVariables DEF Typed
<1>2. file # Absent => /\ \A n \in DOMAIN file : RowPlaced(file, n) /\ LogOwn(n)
                       /\ ~ Idle => Len(file) = k
  BY DEF Placed
\* Most steps change neither the rows nor the logs, nor begin a series.
<1>3. CASE UNCHANGED <<file, logs, starts>> /\ (~ Idle' => UNCHANGED k)
  BY <1>2, <1>3 DEF LogOwn, Idle
<1>4. CASE Start
  <2>1. file' = <<>> /\ k' = 0
    BY <1>4 DEF Start, MayOpen
  <2> QED
    BY <2>1, EmptySeq
<1>5. CASE Measured
  <2>1. k \in Nat /\ file \in Seq(Rows) /\ ~ Idle /\ Round(k) < Runs /\ Len(file) = k
    BY <1>1, <1>2, <1>5, TypesOfVariables, AbsentElsewhere DEF Measured, Typed, More
  <2>2. <<VariantOf(k), Round(k)>> \in RunNames
    BY <2>1, RunTyped
  <2>3. /\ DOMAIN file' = 1 .. k + 1 /\ Len(file') = k + 1
        /\ \A n \in 1 .. k : file'[n] = file[n]
        /\ file'[k + 1] = Row(VariantOf(k))
    <3>1. Row(VariantOf(k)) \in Rows
      BY <1>5, RowTyped DEF Measured
    <3> QED
      BY <1>5, <2>1, <3>1, AppendProperties, LenProperties DEF Measured
  <2>4. ASSUME NEW n \in 1 .. k PROVE RowPlaced(file', n) /\ LogOwn(n)'
    <3>1. n \in DOMAIN file
      BY <1>1, <2>1, RowsOfFile, AbsentElsewhere
    <3>2. RowPlaced(file, n) /\ LogOwn(n) /\ file'[n] = file[n]
      BY <1>2, <2>1, <2>3, <2>4, <3>1, AbsentElsewhere
    <3>3. /\ <<file[n].variant, file[n].index>> \in RunNames
          /\ <<file[n].variant, file[n].index>> # <<VariantOf(k), Round(k)>>
      BY <2>1, <3>1, LogOfNoRow
    <3>4. logs'[<<file[n].variant, file[n].index>>] = logs[<<file[n].variant, file[n].index>>]
      BY <1>1, <1>5, <3>3 DEF Measured, LogWritten
    <3> QED
      BY <1>5, <3>2, <3>4 DEF Measured, RowPlaced, LogOwn
  <2>5. ASSUME NEW n \in Nat, n = k + 1 PROVE RowPlaced(file', n) /\ LogOwn(n)'
    <3>1. logs'[<<VariantOf(k), Round(k)>>] = [attempt |-> starts, whole |-> TRUE]
      BY <1>1, <1>5, <2>2 DEF Measured, LogWritten
    <3>2. n - 1 = k /\ file'[n] = Row(VariantOf(k))
      BY <2>1, <2>3, <2>5
    <3>3. /\ file'[n].variant = VariantOf(k) /\ file'[n].index = Round(k)
          /\ file'[n].attempt = starts
      BY <3>2 DEF Row
    <3>4. RowPlaced(file', n)
      BY <2>1, <3>2, <3>3 DEF RowPlaced
    <3> QED
      BY <1>5, <3>1, <3>3, <3>4 DEF Measured, LogOwn
  <2>6. \A n \in 1 .. k + 1 : n \in 1 .. k \/ (n \in Nat /\ n = k + 1)
    BY <2>1
  <2>7. k' = k + 1
    BY <1>5 DEF Measured
  <2> QED
    BY <2>3, <2>4, <2>5, <2>6, <2>7
<1>6. CASE Stop
  <2>1. ~ Idle /\ Idle' /\ UNCHANGED <<file, starts>>
    BY <1>6 DEF Stop, Idle
  <2>2. ASSUME NEW n \in DOMAIN file PROVE RowPlaced(file, n) /\ LogOwn(n)'
    <3>1. /\ <<file[n].variant, file[n].index>> \in RunNames
          /\ <<file[n].variant, file[n].index>> # <<VariantOf(k), Round(k)>>
      BY <2>1, LogOfNoRow
    <3>2. logs'[<<file[n].variant, file[n].index>>] = logs[<<file[n].variant, file[n].index>>]
      BY <1>1, <1>6, <3>1 DEF Stop, LogWritten
    <3> QED
      BY <1>2, <2>1, <2>2, <3>2 DEF LogOwn
  <2> QED
    BY <2>1, <2>2
<1>7. CASE Archive
  BY <1>7 DEF Archive
<1> QED
  BY <1>3, <1>4, <1>5, <1>6, <1>7 DEF Next, SeriesStep, Snapshot, Launch, Finish, Report, Make,
    vars, seriesVars, Idle

-----------------------------------------------------------------------------
(* What is published of a series is whole *)

RowsOf(rows, v, i) == {n \in DOMAIN rows : rows[n].variant = v /\ rows[n].index = i}

\* A variant has at most one row of a round.
LEMMA RowsDiffer ==
  ASSUME TypeOK, Placed, file # Absent, driver # "boot",
         NEW m \in DOMAIN file, NEW n \in DOMAIN file,
         file[m].variant = file[n].variant, file[m].index = file[n].index
  PROVE  m = n
<1>1. RowPlaced(file, m) /\ RowPlaced(file, n)
  BY DEF Placed
<1>2. m - 1 \in Nat /\ n - 1 \in Nat
  BY RowsOfFile
<1>3. m - 1 = n - 1
  BY <1>1, <1>2, RunsApart DEF RowPlaced
<1> QED
  BY <1>3, RowsOfFile

\* A series that has come to its end has a row of each run.
LEMMA RowAtTheEnd ==
  ASSUME Typed, Placed, driver # "boot", ~ Idle, ~ More,
         NEW v \in {Pair[1], Pair[2]}, NEW i \in 0 .. Runs - 1
  PROVE  \E n \in DOMAIN file : file[n].variant = v /\ file[n].index = i
<1>1. TypeOK /\ file # Absent /\ k \in Nat /\ Len(file) = k /\ DOMAIN file = 1 .. k
  BY TypesOfVariables, RowsOfFile DEF Typed, TypeOK, Placed
<1>2. i \in Nat /\ i < Runs
  BY SeriesAssumption
<1>3. PICK p \in Nat : VariantOf(p) = v /\ Round(p) = i
  BY <1>2, RunOfRound
<1>4. p < k
  <2>1. ~ (Round(k) < Runs) /\ Runs \in Nat
    BY SeriesAssumption DEF More
  <2>2. k <= p => Round(k) <= Round(p)
    <3>1. k <= p => k \div 2 <= p \div 2
      BY <1>1
    <3>2. k \div 2 \in Int /\ p \div 2 \in Int
      BY <1>1
    <3> QED
      BY <3>1, <3>2, SeriesAssumption DEF Round
  <2>3. Round(k) \in Int
    BY <1>1, RunTyped
  <2> QED
    BY <1>1, <1>2, <1>3, <2>1, <2>2, <2>3
<1>5. p + 1 \in 1 .. k /\ (p + 1) - 1 = p
  BY <1>1, <1>4
<1>6. RowPlaced(file, p + 1)
  BY <1>1, <1>5 DEF Placed
<1> QED
  BY <1>1, <1>3, <1>5, <1>6 DEF RowPlaced

\* A file with as many measured rows of a variant as there are rounds has one of each.
LEMMA RowByCounting ==
  ASSUME TypeOK, Placed, driver # "boot", file # Absent,
         NEW v \in {Pair[1], Pair[2]}, NEW i \in 0 .. Runs - 1,
         Cardinality(MeasuredRows(file, v)) = Runs
  PROVE  \E n \in DOMAIN file : file[n].variant = v /\ file[n].index = i
<1> DEFINE rows == MeasuredRows(file, v)
           round == [n \in rows |-> file[n].index]
<1>1. \A n \in rows : n \in DOMAIN file /\ file[n].variant = v /\ file[n].index >= 0
  BY DEF MeasuredRows
<1>2. \A n \in rows : file[n].index \in 0 .. Runs - 1
  BY <1>1, RowsOfFile, SeriesAssumption DEF Rows, Indices
<1> HIDE DEF rows
<1>3. round \in Injection(rows, 0 .. Runs - 1)
  <2>1. round \in [rows -> 0 .. Runs - 1]
    BY <1>2
  <2>2. \A m, n \in rows : round[m] = round[n] => m = n
    BY <1>1, RowsDiffer
  <2> QED
    BY <2>1, <2>2 DEF Injection, IsInjective
<1>4. IsFiniteSet(0 .. Runs - 1) /\ Cardinality(0 .. Runs - 1) = Runs
  BY FS_Interval, SeriesAssumption
<1>5. Cardinality(rows) = Runs
  BY DEF rows
<1>6. round \in Surjection(rows, 0 .. Runs - 1)
  BY <1>3, <1>4, <1>5, FS_Injection
<1>7. PICK n \in rows : round[n] = i
  BY <1>6 DEF Surjection
<1> QED
  BY <1>1, <1>7

\* The two together: the rows that are published.
LEMMA FileIsWhole ==
  ASSUME Typed, Placed, driver # "boot", file # Absent, (~ Idle /\ ~ More) \/ CountsFit,
         NEW v \in {Pair[1], Pair[2]}, NEW i \in 0 .. Runs - 1
  PROVE  Cardinality(RowsOf(file, v, i)) = 1
<1>1. TypeOK
  BY DEF Typed
<1>2. PICK n \in DOMAIN file : file[n].variant = v /\ file[n].index = i
  BY <1>1, RowAtTheEnd, RowByCounting DEF CountsFit
<1>3. RowsOf(file, v, i) = {n}
  BY <1>1, <1>2, RowsDiffer DEF RowsOf
<1> QED
  BY <1>3, FS_Singleton

\* Every step publishes a whole series, or nothing.
LEMMA WholeStep == Typed /\ Placed /\ PublishedSeriesIsWhole /\ [Next]_vars => PublishedSeriesIsWhole'
<1> SUFFICES ASSUME Typed, Placed, PublishedSeriesIsWhole, [Next]_vars,
                    published' # Absent, driver # "boot",
                    NEW v \in {Pair[1], Pair[2]}, NEW i \in 0 .. Runs - 1
             PROVE  Cardinality(RowsOf(published', v, i)) = 1
  BY NextKeepsDriver, DriverStays DEF PublishedSeriesIsWhole, RowsOf
<1>1. CASE UNCHANGED published
  BY <1>1 DEF PublishedSeriesIsWhole, RowsOf
<1>2. CASE Finish /\ published' = file
  BY <1>2, FileIsWhole DEF Finish
<1>3. CASE Report
  BY <1>3, FileIsWhole DEF Report, Publish
<1> QED
  BY <1>1, <1>2, <1>3 DEF Next, SeriesStep, Snapshot, Start, Launch, Measured, Stop, Finish, Publish,
    Archive, Make, vars, seriesVars

\* A step that publishes does it when the log of each row is the whole log of its run.
LEMMA LogsStep ==
  Typed /\ Placed /\ [Next]_vars =>
    (published' # published /\ driver # "boot" =>
       \A n \in DOMAIN published' :
         logs[<<published'[n].variant, published'[n].index>>]
           = [attempt |-> published'[n].attempt, whole |-> TRUE])
<1> SUFFICES ASSUME Typed, Placed, [Next]_vars, published' # published, driver # "boot"
             PROVE  \A n \in DOMAIN published' :
                      logs[<<published'[n].variant, published'[n].index>>]
                        = [attempt |-> published'[n].attempt, whole |-> TRUE]
  OBVIOUS
<1>1. (Finish \/ Report) /\ published' = file
  BY DEF Next, SeriesStep, Snapshot, Start, Launch, Measured, Stop, Finish, Report, Publish,
    Archive, Make, vars, seriesVars
<1>2. file # Absent
  BY <1>1 DEF Finish, Report, Typed, TypeOK
<1>3. \A n \in DOMAIN file : LogOwn(n)
  BY <1>2 DEF Placed
<1> QED
  BY <1>1, <1>3 DEF LogOwn

-----------------------------------------------------------------------------
(* The executables that a series ran, and what it knows of them *)

\* An executable of an OxySpike build that is there no longer.
Stale(e) ==
  /\ e \in [by : Builders, whole : BOOLEAN] /\ e # output
  /\ pc[e.by] \in {"record", "failed", "done"}

\* h was the executable of v when e was, or before: what has been replaced does not return.
Before(v, h, e) ==
  IF v = "oxyspike" THEN (h = e /\ (e = output \/ Stale(e))) \/ Stale(h)
  ELSE \E i, j \in 0 .. made : i <= j /\ h = Linked(i) /\ e = Linked(j)

\* The hashes of a series of the optimization are of executables from before its runs.
Hashing ==
  driver = "optimization" =>
    /\ ~ Idle => \A v \in {"spike", "oxyspike"} : Before(v, hashes[v], hashes[v])
    /\ running # Absent => Before(VariantOf(k), hashes[VariantOf(k)], running)
    /\ file # Absent => \A n \in DOMAIN file : Before(file[n].variant, file[n].hash, file[n].ran)

LEMMA HashingInit == Init => Hashing
BY DEF Init, SeriesInit, Hashing, Idle

\* A step of Next is a step of the builds, or of none, and never makes an older Spike.
LEMMA NextOfParts ==
  ASSUME TypeOK, [Next]_vars
  PROVE  [BuildNext]_buildVars /\ made \in Nat /\ made' \in Nat /\ made <= made'
<1>1. [BuildNext]_buildVars
  BY DEF Next, vars
<1>2. made' = made \/ made' = made + 1
  BY DEF Next, SeriesStep, Snapshot, Start, Launch, Measured, Stop, Finish, Report, Archive, Make,
    vars, seriesVars
<1> QED
  BY <1>1, <1>2, TypesOfVariables

\* No step of a build brings back an executable that was replaced or removed.
LEMMA StaleStays ==
  ASSUME BuildInv, [BuildNext]_buildVars, NEW e
  PROVE  /\ Stale(e) => Stale(e)'
         /\ e = output /\ e # Absent => e = output' \/ Stale(e)'
<1> USE AbsentApart
<1>0. /\ pc \in [Builders -> Steps \cup Stopped]
      /\ output \in [by : Builders, whole : BOOLEAN] \cup {Absent}
      /\ output # Absent => pc[output.by] \in {"copying", "record", "failed", "done"}
  BY DEF BuildInv, BuildTypeOK
<1>1. ASSUME NEW b \in Builders, BeginCopy(b) PROVE Stale(e) => Stale(e)'
  BY <1>0, <1>1 DEF BeginCopy, Goto, Stale
<1>2. ASSUME NEW b \in Builders, BeginCopy(b) PROVE output = Absent
  BY <1>2 DEF BeginCopy, BuildInv, BuilderInv
<1>3. ASSUME NEW b \in Builders, EndCopy(b) PROVE Stale(e) => Stale(e)'
  BY <1>0, <1>3 DEF EndCopy, Goto, Stale
<1>4. ASSUME NEW b \in Builders, EndCopy(b), e = output PROVE Stale(e)'
  <2>1. e = [by |-> b, whole |-> FALSE] /\ output' = [by |-> b, whole |-> TRUE] /\ pc'[b] = "record"
    BY <1>0, <1>4 DEF EndCopy, Goto, BuildInv, BuilderInv
  <2> QED
    BY <2>1 DEF Stale
<1>5. CASE RemoveName
  <2>1. /\ pc' = pc /\ output' = Absent /\ \A b \in Builders : pc[b] \in Stopped
    BY <1>5 DEF RemoveName, Quiescent
  <2>2. e = output /\ e # Absent => e.by \in Builders /\ pc[e.by] \in {"failed", "done"}
    BY <1>0, <2>1 DEF Stopped
  <2> QED
    BY <1>0, <2>1, <2>2 DEF Stale
\* The other steps leave the executable, and builders only go on.
<1>6. CASE /\ output' = output
           /\ \/ pc' = pc
              \/ \E b \in Builders, step \in Steps \cup Stopped :
                   /\ pc' = [pc EXCEPT ![b] = step]
                   /\ pc[b] \in {"record", "failed", "done"} => step \in {"record", "failed", "done"}
  BY <1>0, <1>6 DEF Stale
<1>7. ASSUME NEW b \in Builders,
             \/ CheckOutput(b) \/ MakeWork(b) \/ BuildTrainer(b) \/ Train(b) \/ MergeAndUse(b)
             \/ Record(b) \/ Fail(b)
      PROVE  /\ output' = output
             /\ \E step \in Steps \cup Stopped :
                  /\ pc' = [pc EXCEPT ![b] = step]
                  /\ pc[b] \in {"record", "failed", "done"} => step \in {"record", "failed", "done"}
  BY <1>7 DEF CheckOutput, MakeWork, BuildTrainer, Train, MergeAndUse, Record, Fail, Goto, Steps, Stopped
<1> QED
  BY <1>1, <1>2, <1>3, <1>4, <1>5, <1>6, <1>7 DEF BuildNext, Build, RemoveWork, buildVars

\* What was the executable before, or with, another was so whatever is built later.
LEMMA BeforeStays ==
  ASSUME BuildInv, TypeOK, [Next]_vars, NEW v, NEW h, NEW e, e # Absent, Before(v, h, e)
  PROVE  Before(v, h, e)'
<1>1. CASE v = "oxyspike"
  BY <1>1, NextOfParts, StaleStays DEF Before
<1>2. CASE v # "oxyspike"
  <2>1. PICK i, j \in 0 .. made : i <= j /\ h = Linked(i) /\ e = Linked(j)
    BY <1>2 DEF Before
  <2>2. i \in 0 .. made' /\ j \in 0 .. made'
    BY NextOfParts
  <2> QED
    BY <1>2, <2>1, <2>2 DEF Before, Linked
<1> QED
  BY <1>1, <1>2

\* A hash is of an executable from before, whichever is there now.
LEMMA BeforeNow ==
  ASSUME TypeOK, NEW v \in {"spike", "oxyspike"}, Executable(v) # Absent,
         NEW h, NEW e, h # Absent
  PROVE  /\ Before(v, Executable(v), Executable(v))
         /\ Before(v, h, h) => Before(v, h, Executable(v))
<1>1. made \in 0 .. made /\ made \in Nat
  BY TypesOfVariables
<1>2. CASE v = "oxyspike"
  BY <1>2, ExecutableTyped DEF Before, Variants
<1>3. CASE v = "spike"
  <2>1. Executable(v) = Linked(made)
    BY <1>3, ExecutableTyped DEF Variants
  <2>2. Before(v, h, h) => \E i \in 0 .. made : h = Linked(i)
    BY <1>3 DEF Before
  <2>3. \A i \in 0 .. made : i <= made
    BY <1>1
  <2> QED
    BY <1>1, <1>3, <2>1, <2>2, <2>3 DEF Before
<1> QED
  BY <1>2, <1>3

LEMMA HashingStep == BuildInv /\ Typed /\ Hashing /\ [Next]_vars => Hashing'
<1> SUFFICES ASSUME BuildInv, Typed, Hashing, [Next]_vars, driver = "optimization", driver' = driver
             PROVE  Hashing'
  BY NextKeepsDriver DEF Hashing
<1> USE AbsentElsewhere
<1>1. /\ TypeOK /\ running \in Contents
      /\ ~ Idle => \A v \in {"spike", "oxyspike"} : hashes[v] \in Executables
      /\ running # Absent => ~ Idle /\ running \in Executables
      /\ ~ Idle => k \in Nat /\ file \in Seq(Rows) /\ file # Absent
      /\ file # Absent => \A n \in DOMAIN file : file[n] \in Rows /\ file[n].ran # Absent
  BY TypesOfVariables, RowsOfFile DEF Typed, TypeOK, Contents, Rows
<1>2. /\ ~ Idle => \A v \in {"spike", "oxyspike"} : Before(v, hashes[v], hashes[v])
      /\ running # Absent => Before(VariantOf(k), hashes[VariantOf(k)], running)
      /\ file # Absent => \A n \in DOMAIN file : Before(file[n].variant, file[n].hash, file[n].ran)
  BY DEF Hashing
<1>3. \A n \in Nat : VariantOf(n) \in {"spike", "oxyspike"}
  BY RunTyped, Pairs
\* What the series knew of its hashes, of the run and of the rows, it still knows.
<1>4. ASSUME ~ Idle, UNCHANGED hashes, NEW v \in {"spike", "oxyspike"}
      PROVE  Before(v, hashes[v], hashes[v])'
  <2>1. PICK h \in Executables : h = hashes[v] /\ Before(v, h, h)
    BY <1>1, <1>2, <1>4
  <2>2. Before(v, h, h)'
    BY <1>1, <2>1, BeforeStays
  <2> QED
    BY <1>4, <2>1, <2>2 DEF Before
<1>5. ASSUME running # Absent, UNCHANGED <<hashes, running, k>>
      PROVE  Before(VariantOf(k), hashes[VariantOf(k)], running)'
  <2>1. VariantOf(k)' = VariantOf(k)
    BY <1>5 DEF VariantOf, Round, Odd, Pair
  <2>2. PICK v, h, e : v = VariantOf(k) /\ h = hashes[v] /\ e = running /\ Before(v, h, e)
    BY <1>2, <1>5
  <2>3. Before(v, h, e)'
    BY <1>1, <1>5, <2>2, BeforeStays
  <2> QED
    BY <1>5, <2>1, <2>2, <2>3 DEF Before
<1>6. ASSUME file # Absent, NEW n \in DOMAIN file, file'[n] = file[n]
      PROVE  Before(file[n].variant, file[n].hash, file[n].ran)'
  <2>1. PICK v, h, e : /\ v = file[n].variant /\ h = file[n].hash /\ e = file[n].ran
                       /\ Before(v, h, e) /\ e # Absent
    BY <1>1, <1>2, <1>6
  <2>2. Before(v, h, e)'
    BY <1>1, <2>1, BeforeStays
  <2> QED
    BY <1>6, <2>1, <2>2 DEF Before
\* Most steps change none of the three, or end the series.
<1>7. CASE /\ file' = file \/ file' = Absent
           /\ UNCHANGED <<k, hashes, running>> \/ (Idle' /\ running' = Absent)
  BY <1>1, <1>4, <1>5, <1>6, <1>7 DEF Hashing, Idle
<1>8. CASE Start
  <2>1. running' = Absent /\ hashes' = Hashed
    BY <1>1, <1>8 DEF Start
  <2>2. ASSUME NEW v \in {"spike", "oxyspike"} PROVE Before(v, hashes[v], hashes[v])'
    <3>1. PICK h : h = Executable(v) /\ h # Absent /\ hashes'[v] = h
      BY <1>8, <2>1, Pairs DEF Start, Present, Hashed
    <3>2. Before(v, h, h)
      BY <1>1, <3>1, BeforeNow
    <3>3. Before(v, h, h)'
      BY <1>1, <3>1, <3>2, BeforeStays
    <3> QED
      BY <3>1, <3>3 DEF Before
  <2>3. file' = <<>> \/ (file' = file /\ file # Absent)
    BY <1>8 DEF Start
  <2>4. DOMAIN <<>> = {}
    BY EmptySeq
  <2> QED
    BY <1>6, <2>1, <2>2, <2>3, <2>4 DEF Hashing
<1>9. CASE Launch
  <2>1. /\ ~ Idle /\ running' = Executable(VariantOf(k)) /\ running' # Absent
        /\ UNCHANGED <<file, k, hashes>>
    BY <1>9 DEF Launch
  <2>2. PICK v \in {"spike", "oxyspike"} : v = VariantOf(k)
    BY <1>1, <1>3, <2>1
  <2>3. PICK h, e : h \in Executables /\ h = hashes[v] /\ e = running'
    BY <1>1, <2>1
  <2>4. Before(v, h, e)
    BY <1>1, <1>2, <2>1, <2>2, <2>3, BeforeNow
  <2>5. Before(v, h, e)'
    BY <1>1, <2>1, <2>3, <2>4, BeforeStays
  <2>6. VariantOf(k)' = v
    BY <2>1, <2>2 DEF VariantOf, Round, Odd, Pair
  <2>7. Before(VariantOf(k), hashes[VariantOf(k)], running)'
    BY <2>1, <2>3, <2>5, <2>6 DEF Before
  <2> QED
    BY <1>4, <1>6, <2>1, <2>7 DEF Hashing, Idle
<1>10. CASE Measured
  <2>1. /\ ~ Idle /\ running # Absent /\ running' = Absent /\ k' = k + 1
        /\ file' = Append(file, Row(VariantOf(k))) /\ UNCHANGED hashes
    BY <1>1, <1>10 DEF Measured
  <2>2. /\ DOMAIN file' = 1 .. Len(file) + 1 /\ DOMAIN file = 1 .. Len(file) /\ Len(file) \in Nat
        /\ \A n \in DOMAIN file : file'[n] = file[n]
        /\ file'[Len(file) + 1] = Row(VariantOf(k))
    <3>1. Row(VariantOf(k)) \in Rows
      BY <1>10, RowTyped DEF Measured
    <3> QED
      BY <1>1, <2>1, <3>1, AppendProperties, LenProperties
  <2>3. ASSUME NEW n \in DOMAIN file', n = Len(file) + 1
        PROVE  Before(file[n].variant, file[n].hash, file[n].ran)'
    <3>1. PICK v, h, e : /\ v = VariantOf(k) /\ h = hashes[v] /\ e = running
                         /\ Before(v, h, e) /\ e # Absent
      BY <1>2, <2>1
    <3>2. Before(v, h, e)'
      BY <1>1, <3>1, BeforeStays
    <3>3. file'[n].variant = v /\ file'[n].hash = h /\ file'[n].ran = e
      BY <2>2, <2>3, <3>1 DEF Row, RowHash
    <3> QED
      BY <3>2, <3>3 DEF Before
  <2>4. \A n \in DOMAIN file' : n \in DOMAIN file \/ n = Len(file) + 1
    BY <2>2
  <2>5. \A n \in DOMAIN file' : Before(file[n].variant, file[n].hash, file[n].ran)'
    BY <1>1, <1>6, <2>1, <2>2, <2>3, <2>4
  <2> QED
    BY <1>4, <2>1, <2>5 DEF Hashing
<1> QED
  BY <1>1, <1>7, <1>8, <1>9, <1>10 DEF Next, SeriesStep, Snapshot, Stop, Finish, Report, Archive, Make,
    vars, seriesVars, Idle

-----------------------------------------------------------------------------
(* What a snapshot tells of the runs after it *)

SnapshotOf(i) == [v \in {"spike", "qemu"} |-> IF v = "spike" THEN Linked(i) ELSE Linked(0)]

\* The executable of v at some time not before the snapshot.
Since(v, e) ==
  IF v = "spike"
  THEN \E j \in 0 .. made : /\ e = Linked(j)
                            /\ \A i \in 0 .. MaxMakes : snapshot = SnapshotOf(i) => i <= j
  ELSE e = Linked(0)

\* There is no snapshot of a Spike yet to be made, and the file begins after it.
Snapshotted ==
  driver = "coremark" =>
    /\ \A i \in 0 .. MaxMakes : snapshot = SnapshotOf(i) => i <= made
    /\ running # Absent => Since(VariantOf(k), running)
    /\ file # Absent => \A n \in DOMAIN file : Since(file[n].variant, file[n].ran) /\ file[n].hash = Absent

\* A snapshot is of one Spike.
LEMMA SnapshotsApart ==
  /\ \A i \in 0 .. MaxMakes : SnapshotOf(i) # Absent
  /\ \A i, j \in 0 .. MaxMakes : SnapshotOf(i) = SnapshotOf(j) => i = j
<1>1. ASSUME NEW i \in 0 .. MaxMakes PROVE SnapshotOf(i) \in [{"spike", "qemu"} -> Executables]
  BY SeriesAssumption DEF SnapshotOf, Linked, Executables
<1>2. ASSUME NEW i \in 0 .. MaxMakes, NEW j \in 0 .. MaxMakes, SnapshotOf(i) = SnapshotOf(j)
      PROVE  i = j
  <2>1. SnapshotOf(i)["spike"] = Linked(i) /\ SnapshotOf(j)["spike"] = Linked(j)
    BY DEF SnapshotOf
  <2> QED
    BY <1>2, <2>1 DEF Linked
<1> QED
  BY <1>1, <1>2, AbsentElsewhere

LEMMA SnapshottedInit == Init => Snapshotted
BY SnapshotsApart DEF Init, SeriesInit, Snapshotted

\* What is hashed of the pair of CoreMark.
LEMMA HashedOfCoreMark ==
  ASSUME TypeOK, driver = "coremark"
  PROVE  Hashed = SnapshotOf(made) /\ made \in 0 .. MaxMakes
BY Pairs, ExecutableTyped, TypesOfVariables DEF Hashed, SnapshotOf, Variants

\* What was so since the snapshot remains so while the snapshot does.
LEMMA SinceStays ==
  ASSUME TypeOK, [Next]_vars, snapshot' = snapshot, NEW v, NEW e, Since(v, e)
  PROVE  Since(v, e)'
<1>1. CASE v = "spike"
  <2>1. PICK j \in 0 .. made : e = Linked(j) /\ \A i \in 0 .. MaxMakes : snapshot = SnapshotOf(i) => i <= j
    BY <1>1 DEF Since
  <2>2. j \in 0 .. made'
    BY NextOfParts
  <2> QED
    BY <1>1, <2>1, <2>2 DEF Since, Linked, SnapshotOf
<1>2. CASE v # "spike"
  BY <1>2 DEF Since, Linked
<1> QED
  BY <1>1, <1>2

LEMMA SnapshottedStep == Typed /\ Snapshotted /\ [Next]_vars => Snapshotted'
<1> SUFFICES ASSUME Typed, Snapshotted, [Next]_vars, driver = "coremark", driver' = driver
             PROVE  Snapshotted'
  BY NextKeepsDriver DEF Snapshotted
<1>1. /\ TypeOK /\ made \in 0 .. MaxMakes /\ made' \in Nat /\ made \in Nat /\ made <= made'
      /\ running # Absent => ~ Idle
      /\ ~ Idle => k \in Nat /\ file \in Seq(Rows) /\ file # Absent
  BY TypesOfVariables, NextOfParts DEF Typed, TypeOK
<1>2. /\ \A i \in 0 .. MaxMakes : snapshot = SnapshotOf(i) => i <= made
      /\ running # Absent => Since(VariantOf(k), running)
      /\ file # Absent => \A n \in DOMAIN file : Since(file[n].variant, file[n].ran) /\ file[n].hash = Absent
  BY DEF Snapshotted
<1>3. ASSUME snapshot' = snapshot
      PROVE  \A i \in 0 .. MaxMakes : snapshot' = SnapshotOf(i)' => i <= made'
  BY <1>1, <1>2, <1>3 DEF SnapshotOf, Linked
<1>4. ASSUME running # Absent, UNCHANGED <<snapshot, running, k>>
      PROVE  Since(VariantOf(k), running)'
  <2>1. VariantOf(k)' = VariantOf(k)
    BY <1>4 DEF VariantOf, Round, Odd, Pair
  <2>2. PICK v, e : v = VariantOf(k) /\ e = running /\ Since(v, e)
    BY <1>2, <1>4
  <2>3. Since(v, e)'
    BY <1>1, <1>4, <2>2, SinceStays
  <2> QED
    BY <1>4, <2>1, <2>2, <2>3 DEF Since
<1>5. ASSUME file # Absent, UNCHANGED snapshot, NEW n \in DOMAIN file, file'[n] = file[n]
      PROVE  Since(file[n].variant, file[n].ran)' /\ file'[n].hash = Absent
  <2>1. PICK v, e : v = file[n].variant /\ e = file[n].ran /\ Since(v, e)
    BY <1>2, <1>5
  <2>2. Since(v, e)'
    BY <1>1, <1>5, <2>1, SinceStays
  <2> QED
    BY <1>2, <1>5, <2>1, <2>2 DEF Since
<1>6. CASE /\ file' = file \/ file' = Absent
           /\ UNCHANGED <<snapshot, k, running>> \/ (snapshot' = snapshot /\ running' = Absent)
  BY <1>3, <1>4, <1>5, <1>6 DEF Snapshotted
<1>7. CASE Snapshot
  <2>1. snapshot' = SnapshotOf(made) /\ UNCHANGED <<made, file, running>> /\ file = Absent
    BY <1>1, <1>7, HashedOfCoreMark DEF Snapshot
  <2>2. \A i \in 0 .. MaxMakes : snapshot' = SnapshotOf(i)' => i <= made'
    <3>1. \A i \in 0 .. MaxMakes : SnapshotOf(i)' = SnapshotOf(i)
      BY DEF SnapshotOf, Linked
    <3> QED
      BY <1>1, <2>1, <3>1, SnapshotsApart
  <2>3. running' = Absent
    BY <1>1, <2>1
  <2> QED
    BY <2>1, <2>2, <2>3 DEF Snapshotted
<1>8. CASE Start
  <2>1. running' = Absent /\ UNCHANGED snapshot
    BY <1>1, <1>8 DEF Start
  <2>2. file' = <<>> \/ (file' = file /\ file # Absent)
    BY <1>8 DEF Start
  <2>3. DOMAIN <<>> = {}
    BY EmptySeq
  <2> QED
    BY <1>3, <1>5, <2>1, <2>2, <2>3 DEF Snapshotted
<1>9. CASE Launch
  <2>1. /\ k \in Nat /\ running' = Executable(VariantOf(k)) /\ UNCHANGED <<file, k, snapshot>>
    BY <1>1, <1>9 DEF Launch
  <2>2. PICK v \in {"spike", "qemu"} : v = VariantOf(k)
    BY <2>1, RunTyped, Pairs
  <2>3. PICK e : e = running' /\ e = Executable(v)
    BY <2>1, <2>2
  <2>4. Since(v, e)
    BY <1>1, <1>2, <2>2, <2>3, ExecutableTyped DEF Since, Variants
  <2>5. Since(v, e)'
    BY <1>1, <2>1, <2>4, SinceStays
  <2>6. VariantOf(k)' = v
    BY <2>1, <2>2 DEF VariantOf, Round, Odd, Pair
  <2>7. Since(VariantOf(k), running)'
    BY <2>3, <2>5, <2>6 DEF Since
  <2> QED
    BY <1>3, <1>5, <2>1, <2>7 DEF Snapshotted
<1>10. CASE Measured
  <2>1. /\ ~ Idle /\ running # Absent /\ running' = Absent
        /\ file' = Append(file, Row(VariantOf(k))) /\ UNCHANGED snapshot
    BY <1>1, <1>10 DEF Measured
  <2>2. /\ DOMAIN file' = 1 .. Len(file) + 1 /\ DOMAIN file = 1 .. Len(file) /\ Len(file) \in Nat
        /\ \A n \in DOMAIN file : file'[n] = file[n]
        /\ file'[Len(file) + 1] = Row(VariantOf(k))
    <3>1. Row(VariantOf(k)) \in Rows
      BY <1>10, RowTyped DEF Measured
    <3> QED
      BY <1>1, <2>1, <3>1, AppendProperties, LenProperties
  <2>3. ASSUME NEW n \in DOMAIN file', n = Len(file) + 1
        PROVE  Since(file[n].variant, file[n].ran)' /\ file'[n].hash = Absent
    <3>1. PICK v, e : v = VariantOf(k) /\ e = running /\ Since(v, e)
      BY <1>2, <2>1
    <3>2. Since(v, e)'
      BY <1>1, <2>1, <3>1, SinceStays
    <3>3. file'[n].variant = v /\ file'[n].ran = e /\ file'[n].hash = Absent
      BY <2>2, <2>3, <3>1 DEF Row, RowHash
    <3> QED
      BY <3>2, <3>3 DEF Since
  <2>4. \A n \in DOMAIN file' : n \in DOMAIN file \/ n = Len(file) + 1
    BY <2>2
  <2>5. \A n \in DOMAIN file' : Since(file[n].variant, file[n].ran)' /\ file'[n].hash = Absent
    BY <1>1, <1>5, <2>1, <2>2, <2>3, <2>4
  <2> QED
    BY <1>3, <2>1, <2>5 DEF Snapshotted
<1> QED
  BY <1>6, <1>7, <1>8, <1>9, <1>10 DEF Next, SeriesStep, Stop, Finish, Report, Archive, Make,
    vars, seriesVars

-----------------------------------------------------------------------------
(* The theorems *)

\* The executable of a variant when the report is made is the one that its rows ran.
LEMMA RanWhatIsThere ==
  ASSUME Typed, Placed, Hashing, Snapshotted, Report, driver \in {"coremark", "optimization"},
         NEW n \in DOMAIN file
  PROVE  file[n].ran = Executable(file[n].variant) /\ file[n].hash \in {Absent, file[n].ran}
<1>1. TypeOK /\ file # Absent /\ made \in 0 .. MaxMakes /\ file[n] \in Rows
  BY TypesOfVariables, RowsOfFile DEF Report, Typed
<1>2. /\ file[n].variant \in Variants /\ file[n].variant \in {Pair[1], Pair[2]}
      /\ file[n].ran # Absent
  <2>1. file[n].variant = VariantOf(n - 1) /\ n - 1 \in Nat
    BY <1>1, RowsOfFile DEF Placed, RowPlaced
  <2> QED
    BY <1>1, <2>1, RunTyped, AbsentElsewhere DEF Rows
<1>3. CASE driver = "optimization"
  <2>1. /\ file[n].hash = Executable(file[n].variant)
        /\ Before(file[n].variant, file[n].hash, file[n].ran)
    BY <1>1, <1>3 DEF Report, BinariesFit, Hashing
  <2>2. CASE file[n].variant = "oxyspike"
    BY <1>1, <1>2, <2>1, <2>2, ExecutableTyped DEF Before, Stale
  <2>3. CASE file[n].variant # "oxyspike"
    <3>1. PICK i, j \in 0 .. made : i <= j /\ file[n].hash = Linked(i) /\ file[n].ran = Linked(j)
      BY <2>1, <2>3 DEF Before
    <3>2. file[n].variant = "spike"
      BY <1>2, <1>3, <2>3, Pairs
    <3>3. Linked(i) = Linked(made)
      BY <1>1, <1>2, <2>1, <3>1, <3>2, ExecutableTyped
    <3>4. i = made /\ j = made
      BY <1>1, <3>1, <3>3 DEF Linked
    <3> QED
      BY <2>1, <3>1, <3>4
  <2> QED
    BY <2>2, <2>3
<1>4. CASE driver = "coremark"
  <2>1. Since(file[n].variant, file[n].ran) /\ file[n].hash = Absent
    BY <1>1, <1>4 DEF Snapshotted
  <2>2. snapshot = SnapshotOf(made)
    BY <1>1, <1>4, HashedOfCoreMark DEF Report, BinariesFit, SnapshotFits
  <2>3. CASE file[n].variant = "spike"
    <3>1. PICK j \in 0 .. made : file[n].ran = Linked(j) /\ made <= j
      BY <1>1, <2>1, <2>2, <2>3 DEF Since
    <3>2. j = made
      BY <1>1, <3>1
    <3> QED
      BY <1>1, <1>2, <2>1, <2>3, <3>1, <3>2, ExecutableTyped
  <2>4. CASE file[n].variant = "qemu"
    BY <1>1, <1>2, <2>1, <2>4, ExecutableTyped DEF Since
  <2> QED
    BY <1>2, <1>4, <2>3, <2>4, Pairs
<1> QED
  BY <1>3, <1>4

\* Every step publishes rows of one binary of each variant, or nothing.
LEMMA OneBinaryStep ==
  Typed /\ Placed /\ Hashing /\ Snapshotted /\ PublishedRowsAreOfOneBinary /\ [Next]_vars
    => PublishedRowsAreOfOneBinary'
<1> SUFFICES ASSUME Typed, Placed, Hashing, Snapshotted, PublishedRowsAreOfOneBinary, [Next]_vars,
                    published' # Absent, driver \in {"coremark", "optimization"}
             PROVE  /\ \A m, n \in DOMAIN published' :
                         published'[m].variant = published'[n].variant
                           => published'[m].ran = published'[n].ran
                    /\ \A n \in DOMAIN published' : published'[n].hash \in {Absent, published'[n].ran}
  BY NextKeepsDriver DEF PublishedRowsAreOfOneBinary
<1>1. CASE UNCHANGED published
  BY <1>1 DEF PublishedRowsAreOfOneBinary
<1>2. CASE Report
  BY <1>2, RanWhatIsThere DEF Report, Publish
<1> QED
  BY <1>1, <1>2 DEF Next, SeriesStep, Snapshot, Start, Launch, Measured, Stop, Finish,
    Archive, Make, vars, seriesVars

\* The inductive invariant of the series.
SeriesInv ==
  /\ BuildInv /\ Typed /\ Placed /\ Hashing /\ Snapshotted
  /\ PublishedSeriesIsWhole /\ PublishedRowsAreOfOneBinary

LEMMA SeriesInvInit == Init => SeriesInv
<1> SUFFICES ASSUME Init PROVE SeriesInv
  OBVIOUS
<1>1. BuildInv
  BY BuildInitInv DEF Init
<1>2. PublishedSeriesIsWhole /\ PublishedRowsAreOfOneBinary
  BY DEF Init, SeriesInit, PublishedSeriesIsWhole, PublishedRowsAreOfOneBinary
<1> QED
  BY <1>1, <1>2, TypedInit, PlacedInit, HashingInit, SnapshottedInit DEF SeriesInv

LEMMA SeriesInvStep == SeriesInv /\ [Next]_vars => SeriesInv'
<1> SUFFICES ASSUME SeriesInv, [Next]_vars PROVE SeriesInv'
  OBVIOUS
<1>1. BuildInv'
  BY NextOfParts, BuildStepInv DEF SeriesInv, Typed
<1>2. Typed'
  BY <1>1, TypedStep DEF SeriesInv, BuildInv
<1> QED
  BY <1>1, <1>2, PlacedStep, HashingStep, SnapshottedStep, WholeStep, OneBinaryStep DEF SeriesInv

LEMMA SeriesInvariant == Spec => []SeriesInv
BY SeriesInvInit, SeriesInvStep, PTL DEF Spec

\* Builds and series are well typed, whatever fails, is killed or is rebuilt between.
THEOREM TypesHold == Spec => []TypeOK
<1>1. SeriesInv => TypeOK
  BY DEF SeriesInv, Typed
<1> QED
  BY <1>1, SeriesInvariant, PTL

\* A variant with provenance is the whole executable of one build from three complete
\* boots, for every number of builders of the name.
THEOREM ProvenanceIsTrue == Spec => []ProvenanceHolds
<1>1. SeriesInv => ProvenanceHolds
  BY DEF SeriesInv, BuildInv
<1> QED
  BY <1>1, SeriesInvariant, PTL

\* A published series has every variant once in every measured round, for every number
\* of rounds, of warm-up rounds and of attempts.
THEOREM PublishedSeriesHoldEveryRound == Spec => []PublishedSeriesIsWhole
<1>1. SeriesInv => PublishedSeriesIsWhole
  BY DEF SeriesInv
<1> QED
  BY <1>1, SeriesInvariant, PTL

\* The rows published of a variant are all of one executable, that of their hash.
THEOREM PublishedVariantsAreOneBinary == Spec => []PublishedRowsAreOfOneBinary
<1>1. SeriesInv => PublishedRowsAreOfOneBinary
  BY DEF SeriesInv
<1> QED
  BY <1>1, SeriesInvariant, PTL

\* When rows are published the log of each is the whole log of its own run.
THEOREM PublishedRowsHaveTheirLogs == Spec => PublishedLogsAreOfTheirRuns
<1>1. SeriesInv /\ [Next]_vars =>
        [published' # published /\ driver # "boot" =>
           \A n \in DOMAIN published' :
             logs[<<published'[n].variant, published'[n].index>>]
               = [attempt |-> published'[n].attempt, whole |-> TRUE]]_vars
  BY LogsStep DEF SeriesInv
<1> QED
  BY <1>1, SeriesInvariant, PTL DEF Spec, PublishedLogsAreOfTheirRuns

\* No build touches a whole executable: only its removal by the user ends it.
LEMMA WholeOutputStep ==
  BuildInv /\ [BuildNext]_buildVars =>
    [output # Absent /\ output.whole => output' = output \/ RemoveName]_buildVars
<1> SUFFICES ASSUME BuildInv, [BuildNext]_buildVars, output # Absent, output.whole
             PROVE  output' = output \/ RemoveName
  OBVIOUS
<1>1. ASSUME NEW b \in Builders, BeginCopy(b) PROVE FALSE
  BY <1>1 DEF BeginCopy, BuildInv, BuilderInv
<1>2. ASSUME NEW b \in Builders, EndCopy(b) PROVE FALSE
  <2>1. output = [by |-> b, whole |-> FALSE]
    BY <1>2 DEF EndCopy, BuildInv, BuilderInv
  <2>2. output.whole = FALSE
    BY <2>1
  <2> QED
    BY <2>2
<1> QED
  BY <1>1, <1>2 DEF BuildNext, Build, CheckOutput, MakeWork, BuildTrainer, Train, MergeAndUse, Record,
    Fail, RemoveWork, buildVars

THEOREM WholeExecutablesStay == Spec => WholeOutputsStay
<1>1. SeriesInv /\ [Next]_vars =>
        [output # Absent /\ output.whole => output' = output \/ RemoveName]_buildVars
  BY NextOfParts, WholeOutputStep DEF SeriesInv, Typed
<1> QED
  BY <1>1, SeriesInvariant, PTL DEF Spec, WholeOutputsStay
=============================================================================
