-------------------------------- MODULE Pgo --------------------------------
(***************************************************************************)
(* scripts/build-oxyspike-pgo.py: builds of OxySpike that train a profile  *)
(* on complete Linux boots and use it, under one variant name.  Any of the *)
(* builders may fail or be killed at any step, and others may be started   *)
(* at the same time.                                                       *)
(*                                                                         *)
(* The name stands for two paths: the work directory, which holds all but  *)
(* the executable, and the executable, which the benchmark drivers run     *)
(* from build/oxyspike-variants.                                           *)
(***************************************************************************)
EXTENDS Integers, Sequences

CONSTANTS Builders, Absent

\* Absent is a value apart: a file or a directory that does not exist.
ASSUME BuildersAssumption ==
  Absent \notin Builders \cup [by : Builders, whole : BOOLEAN]
                \cup [by : Builders, raw : Seq(BOOLEAN)]

TRAINING == 3

VARIABLES
  pc,           \* of each builder
  raw,          \* profiles of the training runs in the work directory: complete boots?
  work,         \* the builder that made the work directory, or Absent
  output,       \* the executable: [by, whole], or Absent
  provenance    \* in the work directory: [by, raw], or Absent

buildVars == <<pc, raw, work, output, provenance>>

Steps == {"mkdir", "train", "boot", "merge", "copy", "copying", "record"}
Stopped == {"new", "refused", "failed", "done"}

BuildInit ==
  /\ pc = [b \in Builders |-> "new"]
  /\ raw = <<>>
  /\ work = Absent /\ output = Absent /\ provenance = Absent

Goto(b, step) == pc' = [pc EXCEPT ![b] = step]

\* The name is refused when its executable exists, or its work directory does.
MayUseUnfinished == output = Absent \/ provenance = Absent
MayUseName == output = Absent
CheckOutput(b) ==
  /\ pc[b] = "new"
  /\ Goto(b, IF MayUseName THEN "mkdir" ELSE "refused")
  /\ UNCHANGED <<raw, work, output, provenance>>

MakeWorkOrReuse(b) ==
  /\ pc[b] = "mkdir"
  /\ work' = b /\ raw' = raw /\ Goto(b, "train")
  /\ UNCHANGED <<output, provenance>>
MakeWork(b) ==
  /\ pc[b] = "mkdir"
  /\ IF work = Absent
     THEN work' = b /\ raw' = <<>> /\ Goto(b, "train")
     ELSE Goto(b, "refused") /\ UNCHANGED <<work, raw>>
  /\ UNCHANGED <<output, provenance>>

BuildTrainer(b) ==
  /\ pc[b] = "train"
  /\ Goto(b, "boot")
  /\ UNCHANGED <<raw, work, output, provenance>>

\* A training run whose log lacks readiness or shutdown ends the build, as one that
\* fails does; its profile stays behind.
TrainedByExitCode(complete) == TRUE
Trained(complete) == complete
Train(b) ==
  /\ pc[b] = "boot"
  /\ \E complete \in BOOLEAN :
       /\ raw' = Append(raw, complete)
       /\ Goto(b, IF ~ Trained(complete) THEN "failed"
                  ELSE IF Len(raw') < TRAINING THEN "boot" ELSE "merge")
  /\ UNCHANGED <<work, output, provenance>>

\* llvm-profdata, and the build that uses its result.
MergeAndUse(b) ==
  /\ pc[b] = "merge"
  /\ Goto(b, "copy")
  /\ UNCHANGED <<raw, work, output, provenance>>

\* copy2 fills the executable in place.
BeginCopy(b) ==
  /\ pc[b] = "copy"
  /\ output' = [by |-> b, whole |-> FALSE]
  /\ Goto(b, "copying")
  /\ UNCHANGED <<raw, work, provenance>>
EndCopy(b) ==
  /\ pc[b] = "copying"
  /\ output' = [by |-> b, whole |-> TRUE]
  /\ Goto(b, "record")
  /\ UNCHANGED <<raw, work, provenance>>

Record(b) ==
  /\ pc[b] = "record"
  /\ provenance' = [by |-> b, raw |-> raw]
  /\ Goto(b, "done")
  /\ UNCHANGED <<raw, work, output>>

\* A command fails or takes too long, or the builder is killed.
Fail(b) ==
  /\ pc[b] \in Steps
  /\ Goto(b, "failed")
  /\ UNCHANGED <<raw, work, output, provenance>>

\* The user removes what a builder left: the work directory, or all of the name.
Quiescent == \A b \in Builders : pc[b] \in Stopped
RemoveWork ==
  /\ Quiescent /\ work # Absent
  /\ work' = Absent /\ raw' = <<>> /\ provenance' = Absent
  /\ UNCHANGED <<pc, output>>
RemoveName ==
  /\ Quiescent /\ output # Absent
  /\ output' = Absent /\ work' = Absent /\ raw' = <<>> /\ provenance' = Absent
  /\ UNCHANGED pc

Build(b) ==
  \/ CheckOutput(b) \/ MakeWork(b) \/ BuildTrainer(b) \/ Train(b) \/ MergeAndUse(b)
  \/ BeginCopy(b) \/ EndCopy(b) \/ Record(b) \/ Fail(b)
BuildNext == (\E b \in Builders : Build(b)) \/ RemoveWork \/ RemoveName

-----------------------------------------------------------------------------
(* Properties *)

Profiles == UNION {[1 .. n -> BOOLEAN] : n \in 0 .. TRAINING}
BuildTypeOK ==
  /\ pc \in [Builders -> Steps \cup Stopped]
  /\ raw \in Profiles
  /\ work \in Builders \cup {Absent}
  /\ output \in [by : Builders, whole : BOOLEAN] \cup {Absent}
  /\ provenance \in [by : Builders, raw : Profiles] \cup {Absent}

\* A variant with provenance is what it says: the whole executable of one build whose
\* profile is three complete boots, whatever other builds of the name did or left.
ProvenanceHolds ==
  provenance # Absent =>
    /\ output = [by |-> provenance.by, whole |-> TRUE]
    /\ provenance.raw = [n \in 1 .. TRAINING |-> TRUE]

\* No step of a build changes an executable that is whole: only the user removes it.
WholeOutputsStay ==
  [][output # Absent /\ output.whole => output' = output \/ RemoveName]_buildVars
=============================================================================
