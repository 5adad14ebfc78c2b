# Verification of OxySpike and its measurements

The repository compares three RISC-V simulators. One of them, OxySpike
(`oxyspike/`), is its own program: a safe-Rust interpreter of one RV64 hart that
boots Linux. The other half are the Python scripts that build it, validate it,
measure all three and turn the measurements into reports. This directory holds
TLA+ models of OxySpike's stateful parts, of its integer executors, and of the
scripts that measure and build, with the TLC instances that check them and the
proofs that TLAPS checks.

Why OxySpike needs this: almost everything it does to be fast is a way of *not*
looking. It does not check for interrupts unless something raised a flag, does not
walk page tables or check PMP on a TLB hit, does not fetch on a decode-cache hit,
does not look at `tohost` unless a store touched it, and delivers input only at
ticks. Each shortcut is right only if every event that could change the answer is
accounted for, over any sequence of legal steps, and a test reaches few of them.

Why the scripts need it: what they publish is taken on their word. A sample is
accepted by what was read from a pipe, beside processes that hang, crash or die
alone; a series takes an hour in which executables can be rebuilt; a profile-guided
build that fails leaves files that the next one finds. None of this has a test.

## 1. Inventory

| Component | Source | State | Operations |
| --- | --- | --- | --- |
| Interrupts and traps | `privileged.rs`, `status.rs` | `csrs`, `privilege`, `pc`, `interrupt_dirty` | `poll_interrupt`, `interrupt`, `take_trap`, `csr_read`, `csr_write`, xRET, WFI |
| CLINT | `memory.rs` | `mtime`, `mtimecmp`, `msip` | `store_clint`, `advance_time` |
| Translation | `mmu.rs`, `privileged.rs` | three TLBs, PMP registers, `satp`, mstatus.{SUM,MXR,MPRV,MPP}, menvcfg.PBMTE | `cached_translate`, `translate`, `pmp_check`, `load_virtual`, `store_virtual`, the split accesses, `flush_translation` |
| Decode cache | `decode_cache.rs` | 65536 entries, `decode_epoch`, `decode_satp` | `execute_cached`, `fetch_decode_miss`, `flush_instruction` |
| Platform loop | `main.rs` | `until_tick`, the turn | tick, poll, step or trap |
| HTIF console | `main.rs`, `memory.rs` | bounded channel, `pending_reads`, `tohost`, `htif_pending`, `fromhost` | the input thread, delivery, requests |
| Atomics and cache blocks | `lib.rs`, `mmu.rs` | `reservation`, RAM | LR, SC, AMO, CBO, split stores |
| Counters | `lib.rs`, `privileged.rs` | `cycles`, `retired`, `counter_written`, mcountinhibit | `step`, CSR writes |
| Integer executors, bit manipulation | `lib.rs`, `fast.rs`, `bitmanip.rs` | registers | decode and arithmetic, twice |
| Integer validation | `test-oxyspike-integer.py` | the guest's loop | oracle, layouts, verdict |
| Sampling of one run | `benchmark.py`, `benchmark-coremark.py`, `measure-host-counters.py` | processes, pipes, time stamps, log | launch, read, control perf, time out, reap, clean up, accept |
| Series and reports | the drivers above, `benchmark-optimization.py`, `coremark-provenance.py`, `report*.py` | output file, hashes, snapshot | rounds, rows, assertions, publication |
| Profile-guided build | `build-oxyspike-pgo.py` | work directory, executable, provenance | train, merge, copy, record |
| Compressed decoder, floating point | `compressed.rs`, `floating.rs`, `softfloat.rs` | `f`, `fcsr` | decode, rounding, flags |
| ELF loader | `elf.rs` | RAM, once | validation and loading |
| Other scripts | `scripts/` | files | compilers, filters, fixed-input tests |
| Spike experiments | `results/round2`, `tests/` | Spike's caches | fetch regime, status TLB, console poll |

How they interact. There is one hart and it is sequential: the loop in `run` calls
`advance_time`, `poll_interrupt`, `step` and `take_trap` in this order and then
serves HTIF. The parts share state rather than messages: a CSR write reaches the
interrupt logic, the TLBs and the decode cache; a store reaches RAM, page tables,
instructions, the CLINT and `tohost`. The only concurrency inside the simulator is the
thread that reads standard input and hands bytes to the loop through a
`sync_channel(1024)`. The scripts run simulators as child processes, read them
through a pipe, talk to perf through two more, and hand results to each other as files.

What is hard, then: in the simulator, stale cached or checked values (the flag, the
TLB, the decode cache, the pending flag of HTIF), long sequences of privileged
operations (nested traps, delegation, locked PMP), the two threads of the console,
wraps (time, the epoch), equality and boundaries (the timer, PMP regions that end
within a page), and that things happen at all (a timer fires, a read is answered). In
the scripts, other processes that stop, hang or run ahead, answers that do not come,
what is left behind by an attempt that was cut short, and files that change between
the moment they are hashed and the moment they are used.

What makes each component correct is stated next to its module in section 3;
`PROJECT.json` lists the main hazards, at their lines, with the properties that answer
them and a note for one that no property covers; section 6 has the lesser ones.

## 2. Plan

Done, in this order: Hart (most of the shortcuts meet in the dirty flag), DecodeCache,
Mmu, Htif with the abstract Console, Loop (which composes the hart with the driver),
Atomics, Counters; then Capture, Pgo and Series (which composes the builds with the
series that run their results), IntegerUnit and IntegerVectors.

Left, the most valuable first:

1. **Fetch and decode**: parcels, long encodings, page-crossing instructions, composed
   with Mmu and DecodeCache into one module that instantiates both, so that `code`
   of DecodeCache becomes what Mmu answers.
2. **More pure algorithms** for TLC: compressed immediates, softfloat at a small format
   against exact rationals, the ELF tables.
3. **Spike's cached fetch regime** and console poll (`results/round2/round2.patch`),
   with Spike itself external.
4. **Composition**: Atomics with the translation of Mmu in place of its abstract
   mappings; Counters in the turn of Loop.
5. **Theorems**: every safety property of the runs has one; what is left is the
   assumption on powers and on the bit operations, which a library of arithmetic with
   induction would discharge.

## 3. Modules

`X.tla` is the model, `MCX.tla` with `MCX_*.cfg` its instances, `XProofs.tla` its proofs
(those of Atomics and IntegerVectors are together in `InstructionProofs.tla`, those of
Loop in `HartProofs.tla`).

### Hart

The state is `csrs` (the trap and interrupt CSRs by name, bit masks as sets of bit
numbers), `privilege`, `pc`, the CLINT and `interrupt_dirty`. The actions are the
calls a host may make of `Cpu`, in any order: one instruction (CSR accesses, MRET,
SRET, WFI, CLINT stores, anything else), the trap of a failed step, `interrupt`,
`poll_interrupt`, `advance_time`.

- `CleanPollIsEager`: while the flag is down, an eager check would take nothing and
  leave `mip` as it is. `tests/privileged.rs` samples this; here it is every state.
- `TrapSavesContext`, `TrapsNeverLowerPrivilege`, `InterruptNestsUpward`: what a
  handler relies on, through nesting and delegation.
- `SupervisorConfined`: nothing executed below machine mode changes machine state.

### Loop

Hart in the order of `run`: tick, poll, then the instruction or its trap unless the
poll took an interrupt. `PreciseInterrupts`: when an instruction runs, no enabled
interrupt is pending and `mip` is current. `TimerFires`: once the guest leaves the
timer registers alone, an enabled timer interrupt is taken or disabled.

### Mmu

Physical addresses count 4-byte granules, the unit of PMP bounds. Page tables are
real memory, walked level by level; `pmp_check` is written out with its four modes
and its first-match rule; the caches are direct-mapped with the tag of
`cached_translate`. Instructions reach the model by what they do to this state, so
a trap is a change of privilege and of MPP. An address a guest stores page tables
to goes through `StorePte` without its own translation: where it may be stored is
the guest's affair, that the caches survive it is the point. A PMP entry's address
and the guard of `satp` and SFENCE under TVM are the parts of the CSR file taken
widest: TVM only makes them illegal.

- `TlbCoherent`: a hit answers what a walk would, permissions and PMP included, over
  the page tables at some time since the last flush (which is all a hardware TLB
  promises): `tables` is the history variable for that.
- `EntriesAnswer`: the same of every entry in the context of its own tag; this is the
  inductive form.
- `LockedPmpImmutable`: a locked region keeps its permissions and both its bounds.

### DecodeCache

`code[satp][privilege][pc]` is what a fetch would find; every event that changes it
is an action, and `fetchable` remembers what fetches could have found since the last
fence. `HitIsFetchable`: an instruction that runs without a fetch is one a fetch
could have found. `EntriesAreFetchable` is the inductive form: it says of every
entry what `HitIsFetchable` says of the current one, and that no entry carries an
epoch still to come.

### Htif and Console

The loop's turn in its steps (`phase`), with the input thread running between any
two; the guest stores any request and takes bytes at any time. `InputInOrder`: bytes
are neither lost, doubled nor reordered. `RequestsServed`: no request outlives its
turn. `TypeOK` says of `tohost` besides its type that it is empty outside that turn and
never full with the flag down. `ImplementsConsole`: the whole implements `Console.tla`,
four operations on an input, a count of reads and a mailbox, with `WF(Deliver)`: a read
is answered.

### Atomics

Threads and a machine-mode handler run on one hart, and every instruction that writes
memory is an action. A word is a page and an offset; a mapping gives a thread's virtual
page its page and the offsets it may read and write, which stands for page tables and
PMP together. `Trap` is a failed step or an interrupt, and carries the memory the step
leaves: a store that crosses into a page it may not write has committed its first part.
`links` is the history against which SC is judged. The handler stands for all system
software and addresses memory physically; it is assumed to conclude its own LRs before
it resumes a thread (as Linux does with an SC), because xRET keeps the reservation.

- `ScPairsWithOwnLr`: an SC succeeds only after an LR of the same place by the same
  context with no store of another context to it in between, across traps and switches.
- `WritesPermitted`: a step of a thread changes only what it may write. `cbo.zero` is
  excepted by name: it translates one byte and clears the block around it.
- `StoresAreComplete`: a store that retires, in one part or two, is all in memory.
The arithmetic of words is in `WordValues.tla`, apart from the memory.

What is abstracted: a store narrower than a word is a store of the word; illegal
encodings and disabled extensions are traps; the bit operations are constants,
given in `MCAtomics` and declared in `Bits`, which the integer executors share; the host's write to `fromhost` is not a context.

### Counters

A step executes and then counts; `phase` separates the two because a CSR write in the
first decides what the second does. `written` and `completed` say what a counter
should be from outside: the last write plus the instructions completed since.
`CountsInstructions`: the counter is that at every instruction boundary, whatever
was written and inhibited on the way. `CountsOwed` is its inductive form.

### IntegerUnit and IntegerVectors

`IntegerUnit` has the arithmetic of both executors: `execute` for the original one
(`lib.rs`, `bitmanip.rs`) and `execute_decoded` for the predecoded one (`fast.rs`), at
registers of `XLEN` bits whose word, half and byte keep their order. Where the code goes
over the bytes of a register, the result is the register value that has these bytes
(`of_bytes`, `swap_bytes`). `IntegerVectors` is the validation script: its oracle on Python's unbounded integers, and its guest, a
loop that loads a vector, executes an instruction in one of the script's register
layouts, compares, and at last reports through `tohost`. One loop, any of them, stands
for the guest program, since each sets every register it reads.

- `OxySpikeAgrees`: the Rust arithmetic is the oracle's, overlapping registers and x0
  included; where the two languages differ (division, shifts, signs) they differ alike.
- `DecodedAgrees`: the predecoded executor computes what the original one does.
- `AmosAreOnWords`: an AMO.W, computed on sign-extended values, is the operation on words.
- `EveryVectorIsCompared`: the script passes only when the loop has left nothing out.

`MCIntegerVectors` gives the bit operations by the community module Bitwise, for every
pair of the 256 register values, and TLC checks that they work on each bit on its own
and add up numbers without a bit in common, as the proofs assume.

### Capture

One sample, by one of three scripts. The processes are the script, the simulator
and, for host counters, perf, which has launched the simulator. A simulator prints the
lines of a plan, each in two halves so that a read can cut a marker in two; it may
crash anywhere, hang (nothing obliges it to step) and close its console before it can be
waited for. perf may die alone or never answer, and does not pass on that a signal ended
its child. The script's actions follow its loop: the deadline at the head, the control
command, `select`, the read with its markers and time stamps, the end of the file, the
wait, the `finally` clauses, the acceptance. `fault` remembers whether anything outside
the script went wrong, `measured` in which phase of the guest the counters have run.

- `AcceptedIsComplete`: an accepted sample is a simulator that printed everything and
  ended, and its log holds all of it.
- `RejectedForCause`: nothing is rejected without a cause; a marker cut by a read is found.
- `LeavesNothing`: no process, no open pipe and no missing log, however a run ends. The
  two exceptions are by name: when perf dies alone, its simulator is not killed; and the
  boot script leaves its end of the console to the interpreter (`Unclosed`).
- `WindowSlack`: the counters of an accepted sample saw the workload, and at most what the
  guest did after printing the end marker and before the script read it.
- `Terminates`: every run ends.

### Pgo and Series

`Pgo` is the build script, run by several builders at once under one name. `raw` says of
each training profile in the work directory whether its boot was complete; the copy of
the executable takes two steps; any step may be the last. A user removes what was left
only when no builder is at work. `Series` adds the series and the reports of four pairs
of scripts, which differ in when they hash, what they refuse and what they publish. An
executable stands for its hash: a Spike build is the number of times it was made, an
OxySpike variant is what Pgo left under the name, half-copied files included. Rows keep
the executable that ran (`ran`) and the attempt beside the hash the script wrote down;
`logs` has of each log the attempt that wrote it and whether it shows a complete run.

- `ProvenanceHolds`: a provenance record means the whole executable of one build,
  trained on three complete boots.
- `WholeOutputsStay`: no build touches an executable that is whole.
- `PublishedSeriesIsWhole`: a report is of one series, each variant once in each round.
- `PublishedRowsAreOfOneBinary`: rows of a variant are of one executable, the hashed one,
  although Spike is relinked and the variant rebuilt meanwhile.
- `PublishedLogsAreOfTheirRuns`: a log is named by variant and round, so attempts write
  over each other's; when a report is published, each row's log is that of its own run.

## 4. Runs

| Run | Bounds | Why they are enough |
| --- | --- | --- |
| `hart_traps` | codes 2, 8, 9; two pcs; all of mstatus | two modes nested in each other, every CSR written with set, clear and write |
| `loop_timer` | tick every 2 attempts; timer registers of two binary digits; MSI, MTI, delegated SEI | a tick with and without due timer, before and after the wrap; comparator and time spliced at every offset; every pair of priority, delegation and mask |
| `decodecache_wrap` | 2 pcs on 1 entry, 2 spaces, 2 privileges, epochs 0..3 | conflicts, every pair of contexts, the wrap after three flushes |
| `mmu_context` | 2-level tables of 2 entries, 6 pages, 1 TLB entry, loads | two spaces that share a table, a user page, an executable-only page, every SUM, MXR, MPRV |
| `mmu_pmp` | 2 PMP entries, pages of 4 granules, stores, one entry with a memory type | all four modes, regions that end inside a page, a locked TOR above an unlocked address; stores to tables between flushes; PBMTE on and off |
| `htif_console` | 3 bytes, channel of 1, tick every 2, 6 requests, `READS_MAX = 2` | the thread waits for room, reads pile up to the limit, each way of ending |
| `atomics_memory` | 1 thread and the handler; 3 words of RAM on 2 pages of 2; 1-bit words; mappings absent, read-only or writable in part; swap, `cbo.zero` | both parts of a split store permitted, denied and outside RAM; aliases; a block that reaches past RAM or past what the thread may write; an LR of each context on the same and other places |
| `counters_steps` | counters wrap after three; writes of 0 and 2 | a write at the wrap, inhibition before, with and after it |
| `integer_layouts` | registers of 8 bits, words of 4, halves of 3, bytes of 2; 20 edges with each other and 3 other pairs; every layout | 0, 1, the shift amounts around each width, both signs' extremes at both widths, so every corner of division and every amount of a shift |
| `capture_samples` | the 3 scripts; 8 plans: the two init scripts and 6 ways they go wrong; a pipe of 5 lines | every way of cutting the text into reads, a full pipe, a fault at every point of the script, the simulator and perf |
| `capture_window` | the counters' script, otherwise as above | the finding below |
| `series_reports` | 4 drivers, 2 rounds after 1 warm-up, 2 attempts, Spike made twice, 2 builders | an attempt cut short anywhere before another, a rebuild between any two steps, two builds of one name interleaved |

`CHECK_DEADLOCK FALSE` is set where the system stops: `htif_console` and `loop_timer`
(exit, error, limit; a trap before a vector is set), the two runs of Capture and
`integer_layouts` (the script ends), `series_reports` (the attempts are used up).

Counters are capped only where a configuration names it: `MaxRequests` bounds the
guest's requests, `MaxStarts` and `MaxMakes` the series begun and the Spike builds
made, `TimeSpan` and `EpochMod` are moduli that stand for 2^64, `READS_MAX` for the
largest `usize`, `Word` and `CounterSpan` are the moduli of a memory word and of a
counter, and `PIPE` is the kernel's pipe buffer in half lines. `Symmetry` of
`series_reports` permutes the builders, whose names decide nothing.

**Fairness.** `Htif` assumes weak fairness of the input thread and of the main
thread: two operating-system threads, of which the loop never blocks and the other
blocks only on a full channel or on the user, who is assumed to type the whole input.
`Loop` assumes weak fairness of its own next step. Nothing is assumed of the guest:
it may never read, never arm a timer, trap for ever. `Capture` assumes weak fairness of
the script, a process the system schedules, and strong fairness of its deadline: the
loop passes its head again and again, at the latest when `select` returns after its own
timeout, and the clock advances meanwhile. It assumes nothing of the simulator or perf.
The other modules have no fairness and no liveness.

## 5. Proofs

All are for every value of the constants, under the assumptions each module names
with `ASSUME`.

- `HartProofs`: `TypeCorrect`; `CleanPoll` (the invariant is inductive with the types:
  each action either raises the flag or leaves alone everything the check reads);
  `SupervisorIsConfined`, from the types, one action at a time.
  `TrapsSaveContext`, `TrapsKeepPrivilege` and `InterruptsNestUpward` follow from what
  `take_trap` does to the fields of mstatus in each mode (`MachineEntryFields`,
  `SupervisorEntryFields`), which is the same for exceptions and for interrupts since
  refreshing mip leaves mstatus alone (`TrapStepContext`).
  `LoopRunsTheHart` shows that the loop's steps are steps of Hart, so that these theorems
  carry over to Loop; `InterruptsArePrecise` adds to `CleanPollIsEager` that the flag is
  down whenever an instruction is about to run.
- `DecodeCacheProofs`: `TypeCorrect`; `EntriesStayFetchable` by induction, then `CacheIsCoherent`, which
  needs in addition that a switch of `satp` seen late counts as a flush.
- `MmuProofs`: `EntriesStayCorrect` by induction over `EntriesAnswer`, the core being that
  PMP granting a whole page grants every part of it (`PmpOfPart`) and that no write
  except those that flush changes a walk in the context of a tag; `TlbIsCoherent`
  follows since a hit's tag is the present context. `TlbCoherent` itself is not
  inductive: it says nothing of entries of other contexts, which a context switch
  turns into hits. `LockedPmpStays` splits on the mode of the entry above.
- `HtifProofs`: `TypeCorrect`; `InputArrivesInOrder`, where each step moves a byte from the
  front of one sequence to the back of the one before it; `RequestsAreServed` from
  `Accounted`, which says what is asked and not done at *every* phase: it is exactly
  the request in `tohost`; `StepsOfAConsole`, the safety half of the refinement.
- `InstructionProofs`, of Atomics: `TypeCorrect`; `ReservationsAreOwn`, the inductive
  invariant that a reservation is the running context's own link, for which the trap's
  clearing and the handler's convention are both needed; `ScSucceedsOnOwnLr` follows from
  it. `WritesArePermitted` and `StoresComplete` hold of each step from the types, split by
  instruction.
  Of IntegerVectors: `ExecutorsAgreeOnVectors`, since a word form is a sign extension of
  something congruent to what the predecoded operation extends (`WordOfWrapped`,
  `SignedWordOf`), and an arithmetic shift stays in the range of words (`DividedStays`);
  `AmosOfRegistersAreOnWords`, since sign extension keeps the order of words, signed and
  unsigned; `SuccessComparesEveryVector` by `ScriptInv`, in which vectors compared and
  left add up and the loop ends only when none is left; the property alone is not
  inductive, since it says nothing of a guest that has not answered yet.
  `ExecutorsAgreeWithTheOracle` is the largest: for every instruction of the test, at every
  width, `execute` and the oracle are the same number in a register
  (`EveryGroupAgrees`), for which each kind of instruction has its lemma:
  - a number is its bits (`SameValues`, `SumOfValues`), which gives the single-bit
    operations, the complements that Python takes of unbounded numbers (`OrNot`,
    `XorNot`, `WrappedNot`) and the rotations, where an OR of parts is a sum
    (`Rotations`);
  - the lowest bit that is set stands alone in `a & -a` (`LowestBitAlone`), and the
    powers that divide a number or exceed it are counted by it and by the bit length
    (`TrailingZeros`, `LeadingZeros`);
  - the signed reading of a number is the one in the range of its width that is
    congruent to it (`SignedOf`), so truncating division with its one overflow is the
    oracle's, wrapped (`DivisionAgrees`, `WordDivisionAgrees`);
  - every choice of bytes is the value of one register (`NumberWithBytes`).

  `VectorAgrees` takes this to the guest: in each layout, also where destination and
  sources coincide or are x0, the instruction leaves in its destination what the script
  expects of it. The inductive invariant `AgreeInv` says that x0 is zero, that `t3` is the
  expected value of the operands *before* the instruction and equals the destination
  *after* it; the property says only that no difference is reported.
  Where a fact is one about all widths up to a width, the induction is over the set of
  widths for which it holds (`LeastOf`, `InductionOnSets`, from the well-foundedness of
  the natural numbers). Assumed are that powers are positive and multiply, of which the
  provers know nothing, and of the operations on bits that they work on each bit of
  a register on its own and that an OR of numbers without a bit in common is their sum.
- `CountersProofs`: `TypeCorrect`; `CountersCountInstructions` through `CountsOwed`, which
  adds what holds between execution and counting: a counter owes the step exactly if
  nothing suppresses it. `OneMore` is the modular arithmetic under it.
- `CaptureProofs`: `TypeCorrect`, with `Quiet`: the control pipes are empty between
  commands, so that no stale answer can acknowledge a later command.
  `AcceptedSamplesAreComplete` and `NothingIsLeft` through `IInv`: what each exit status
  says of the processes (`Children`), what the script knows after its loop and its wait
  (`Caught`), what `finally` leaves (`CleanedUp`). No part is inductive alone: that all
  was read at the end of the file needs that nobody holds the console any more, which
  is about the processes. The step from perf's status to the simulator's end needs the
  last line (`DownIsLast`). `WindowHasSlackOfOneControl` adds that the script's stamps
  say what has been read (`Noted`), which command is under way (`Commanded`) and where
  the counters can have run so far (`Within`).
  `RejectionsHaveACause` is the converse of acceptance, by `CInv`: without a fault every
  process ends well (`Faultless`), so what is judged is the whole text with a good
  status (`Settled`), a rejection is that judgement (`Refused`), and the stamps are in
  the order of what they stamp (`Ordered`); `WorkloadText` then works the tests of the
  scripts out for the guest's own plan.
- `SeriesProofs`, of Pgo and Series: the inductive invariant `SeriesInv` has a part for
  each question, and each property follows from its part with the types.
  `BuildInv` says for each builder what its place in the script implies: at work, it owns
  the work directory and there is no provenance; it leaves an executable only once it
  copies. No two builders are at work therefore, from which `ProvenanceIsTrue` and
  `WholeExecutablesStay` follow.
  `Placed` says of a file that its driver refuses to add to that row n is of the n-th run
  of the last series, so that rows differ in variant or round (`RunsApart`), and that the
  log under the row's name is the one that run left; `PublishedRowsHaveTheirLogs` follows.
  `PublishedSeriesHoldEveryRound` then is a count for the script that publishes its own
  rows when it ends, and a pigeonhole argument for the reports, which only count the rows
  of a file (`RowByCounting`): as many different rows as rounds are one of each.
  `Hashing` and `Snapshotted` say what a hash or a snapshot taken before the runs is worth:
  an executable that was replaced since does not return (`Stale`, `Before`, `Since`), so
  one that is found again at publication was there in every run between. They speak of
  the run in progress and of the open series too, before there is any row.
  Assumed is that a missing file is none of the builders, executables, logs and rows.

Model-checked only: liveness (`TimerFires`, `Terminates`, and the fairness of
`ImplementsConsole`) and with it anything about ENABLED, which is beyond the provers
installed. `WindowInsideWorkload` is violated.

Proved and left to the theorems: accesses for instructions in Mmu, two threads in
Atomics, and the type invariants of Hart, DecodeCache and Counters, which the runs
do not repeat (`LoopTypeOK` contains the one of Hart).

## 6. Findings and observations

One disagreement with a document. `README.md:84` says of the host counters that they are
"disabled before `BENCH_COREMARK_END`", and `measure-host-counters.py:101` calls what it
rejects a window that "was not entirely inside CoreMark". The script sends `disable`
while it has not *read* the end marker (line 69), and stamps the marker when it reads
it; the guest may have printed it long before, and perf may obey later still. Run
`capture_window` shows an accepted sample whose counters ran past the marker;
`WindowSlack` bounds the excess, by run and by proof.

Not disagreements with any document of the repository, but worth knowing:

- A write to `sip` clears `mip.SSIP` even when SSI is not delegated
  (`privileged.rs:109`); `SupervisorConfined` excepts that bit.
- `interrupt` scans interrupts in one order whatever their delegation, so a delegated
  SEI is taken before a machine-level SSI (`privileged.rs:223`).
- A PMP region in TOR mode whose bottom is above its top still matches an access that
  reaches over both, and denies it (`privileged.rs` allows such a setting, `mmu.rs:108`).
- Floating-point stores and `cbo.zero` keep the LR/SC reservation that integer stores
  drop (`lib.rs:198`, `lib.rs:321`), and `cbo.zero` over `tohost` does not raise
  `htif_pending` (`memory.rs:153`).
- `cbo.zero` checks the addressed byte only and clears its whole block, so a PMP region
  that ends inside a block does not protect the rest of it (`lib.rs:317`).
- The host's answer in `fromhost` does not end a reservation of that word (`main.rs:121`).
- The loop looks at `tohost` after every instruction, so a guest that stored it in two
  halves would have the first handled as a request (`main.rs:126`); the model's guest,
  like those of the repository, stores whole requests.
- A long encoding fetches every parcel before it is refused, and a later parcel may fault
  first (`decode_cache.rs:75`); DecodeCache takes the parcels as one fetch.
- `benchmark.py` opens its output for appending (line 68) and counts its rounds from the
  start: two attempts that were cut short can add up to the twenty rows `report.py:15`
  asks for, with repeated indices, and with logs written over by a run of the other attempt.
  `PublishedSeriesIsWhole` and `PublishedLogsAreOfTheirRuns` are stated of the other
  drivers, which refuse an existing file.
- `measure-host-counters.py:145` hashes the executable after the run it measured, so a
  relink during the run is recorded as what ran. `PublishedRowsAreOfOneBinary` leaves
  this driver out.
- `benchmark.py` closes its selector but not the pipe (line 50), unlike
  `benchmark-coremark.py:51`, so the console stays open until the interpreter collects
  the process object. The simulator is dead by then, so nothing can come through it.
- If perf dies alone, its group is not killed (`measure-host-counters.py:87`) and the
  simulator runs on with its console.
- `coremark-provenance.py` tests for the measurements and then writes the snapshot; the
  model takes both as one step, since the scripts are started by hand in turn.

## 7. Not modelled

The compressed decoder, floating point and the ELF loader are in the plan above, and so
are Spike's own experiments, as patches to a program whose source is not in the
repository. Registers that only the guest reads (cause, tval, scratch) and the contents
of RAM other than page tables decide nothing here. The constants of `arch.rs` and
`csr.rs` appear by name. The dispatch profile holds counters that decide nothing.

Of the integer executors, loads, stores, branches and jumps are left out (what they do to
memory is in Mmu and Atomics), and immediate forms compute as their register forms.

Of the scripts: what a report computes from its rows, and how it is worded; the further
fixed artifacts that `report-optimization.py` and `report-round2.py` compare with the
snapshot, which only makes them stricter; the different pairs of simulator and mode by
which those two reports group their rows (a variant of the `optimization` driver is such
a pair); an executable that is replaced and then
restored, since contents never recur in Series; the counted runs of the QEMU
plugin; the filters that summarise profiles and counters; the test scripts that run
a simulator on fixed input and compare its output; and the scripts that only run
compilers.
