-------------------------------- MODULE Htif --------------------------------
(***************************************************************************)
(* The platform loop of oxyspike (oxyspike/src/main.rs, run) with its HTIF *)
(* console, and the thread that reads standard input for it through a      *)
(* bounded channel.                                                        *)
(*                                                                         *)
(* A turn of the loop is an attempt of one guest instruction, the delivery *)
(* of input, and the handling of a request, in this order; the thread runs *)
(* between any two of them.  What the guest does is any order of requests  *)
(* stored to tohost and bytes taken from fromhost.  printed, asked and     *)
(* taken are history: what the guest asked for and got.                    *)
(***************************************************************************)
EXTENDS Integers, Sequences

CONSTANTS
  Bytes,               \* 0 .. 255
  Input,               \* the bytes the user types
  CHANNEL,             \* capacity of the channel; 1024
  ATTEMPTS_PER_TICK,   \* 100
  READS_MAX,           \* largest usize
  Requests,            \* the requests the guest stores
  MaxRequests,         \* a bound on their number
  Limited              \* whether --max-instructions is given

NoByte == -1
NoRequest == <<"none", 0>>
RequestTypes == {"write", "read", "exit", "unsupported"} \X Bytes

ASSUME ConsoleAssumption ==
  /\ Bytes \subseteq Nat
  /\ Input \in Seq(Bytes)
  /\ CHANNEL \in Nat \ {0} /\ ATTEMPTS_PER_TICK \in Nat \ {0}
  /\ READS_MAX \in Nat /\ MaxRequests \in Nat
  /\ Requests \subseteq RequestTypes
  /\ Limited \in BOOLEAN

VARIABLES
  unread,         \* standard input
  held,           \* the byte the thread is sending, if any
  channel,
  phase,          \* where the loop is
  until_tick, tick,
  tohost, htif_pending,
  fromhost,
  pending_reads,
  stdout,
  outcome,
  requests,       \* how many the guest has stored
  printed, asked, taken

thread == <<unread, held>>
clock == <<until_tick, tick>>
guest == <<requests, printed, asked, taken>>
vars == <<thread, channel, phase, clock, tohost, htif_pending, fromhost, pending_reads,
          stdout, outcome, guest>>

Outcomes == {"running", "exit", "error", "limit"}

-----------------------------------------------------------------------------
(* The thread: it reads a byte, then sends it, waiting for room *)

Read ==
  /\ outcome = "running" /\ held = NoByte /\ unread # <<>>
  /\ held' = Head(unread)
  /\ unread' = Tail(unread)
  /\ UNCHANGED <<channel, phase, clock, tohost, htif_pending, fromhost, pending_reads,
                 stdout, outcome, guest>>
RoomForOneMore == Len(channel) <= CHANNEL
Room == Len(channel) < CHANNEL
Send ==
  /\ outcome = "running" /\ held # NoByte /\ Room
  /\ channel' = Append(channel, held)
  /\ held' = NoByte
  /\ UNCHANGED <<unread, phase, clock, tohost, htif_pending, fromhost, pending_reads,
                 stdout, outcome, guest>>
StdinThread == Read \/ Send

-----------------------------------------------------------------------------
(* The instruction attempt *)

Finish(result) ==
  /\ outcome' = result
  /\ phase' = "ended"

TickBeforeReset == until_tick = 0
TickNow == until_tick = 1
Advance ==
  /\ until_tick' = IF until_tick = 1 THEN ATTEMPTS_PER_TICK ELSE until_tick - 1
  /\ tick' = TickNow

\* An instruction, an interrupt or a trap that touches neither mailbox.
Quiet == UNCHANGED <<tohost, htif_pending, fromhost, guest>>

StoreTohost(req) ==
  /\ requests < MaxRequests
  /\ requests' = requests + 1
  /\ tohost' = req
  /\ htif_pending' = TRUE
  /\ printed' = IF req[1] = "write" THEN Append(printed, req[2]) ELSE printed
  /\ asked' = IF req[1] = "read" THEN asked + 1 ELSE asked
  /\ UNCHANGED <<fromhost, taken>>

\* The guest loads the byte, then stores zero.
TakeByte ==
  /\ fromhost # NoByte
  /\ taken' = Append(taken, fromhost)
  /\ fromhost' = NoByte
  /\ UNCHANGED <<tohost, htif_pending, requests, printed, asked>>

Attempt ==
  /\ phase = "attempt"
  /\ Advance
  /\ Quiet \/ TakeByte \/ \E req \in Requests : StoreTohost(req)
  /\ phase' = "input"
  /\ UNCHANGED <<thread, channel, pending_reads, stdout, outcome>>

\* A trap before the guest has set mtvec, and the instruction limit.
Stop ==
  /\ phase = "attempt"
  /\ \/ Finish("error") /\ Advance
     \/ Limited /\ Finish("limit") /\ UNCHANGED clock
  /\ UNCHANGED <<thread, channel, tohost, htif_pending, fromhost, pending_reads, stdout, guest>>

-----------------------------------------------------------------------------
(* Input, then the request *)

CanOverwrite == pending_reads # 0 /\ tick /\ channel # <<>>
CanDeliver == pending_reads # 0 /\ tick /\ fromhost = NoByte /\ channel # <<>>
DeliverInput ==
  /\ phase = "input"
  /\ phase' = "request"
  /\ IF CanDeliver
     THEN /\ fromhost' = Head(channel)
          /\ channel' = Tail(channel)
          /\ pending_reads' = pending_reads - 1
     ELSE UNCHANGED <<fromhost, channel, pending_reads>>
  /\ UNCHANGED <<thread, clock, tohost, htif_pending, stdout, outcome, guest>>

\* What a request does once tohost is cleared.
Handle(req) ==
  \/ /\ req[1] = "write"
     /\ stdout' = Append(stdout, req[2])
     /\ phase' = "attempt"
     /\ UNCHANGED <<outcome, pending_reads>>
  \/ /\ req[1] = "read" /\ pending_reads < READS_MAX
     /\ pending_reads' = pending_reads + 1
     /\ phase' = "attempt"
     /\ UNCHANGED <<outcome, stdout>>
  \/ /\ req[1] = "exit"
     /\ Finish("exit")
     /\ UNCHANGED <<pending_reads, stdout>>
  \/ /\ \/ req[1] = "unsupported"
        \/ req[1] = "read" /\ pending_reads = READS_MAX
        \/ req[1] = "write"                \* standard output has failed
     /\ Finish("error")
     /\ UNCHANGED <<pending_reads, stdout>>

PendingAtTick == htif_pending /\ tick
Pending == htif_pending
HandleRequest ==
  /\ phase = "request"
  /\ IF ~ Pending \/ tohost = NoRequest
     THEN /\ phase' = "attempt"
          /\ htif_pending' = (htif_pending /\ ~ Pending)
          /\ UNCHANGED <<tohost, pending_reads, stdout, outcome>>
     ELSE /\ tohost' = NoRequest
          /\ htif_pending' = FALSE
          /\ Handle(tohost)
  /\ UNCHANGED <<thread, channel, clock, fromhost, guest>>

MainThread == Attempt \/ Stop \/ DeliverInput \/ HandleRequest

-----------------------------------------------------------------------------

\* The image has a tohost symbol, at a zero word.
Init ==
  /\ unread = Input /\ held = NoByte /\ channel = <<>>
  /\ phase = "attempt"
  /\ until_tick = ATTEMPTS_PER_TICK /\ tick = FALSE
  /\ tohost = NoRequest /\ htif_pending = TRUE
  /\ fromhost = NoByte
  /\ pending_reads = 0
  /\ stdout = <<>>
  /\ outcome = "running"
  /\ requests = 0 /\ printed = <<>> /\ asked = 0 /\ taken = <<>>

Next == StdinThread \/ MainThread

\* The operating system runs both threads, and the user goes on typing.
Fairness == WF_vars(StdinThread) /\ WF_vars(MainThread)
Spec == Init /\ [][Next]_vars /\ Fairness

-----------------------------------------------------------------------------
(* Properties *)

One(byte) == IF byte = NoByte THEN <<>> ELSE <<byte>>

\* Every variable has its type; the channel stays within its capacity and the
\* request slot is only full while the loop has yet to look at it, and knows so.
TypeOK ==
  /\ unread \in Seq(Bytes) /\ channel \in Seq(Bytes) /\ Len(channel) <= CHANNEL
  /\ held \in Bytes \cup {NoByte} /\ fromhost \in Bytes \cup {NoByte}
  /\ phase \in {"attempt", "input", "request", "ended"}
  /\ until_tick \in 1 .. ATTEMPTS_PER_TICK /\ tick \in BOOLEAN
  /\ tohost \in RequestTypes \cup {NoRequest} /\ htif_pending \in BOOLEAN
  /\ tohost # NoRequest => htif_pending /\ phase \in {"input", "request"}
  /\ pending_reads \in 0 .. READS_MAX
  /\ stdout \in Seq(Bytes) /\ printed \in Seq(Bytes) /\ taken \in Seq(Bytes)
  /\ outcome \in Outcomes
  /\ requests \in 0 .. MaxRequests /\ asked \in Nat

\* However far the user types ahead and whenever the guest reads, each byte typed
\* reaches the guest once and in order: it is taken, in the mailbox, in the
\* channel, with the thread, or not yet read.
InputInOrder == taken \o One(fromhost) \o channel \o One(held) \o unread = Input

\* No request outlives the turn that stored it: before each instruction, and when
\* the guest has powered off, everything printed is on standard output and every
\* read asked for is answered or accepted.
RequestsServed ==
  phase = "attempt" \/ outcome = "exit" =>
    /\ tohost = NoRequest
    /\ stdout = printed
    /\ asked = pending_reads + Len(taken) + Len(One(fromhost))

\* The loop and the thread together implement the console: in particular a read
\* the host accepted is answered, at a later tick, once there is a byte for it.
Abstract == INSTANCE Console WITH
  input <- channel \o One(held) \o unread,
  reads <- pending_reads,
  mailbox <- fromhost,
  output <- stdout,
  over <- outcome # "running"
ImplementsConsole == Abstract!Spec
=============================================================================
