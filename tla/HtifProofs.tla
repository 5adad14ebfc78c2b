----------------------------- MODULE HtifProofs -----------------------------
(***************************************************************************)
(* Proofs about the console, for every input, capacity of the channel and  *)
(* order of the two threads.                                               *)
(***************************************************************************)
EXTENDS Htif, SequenceTheorems, TLAPS

-----------------------------------------------------------------------------
(* Sequences *)

LEMMA SingletonProperties ==
  ASSUME NEW S, NEW x \in S
  PROVE  <<x>> \in Seq(S) /\ Len(<<x>>) = 1 /\ <<x>>[1] = x
  OBVIOUS

LEMMA FrontThenRest ==
  ASSUME NEW S, NEW s \in Seq(S), s # <<>>
  PROVE  <<Head(s)>> \o Tail(s) = s
<1>1. Head(s) \in S /\ Tail(s) \in Seq(S) /\ Len(Tail(s)) = Len(s) - 1
      /\ \A i \in 1 .. Len(Tail(s)) : Tail(s)[i] = s[i + 1]
  BY HeadTailProperties
<1>2. <<Head(s)>> \in Seq(S) /\ Len(<<Head(s)>>) = 1 /\ <<Head(s)>>[1] = Head(s)
  BY <1>1, SingletonProperties
<1>3. Head(s) = s[1]
  OBVIOUS
<1>4. Len(s) \in Nat \ {0}
  BY EmptySeq
<1> DEFINE t == <<Head(s)>> \o Tail(s)
<1>5. t \in Seq(S) /\ Len(t) = Len(s)
      /\ \A i \in 1 .. Len(s) : t[i] = IF i <= 1 THEN <<Head(s)>>[i] ELSE Tail(s)[i - 1]
  BY <1>1, <1>2, <1>4, ConcatProperties
<1> HIDE DEF t
<1>6. \A i \in 1 .. Len(s) : t[i] = s[i]
  BY <1>1, <1>2, <1>3, <1>4, <1>5
<1>7. t = s
  BY <1>5, <1>6, SeqEqual
<1> QED
  BY <1>7 DEF t

LEMMA PushedFront ==
  ASSUME NEW S, NEW x \in S, NEW s \in Seq(S)
  PROVE  Head(<<x>> \o s) = x /\ Tail(<<x>> \o s) = s /\ <<x>> \o s # <<>>
<1> DEFINE t == <<x>> \o s
<1>1. <<x>> \in Seq(S) /\ Len(<<x>>) = 1 /\ <<x>>[1] = x
  BY SingletonProperties
<1>2. Len(s) \in Nat
  BY LenProperties
<1>3. t \in Seq(S) /\ Len(t) = 1 + Len(s)
      /\ \A i \in 1 .. 1 + Len(s) : t[i] = IF i <= 1 THEN <<x>>[i] ELSE s[i - 1]
  BY <1>1, ConcatProperties
<1> HIDE DEF t
<1>4. t # <<>>
  BY <1>2, <1>3, EmptySeq
<1>5. Head(t) = x
  BY <1>1, <1>2, <1>3, <1>4
<1>6. Tail(t) \in Seq(S) /\ Len(Tail(t)) = Len(s)
      /\ \A i \in 1 .. Len(s) : Tail(t)[i] = t[i + 1]
  BY <1>2, <1>3, <1>4, HeadTailProperties
<1>7. \A i \in 1 .. Len(s) : Tail(t)[i] = s[i]
  BY <1>2, <1>3, <1>6
<1>8. Tail(t) = s
  BY <1>6, <1>7, SeqEqual
<1> QED
  BY <1>4, <1>5, <1>8 DEF t

\* Moving the first element of one sequence to the end of the one before it.
LEMMA MoveAcross ==
  ASSUME NEW S, NEW x \in S, NEW s \in Seq(S), NEW t \in Seq(S)
  PROVE  Append(s, x) \o t = s \o (<<x>> \o t)
<1>1. Append(s, x) = s \o <<x>> /\ <<x>> \in Seq(S)
  BY AppendIsConcat, SingletonProperties
<1> QED
  BY <1>1, ConcatAssociative

Regroups(a, b, c, d, e) == (((a \o b) \o c) \o d) \o e = a \o (b \o (c \o (d \o e)))

LEMMA FiveParts ==
  ASSUME NEW a \in Seq(Bytes), NEW b \in Seq(Bytes), NEW c \in Seq(Bytes),
         NEW d \in Seq(Bytes), NEW e \in Seq(Bytes)
  PROVE  Regroups(a, b, c, d, e)
<1> DEFINE ab == a \o b
           abc == ab \o c
           de == d \o e
           cde == c \o de
<1>1. ab \in Seq(Bytes) /\ de \in Seq(Bytes)
  BY ConcatProperties
<1>2. cde \in Seq(Bytes)
  <2> HIDE DEF de
  <2> QED
    BY <1>1
<1>3. abc \in Seq(Bytes)
  <2> HIDE DEF ab
  <2> QED
    BY <1>1
<1>4. a \o (b \o cde) = (a \o b) \o cde
  <2> HIDE DEF cde
  <2> QED
    BY <1>2
<1>5. ab \o (c \o de) = (ab \o c) \o de
  <2> HIDE DEF ab, de
  <2> QED
    BY <1>1
<1>6. abc \o (d \o e) = (abc \o d) \o e
  <2> HIDE DEF abc
  <2> QED
    BY <1>3
<1> QED
  BY <1>4, <1>5, <1>6 DEF Regroups

LEMMA OneIsASequence ==
  ASSUME NEW byte \in Bytes \cup {NoByte}
  PROVE  /\ One(byte) \in Seq(Bytes)
         /\ byte = NoByte => One(byte) = <<>> /\ Len(One(byte)) = 0
         /\ byte # NoByte => One(byte) = <<byte>> /\ Len(One(byte)) = 1
  BY EmptySeq, SingletonProperties DEF One

-----------------------------------------------------------------------------
(* Types *)

LEMMA NoByteIsNone == NoByte \notin Bytes
  BY ConsoleAssumption DEF NoByte

\* The loop, the thread and the channel keep their types: the channel never holds
\* more than its capacity, no read count leaves its range, and a request is only there
\* in the turn that stored it, with its flag up.
THEOREM TypeCorrect == Spec => []TypeOK
<1> USE ConsoleAssumption, NoByteIsNone
<1>1. Init => TypeOK
  <2> SUFFICES ASSUME Init PROVE TypeOK
    OBVIOUS
  <2> DEFINE none == <<>>
  <2>1. none \in Seq(Bytes) /\ Len(none) = 0
    BY EmptySeq
  <2>2. channel = none /\ stdout = none /\ printed = none /\ taken = none
    BY DEF Init
  <2> HIDE DEF none
  <2>3. Len(channel) <= CHANNEL
    BY <2>1, <2>2
  <2>4. until_tick \in 1 .. ATTEMPTS_PER_TICK /\ pending_reads \in 0 .. READS_MAX
        /\ requests \in 0 .. MaxRequests /\ asked \in Nat
    BY DEF Init
  <2> QED
    BY <2>1, <2>2, <2>3, <2>4 DEF Init, TypeOK, Outcomes
<1>2. TypeOK /\ [Next]_vars => TypeOK'
  <2> SUFFICES ASSUME TypeOK, [Next]_vars PROVE TypeOK'
    OBVIOUS
  <2> USE DEF TypeOK
  <2>1. CASE Read
    BY <2>1, HeadTailProperties
       DEF Read, clock, guest
  <2>2. CASE Send
    <3>1. held \in Bytes
      BY <2>2 DEF Send
    <3>2. channel' \in Seq(Bytes) /\ Len(channel') = Len(channel) + 1 /\ Len(channel) \in Nat
      BY <2>2, <3>1, AppendProperties, LenProperties DEF Send
    <3>3. Len(channel') <= CHANNEL
      BY <2>2, <3>2 DEF Send, Room
    <3> QED
      BY <2>2, <3>2, <3>3 DEF Send, clock, guest
  <2>3. ASSUME Advance PROVE until_tick' \in 1 .. ATTEMPTS_PER_TICK /\ tick' \in BOOLEAN
    BY <2>3 DEF Advance, TickNow
  <2>4. CASE Attempt
    <3>1. /\ UNCHANGED <<unread, held, channel, pending_reads, stdout, outcome>>
          /\ phase' = "input" /\ Advance
      BY <2>4 DEF Attempt, thread
    <3>2. CASE Quiet
      BY <2>3, <3>1, <3>2 DEF Quiet, guest
    <3>3. CASE TakeByte
      <4>1. taken' \in Seq(Bytes)
        BY <3>3, AppendProperties DEF TakeByte
      <4> QED
        BY <2>3, <3>1, <3>3, <4>1 DEF TakeByte
    <3>4. ASSUME NEW req \in Requests, StoreTohost(req) PROVE TypeOK'
      <4>1. req \in RequestTypes /\ req[2] \in Bytes
        BY DEF RequestTypes
      <4>2. printed' \in Seq(Bytes)
        BY <3>4, <4>1, AppendProperties DEF StoreTohost
      <4> QED
        BY <2>3, <3>1, <3>4, <4>1, <4>2 DEF StoreTohost
    <3> QED
      BY <2>4, <3>2, <3>3, <3>4 DEF Attempt
  <2>5. CASE Stop
    BY <2>3, <2>5 DEF Stop, Finish, Outcomes, thread, clock, guest
  <2>6. CASE DeliverInput
    <3>1. CASE CanDeliver
      <4> DEFINE first == Head(channel)
                 rest == Tail(channel)
      <4>1. first \in Bytes /\ rest \in Seq(Bytes)
            /\ Len(rest) = Len(channel) - 1 /\ Len(channel) \in Nat
        BY <3>1, HeadTailProperties, LenProperties DEF CanDeliver
      <4>5. fromhost' = first /\ channel' = rest
        BY <2>6, <3>1 DEF DeliverInput
      <4> HIDE DEF first, rest
      <4>2. pending_reads' \in 0 .. READS_MAX
        BY <2>6, <3>1 DEF DeliverInput, CanDeliver
      <4>3. fromhost' \in Bytes /\ channel' \in Seq(Bytes) /\ Len(channel') <= CHANNEL
        BY <4>1, <4>5
      <4>4. phase' = "request"
            /\ UNCHANGED <<unread, held, until_tick, tick, tohost, htif_pending, stdout, outcome,
                           requests, printed, asked, taken>>
        BY <2>6 DEF DeliverInput, thread, clock, guest
      <4> QED
        BY <4>2, <4>3, <4>4
    <3>2. CASE ~ CanDeliver
      BY <2>6, <3>2 DEF DeliverInput, thread, clock, guest
    <3> QED
      BY <3>1, <3>2
  <2>7. CASE HandleRequest
    <3>1. UNCHANGED <<unread, held, channel, until_tick, tick, fromhost, requests,
                      printed, asked, taken>>
      BY <2>7 DEF HandleRequest, thread, clock, guest
    <3>2. CASE ~ Pending \/ tohost = NoRequest
      BY <2>7, <3>1, <3>2 DEF HandleRequest, Pending
    <3>3. CASE Pending /\ tohost # NoRequest
      <4>1. tohost \in RequestTypes /\ tohost[2] \in Bytes
        BY <3>3 DEF RequestTypes
      <4>2. Handle(tohost) /\ tohost' = NoRequest /\ htif_pending' = FALSE
        BY <2>7, <3>3 DEF HandleRequest
      <4>3. Append(stdout, tohost[2]) \in Seq(Bytes)
        BY <4>1, AppendProperties
      <4>4. /\ stdout' = Append(stdout, tohost[2]) \/ stdout' = stdout
            /\ \/ pending_reads' = pending_reads
               \/ pending_reads < READS_MAX /\ pending_reads' = pending_reads + 1
            /\ outcome' \in {outcome, "exit", "error"}
            /\ phase' \in {"attempt", "ended"}
        BY <4>2 DEF Handle, Finish
      <4>5. stdout' \in Seq(Bytes)
        BY <4>3, <4>4
      <4>6. pending_reads' \in 0 .. READS_MAX
        BY <4>4, ConsoleAssumption
      <4>7. outcome' \in Outcomes
        BY <4>4 DEF Outcomes
      <4>8. tohost' = NoRequest /\ htif_pending' \in BOOLEAN
            /\ phase' \in {"attempt", "input", "request", "ended"}
        BY <4>2, <4>4
      <4> QED
        BY <3>1, <4>5, <4>6, <4>7, <4>8
    <3> QED
      BY <3>2, <3>3
  <2>8. CASE UNCHANGED vars
    BY <2>8 DEF vars, thread, clock, guest
  <2> QED
    BY <2>1, <2>2, <2>4, <2>5, <2>6, <2>7, <2>8 DEF Next, StdinThread, MainThread
<1> QED
  BY <1>1, <1>2, PTL DEF Spec

-----------------------------------------------------------------------------
(* Order of the input *)

\* The bytes typed and not yet delivered.
Waiting == channel \o (One(held) \o unread)

LEMMA Regrouped ==
  ASSUME TypeOK
  PROVE  /\ Waiting \in Seq(Bytes)
         /\ channel \o One(held) \o unread = Waiting
         /\ taken \o One(fromhost) \o channel \o One(held) \o unread
              = taken \o (One(fromhost) \o Waiting)
<1> DEFINE from == One(fromhost)
           sent == One(held)
<1>1. from \in Seq(Bytes) /\ sent \in Seq(Bytes)
  BY OneIsASequence DEF TypeOK
<1>2. taken \in Seq(Bytes) /\ channel \in Seq(Bytes) /\ unread \in Seq(Bytes)
  BY DEF TypeOK
<1>3. Waiting = channel \o (sent \o unread)
  BY DEF Waiting
<1> HIDE DEF from, sent
<1>4. sent \o unread \in Seq(Bytes)
  BY <1>1, <1>2, ConcatProperties
<1>5. Waiting \in Seq(Bytes)
  BY <1>2, <1>3, <1>4, ConcatProperties
<1>6. (channel \o sent) \o unread = channel \o (sent \o unread)
  BY <1>1, <1>2
<1>7. Regroups(taken, from, channel, sent, unread)
  BY <1>1, <1>2, FiveParts
<1> QED
  BY <1>3, <1>5, <1>6, <1>7 DEF from, sent, Regroups

\* The thread only moves bytes along.
LEMMA ThreadKeepsWaiting ==
  ASSUME TypeOK, StdinThread
  PROVE  Waiting' = Waiting
<1> USE NoByteIsNone
<1>1. unread \in Seq(Bytes) /\ channel \in Seq(Bytes)
  BY DEF TypeOK
<1>2. One(NoByte) = <<>> /\ <<>> \o unread = unread
  BY <1>1, ConcatEmptySeq DEF One
<1>3. CASE Read
  <2> DEFINE first == Head(unread)
             rest == Tail(unread)
  <2>1. first \in Bytes /\ rest \in Seq(Bytes) /\ <<first>> \o rest = unread
    BY <1>1, <1>3, HeadTailProperties, FrontThenRest DEF Read
  <2>2. held = NoByte /\ held' = first /\ unread' = rest /\ channel' = channel
    BY <1>3 DEF Read
  <2> HIDE DEF first, rest
  <2>3. One(first) = <<first>>
    BY <2>1, OneIsASequence
  <2>4. One(held') \o unread' = One(held) \o unread
    BY <1>2, <2>1, <2>2, <2>3
  <2> QED
    BY <2>2, <2>4 DEF Waiting, One
<1>4. CASE Send
  <2>1. held \in Bytes /\ held' = NoByte /\ unread' = unread /\ channel' = Append(channel, held)
    BY <1>4 DEF Send, TypeOK
  <2>2. Append(channel, held) \o unread = channel \o (<<held>> \o unread)
    BY <1>1, <2>1, MoveAcross
  <2>3. One(held) = <<held>>
    BY <2>1, OneIsASequence
  <2>4. Waiting = channel \o (<<held>> \o unread)
    BY <2>3 DEF Waiting
  <2>5. Waiting' = Append(channel, held) \o unread
    BY <1>2, <2>1 DEF Waiting, One
  <2> QED
    BY <2>2, <2>4, <2>5
<1> QED
  BY <1>3, <1>4 DEF StdinThread

\* A delivery moves the first waiting byte into the empty mailbox.
LEMMA DeliveryTakesTheFirst ==
  ASSUME TypeOK, CanDeliver, DeliverInput
  PROVE  /\ fromhost' \in Bytes /\ fromhost = NoByte
         /\ Waiting' \in Seq(Bytes)
         /\ Waiting = <<fromhost'>> \o Waiting'
<1> DEFINE first == Head(channel)
           rest == Tail(channel)
           later == One(held) \o unread
<1>1. channel \in Seq(Bytes) /\ channel # <<>> /\ unread \in Seq(Bytes)
      /\ One(held) \in Seq(Bytes)
  BY OneIsASequence DEF TypeOK, CanDeliver
<1>2. first \in Bytes /\ rest \in Seq(Bytes) /\ <<first>> \o rest = channel
  BY <1>1, HeadTailProperties, FrontThenRest
<1>3. later \in Seq(Bytes)
  BY <1>1, ConcatProperties
<1>4. Waiting = channel \o later
  BY DEF Waiting
<1>5. fromhost' = first /\ Waiting' = rest \o later /\ fromhost = NoByte
  BY DEF DeliverInput, CanDeliver, thread, Waiting, One
<1> HIDE DEF first, rest, later
<1>6. <<first>> \in Seq(Bytes)
  BY <1>2, SingletonProperties
<1>7. (<<first>> \o rest) \o later = <<first>> \o (rest \o later)
  BY <1>2, <1>3, <1>6, ConcatAssociative
<1>8. rest \o later \in Seq(Bytes)
  BY <1>2, <1>3, ConcatProperties
<1> QED
  BY <1>2, <1>4, <1>5, <1>7, <1>8

\* Whatever the two threads do, each byte typed reaches the guest once and in order.
THEOREM InputArrivesInOrder == Spec => []InputInOrder
<1> DEFINE InOrder == taken \o (One(fromhost) \o Waiting) = Input
<1>1. TypeOK => (InputInOrder <=> InOrder)
  BY Regrouped DEF InputInOrder
<1>2. Init => InputInOrder
  <2> SUFFICES ASSUME Init PROVE InputInOrder
    OBVIOUS
  <2>1. Input \in Seq(Bytes)
    BY ConsoleAssumption
  <2>2. One(fromhost) = <<>> /\ One(held) = <<>> /\ taken = <<>> /\ channel = <<>> /\ unread = Input
    BY DEF Init, One
  <2>3. <<>> \o Input = Input /\ <<>> \o <<>> = <<>>
    BY <2>1, ConcatEmptySeq, EmptySeq
  <2> QED
    BY <2>2, <2>3 DEF InputInOrder
<1>3. TypeOK /\ TypeOK' /\ InputInOrder /\ [Next]_vars => InputInOrder'
  <2> SUFFICES ASSUME TypeOK, TypeOK', InputInOrder, [Next]_vars
               PROVE  InOrder'
    BY <1>1, PTL
  <2>1. InOrder
    BY <1>1
  <2>2. Waiting \in Seq(Bytes)
    BY Regrouped
  <2>3. CASE StdinThread
    <3>1. Waiting' = Waiting
      BY <2>3, ThreadKeepsWaiting
    <3>2. UNCHANGED <<taken, fromhost>>
      BY <2>3 DEF StdinThread, Read, Send, guest
    <3> QED
      BY <2>1, <3>1, <3>2 DEF One
  <2>4. ASSUME UNCHANGED <<channel, held, unread>> PROVE Waiting' = Waiting
    BY <2>4 DEF Waiting, One
  <2>5. CASE Attempt /\ TakeByte
    <3>1. fromhost \in Bytes /\ fromhost' = NoByte /\ taken' = Append(taken, fromhost)
          /\ taken \in Seq(Bytes)
      BY <2>5 DEF TakeByte, TypeOK
    <3>2. Waiting' = Waiting
      BY <2>4, <2>5 DEF Attempt, thread
    <3>3. One(fromhost) = <<fromhost>> /\ One(fromhost') = <<>> /\ <<>> \o Waiting = Waiting
      BY <2>2, <3>1, NoByteIsNone, ConcatEmptySeq DEF One
    <3>4. Append(taken, fromhost) \o Waiting = taken \o (<<fromhost>> \o Waiting)
      BY <2>2, <3>1, MoveAcross
    <3>5. taken' \o (One(fromhost') \o Waiting') = Input
      BY <2>1, <3>1, <3>2, <3>3, <3>4
    <3> QED
      BY <3>5 DEF One
  <2>6. CASE DeliverInput /\ CanDeliver
    <3>1. fromhost' \in Bytes /\ fromhost = NoByte /\ Waiting = <<fromhost'>> \o Waiting'
      BY <2>6, DeliveryTakesTheFirst
    <3>2. One(fromhost') = <<fromhost'>> /\ One(fromhost) = <<>> /\ <<>> \o Waiting = Waiting
      BY <2>2, <3>1, NoByteIsNone, ConcatEmptySeq DEF One
    <3>3. taken' = taken
      BY <2>6 DEF DeliverInput, guest
    <3>4. taken' \o (One(fromhost') \o Waiting') = Input
      BY <2>1, <3>1, <3>2, <3>3
    <3> QED
      BY <3>4 DEF One
  <2>7. ASSUME UNCHANGED <<channel, held, unread, taken, fromhost>> PROVE InOrder'
    BY <2>1, <2>4, <2>7 DEF One
  <2>8. CASE Attempt /\ ~ TakeByte
    BY <2>7, <2>8 DEF Attempt, Quiet, StoreTohost, thread, guest
  <2>9. CASE DeliverInput /\ ~ CanDeliver
    BY <2>7, <2>9 DEF DeliverInput, thread, guest
  <2>10. CASE HandleRequest \/ Stop \/ UNCHANGED vars
    BY <2>7, <2>10 DEF HandleRequest, Stop, vars, thread, guest
  <2> QED
    BY <2>3, <2>5, <2>6, <2>8, <2>9, <2>10 DEF Next, MainThread
<1> QED
  BY <1>2, <1>3, TypeCorrect, PTL DEF Spec

-----------------------------------------------------------------------------
(* Requests *)

\* Reads asked for and no longer waiting in the loop.
Answered == Len(taken) + Len(One(fromhost))

\* A request in tohost is one the guest has stored and the loop has yet to look at:
\* it accounts for the difference between what was asked and what was done.
Accounted ==
  /\ phase = "ended" <=> outcome # "running"
  /\ tohost # NoRequest => htif_pending
  /\ phase = "attempt" \/ outcome = "exit" => tohost = NoRequest
  /\ outcome # "error" =>
       /\ printed = IF tohost[1] = "write" THEN Append(stdout, tohost[2]) ELSE stdout
       /\ asked = pending_reads + Answered + (IF tohost[1] = "read" THEN 1 ELSE 0)

LEMMA AnsweredBytes ==
  ASSUME TypeOK
  PROVE  /\ Len(taken) \in Nat /\ Answered \in Nat
         /\ fromhost = NoByte => Answered = Len(taken)
         /\ fromhost \in Bytes => Answered = Len(taken) + 1
<1>1. Len(taken) \in Nat
  BY LenProperties DEF TypeOK
<1>2. fromhost \in Bytes \cup {NoByte}
  BY DEF TypeOK
<1> DEFINE delivered == Len(One(fromhost))
<1>3. fromhost = NoByte => delivered = 0
  BY <1>2, OneIsASequence
<1>4. fromhost \in Bytes => delivered = 1
  BY <1>2, OneIsASequence, NoByteIsNone
<1>5. Answered = Len(taken) + delivered
  BY DEF Answered
<1> HIDE DEF delivered
<1> QED
  BY <1>1, <1>2, <1>3, <1>4, <1>5

LEMMA AccountedInvariant == Spec => []Accounted
<1> USE NoByteIsNone
<1>1. Init => Accounted
  <2> SUFFICES ASSUME Init PROVE Accounted
    OBVIOUS
  <2>1. Len(taken) = 0 /\ Len(One(fromhost)) = 0
    BY EmptySeq DEF Init, One
  <2>2. Answered = 0
    BY <2>1 DEF Answered
  <2> QED
    BY <2>2 DEF Init, Accounted, NoRequest
<1>2. TypeOK /\ TypeOK' /\ Accounted /\ [Next]_vars => Accounted'
  <2> SUFFICES ASSUME TypeOK, TypeOK', Accounted, [Next]_vars PROVE Accounted'
    OBVIOUS
  <2>1. /\ Len(taken) \in Nat /\ Answered \in Nat
        /\ fromhost = NoByte => Answered = Len(taken)
        /\ fromhost \in Bytes => Answered = Len(taken) + 1
    BY AnsweredBytes
  <2>2. ASSUME UNCHANGED <<taken, fromhost>> PROVE Answered' = Answered
    BY <2>2 DEF Answered, One
  <2>3. /\ asked \in Nat /\ pending_reads \in Nat /\ asked' \in Nat /\ pending_reads' \in Nat
        /\ fromhost \in Bytes \cup {NoByte}
    BY ConsoleAssumption DEF TypeOK
  <2> USE DEF Accounted
  <2>4. NoRequest[1] = "none"
    BY DEF NoRequest
  <2>5. CASE StdinThread \/ UNCHANGED vars
    <3>1. UNCHANGED <<phase, clock, tohost, htif_pending, fromhost, pending_reads, stdout,
                      outcome, guest>>
      BY <2>5 DEF StdinThread, Read, Send, vars
    <3> QED
      BY <2>2, <3>1 DEF guest
  <2>6. CASE Attempt
    <3>1. /\ UNCHANGED <<pending_reads, stdout, outcome>>
          /\ phase = "attempt" /\ phase' = "input"
          /\ tohost = NoRequest /\ outcome = "running"
          /\ printed = stdout /\ asked = pending_reads + Answered
      BY <2>3, <2>1, <2>4, <2>6 DEF Attempt
    <3>2. CASE Quiet
      BY <2>2, <3>1, <3>2 DEF Quiet, guest
    <3>3. CASE TakeByte
      <4>1. fromhost \in Bytes /\ fromhost' = NoByte /\ taken' = Append(taken, fromhost)
            /\ UNCHANGED <<tohost, htif_pending, printed, asked>>
        BY <2>3, <3>3 DEF TakeByte
      <4>2. Len(taken') = Len(taken) + 1
        BY <4>1, AppendProperties DEF TypeOK
      <4>3. Len(One(fromhost')) = 0
        BY <4>1, OneIsASequence
      <4>4. Answered' = Len(taken') + Len(One(fromhost'))
        BY DEF Answered, One
      <4>5. Answered' = Answered
        BY <2>1, <4>1, <4>2, <4>3, <4>4
      <4> QED
        BY <2>4, <3>1, <4>1, <4>5
    <3>4. ASSUME NEW req \in Requests, StoreTohost(req) PROVE Accounted'
      <4>1. /\ tohost' = req /\ htif_pending' = TRUE
            /\ printed' = IF req[1] = "write" THEN Append(stdout, req[2]) ELSE stdout
            /\ asked' = asked + (IF req[1] = "read" THEN 1 ELSE 0)
            /\ UNCHANGED <<fromhost, taken>>
        BY <2>3, <3>1, <3>4 DEF StoreTohost
      <4>2. Answered' = Answered
        BY <2>2, <4>1
      <4> QED
        BY <2>1, <2>3, <3>1, <4>1, <4>2
    <3> QED
      BY <2>6, <3>2, <3>3, <3>4 DEF Attempt
  <2>7. CASE Stop
    BY <2>2, <2>7 DEF Stop, Finish, guest
  <2>8. CASE DeliverInput
    <3>1. /\ phase = "input" /\ phase' = "request"
          /\ UNCHANGED <<tohost, htif_pending, stdout, outcome, printed, asked, taken>>
      BY <2>8 DEF DeliverInput, guest
    <3>2. pending_reads' + Answered' = pending_reads + Answered
      <4>1. CASE CanDeliver
        <5>1. fromhost' \in Bytes /\ fromhost = NoByte
          BY <2>8, <4>1, DeliveryTakesTheFirst
        <5>2. Len(One(fromhost')) = 1
          BY <5>1, OneIsASequence
        <5>3. Answered' = Len(taken') + Len(One(fromhost'))
          BY DEF Answered, One
        <5>4. pending_reads' = pending_reads - 1
          BY <2>8, <4>1 DEF DeliverInput
        <5> QED
          BY <2>1, <2>3, <3>1, <5>1, <5>2, <5>3, <5>4
      <4>2. CASE ~ CanDeliver
        BY <2>2, <2>8, <3>1, <4>2 DEF DeliverInput
      <4> QED
        BY <4>1, <4>2
    <3> QED
      BY <3>1, <3>2
  <2>9. CASE HandleRequest
    <3>1. phase = "request" /\ outcome = "running" /\ Answered' = Answered
          /\ UNCHANGED <<printed, asked>>
      BY <2>2, <2>9 DEF HandleRequest, guest
    <3>2. CASE ~ Pending \/ tohost = NoRequest
      BY <2>9, <3>1, <3>2 DEF HandleRequest, Pending
    <3>3. CASE Pending /\ tohost # NoRequest
      <4>1. Handle(tohost) /\ tohost' = NoRequest
        BY <2>9, <3>3 DEF HandleRequest
      <4>2. CASE tohost[1] = "write" /\ outcome' = outcome /\ phase' = "attempt"
                 /\ stdout' = Append(stdout, tohost[2]) /\ pending_reads' = pending_reads
        BY <2>4, <3>1, <4>1, <4>2
      <4>3. CASE tohost[1] = "read" /\ outcome' = outcome /\ phase' = "attempt"
                 /\ stdout' = stdout /\ pending_reads' = pending_reads + 1
        BY <2>1, <2>3, <2>4, <3>1, <4>1, <4>3
      <4>4. CASE tohost[1] = "exit" /\ outcome' = "exit" /\ phase' = "ended"
                 /\ stdout' = stdout /\ pending_reads' = pending_reads
        BY <2>4, <3>1, <4>1, <4>4
      <4>5. CASE outcome' = "error" /\ phase' = "ended"
        BY <4>1, <4>5
      <4> QED
        BY <4>1, <4>2, <4>3, <4>4, <4>5 DEF Handle, Finish
    <3> QED
      BY <3>2, <3>3
  <2> QED
    BY <2>5, <2>6, <2>7, <2>8, <2>9 DEF Next, MainThread
<1> QED
  BY <1>1, <1>2, TypeCorrect, PTL DEF Spec

\* Before every instruction, and when the guest has powered off, everything it
\* printed is on standard output and each of its reads is accepted or answered.
THEOREM RequestsAreServed == Spec => []RequestsServed
<1>1. TypeOK /\ Accounted => RequestsServed
  <2> SUFFICES ASSUME TypeOK, Accounted, phase = "attempt" \/ outcome = "exit"
               PROVE  tohost = NoRequest /\ stdout = printed
                      /\ asked = pending_reads + Len(taken) + Len(One(fromhost))
    BY DEF RequestsServed
  <2>1. tohost = NoRequest /\ tohost[1] = "none" /\ outcome # "error"
    BY DEF Accounted, NoRequest
  <2>2. stdout = printed /\ asked = pending_reads + Answered + 0
    BY <2>1 DEF Accounted
  <2>3. pending_reads \in Nat /\ Len(taken) \in Nat
    BY AnsweredBytes, ConsoleAssumption DEF TypeOK
  <2>4. Len(One(fromhost)) \in Nat
    <3>1. fromhost \in Bytes \cup {NoByte}
      BY DEF TypeOK
    <3> QED
      BY <3>1, OneIsASequence
  <2> QED
    BY <2>1, <2>2, <2>3, <2>4 DEF Answered
<1> QED
  BY <1>1, TypeCorrect, AccountedInvariant, PTL

-----------------------------------------------------------------------------
(* The console *)

\* Every step of the loop and of its thread is a step of the console or changes
\* nothing the console has; that reads are answered at all is left to TLC.
THEOREM StepsOfAConsole == Spec => Abstract!Init /\ [][Abstract!Next]_(Abstract!vars)
<1> USE NoByteIsNone
<1>1. Init => Abstract!Init
  <2> SUFFICES ASSUME Init PROVE channel \o One(held) \o unread = Input
    BY DEF Init, Abstract!Init
  <2>1. Input \in Seq(Bytes)
    BY ConsoleAssumption
  <2>2. One(held) = <<>> /\ channel = <<>> /\ unread = Input
    BY DEF Init, One
  <2>3. <<>> \o Input = Input /\ <<>> \o <<>> = <<>>
    BY <2>1, ConcatEmptySeq, EmptySeq
  <2> QED
    BY <2>2, <2>3
<1> DEFINE queue == channel \o One(held) \o unread
<1> DEFINE Same == queue = Waiting
<1>2. TypeOK => Same
  BY Regrouped
<1>3. TypeOK /\ TypeOK' /\ Accounted /\ [Next]_vars /\ Same /\ Same'
      => [Abstract!Next]_(Abstract!vars)
  <2> SUFFICES ASSUME TypeOK, TypeOK', Accounted, [Next]_vars,
                      queue = Waiting, queue' = Waiting'
               PROVE  [Abstract!Next]_(Abstract!vars)
    OBVIOUS
  <2>1. Abstract!vars = <<queue, pending_reads, fromhost, taken, stdout, outcome # "running">>
    BY DEF Abstract!vars
  <2>2. Abstract!vars' = <<queue', pending_reads', fromhost', taken', stdout', outcome' # "running">>
    BY DEF Abstract!vars, One
  <2>3. ASSUME UNCHANGED <<channel, held, unread>> PROVE queue' = queue
    BY <2>3 DEF One
  <2> HIDE DEF queue
  <2>4. CASE StdinThread
    <3>1. Waiting' = Waiting
      BY <2>4, ThreadKeepsWaiting
    <3>2. UNCHANGED <<pending_reads, fromhost, taken, stdout, outcome>>
      BY <2>4 DEF StdinThread, Read, Send, guest
    <3> QED
      BY <2>1, <2>2, <3>1, <3>2
  <2>5. CASE UNCHANGED vars
    BY <2>1, <2>2, <2>3, <2>5 DEF vars, thread, guest
  <2>6. CASE Attempt
    <3>1. outcome = "running" /\ outcome' = outcome /\ queue' = queue
          /\ UNCHANGED <<pending_reads, stdout>>
      BY <2>3, <2>6 DEF Attempt, Accounted, thread
    <3>2. CASE Quiet
      BY <2>1, <2>2, <3>1, <3>2 DEF Quiet, guest
    <3>3. CASE TakeByte
      <4>1. Abstract!Take
        BY <3>1, <3>3 DEF Abstract!Take, TakeByte, queue
      <4> QED
        BY <3>1, <4>1 DEF Abstract!Next
    <3>4. CASE \E req \in Requests : StoreTohost(req)
      BY <2>1, <2>2, <3>1, <3>4 DEF StoreTohost
    <3> QED
      BY <2>6, <3>2, <3>3, <3>4 DEF Attempt
  <2>7. CASE Stop
    <3>1. outcome = "running" /\ outcome' # "running" /\ queue' = queue
          /\ UNCHANGED <<pending_reads, fromhost, taken, stdout>>
      BY <2>3, <2>7 DEF Stop, Finish, Accounted, thread, guest
    <3>2. Abstract!End
      BY <3>1 DEF Abstract!End, queue
    <3> QED
      BY <3>1, <3>2 DEF Abstract!Next
  <2>8. CASE DeliverInput
    <3>1. outcome = "running" /\ outcome' = outcome /\ UNCHANGED <<taken, stdout>>
      BY <2>8 DEF DeliverInput, Accounted, guest
    <3>2. CASE CanDeliver
      <4>1. fromhost' \in Bytes /\ fromhost = NoByte /\ Waiting' \in Seq(Bytes)
            /\ Waiting = <<fromhost'>> \o Waiting'
        BY <2>8, <3>2, DeliveryTakesTheFirst
      <4>2. Head(queue) = fromhost' /\ Tail(queue) = queue' /\ queue # <<>>
        BY <4>1, PushedFront
      <4>3. pending_reads > 0 /\ pending_reads' = pending_reads - 1
        BY <2>8, <3>2, ConsoleAssumption DEF CanDeliver, DeliverInput, TypeOK
      <4>4. Abstract!Deliver
        BY <3>1, <4>1, <4>2, <4>3 DEF Abstract!Deliver, queue
      <4> QED
        BY <3>1, <4>4 DEF Abstract!Next
    <3>3. CASE ~ CanDeliver
      <4>1. UNCHANGED <<channel, held, unread, fromhost, pending_reads>>
        BY <2>8, <3>3 DEF DeliverInput, thread
      <4> QED
        BY <2>1, <2>2, <2>3, <3>1, <4>1
    <3> QED
      BY <3>2, <3>3
  <2>9. CASE HandleRequest
    <3>1. outcome = "running" /\ queue' = queue /\ UNCHANGED <<taken, fromhost>>
      BY <2>3, <2>9 DEF HandleRequest, Accounted, thread, guest
    <3>2. CASE ~ Pending \/ tohost = NoRequest
      BY <2>1, <2>2, <2>9, <3>1, <3>2 DEF HandleRequest
    <3>3. CASE Pending /\ tohost # NoRequest
      <4>1. Handle(tohost) /\ tohost[2] \in Bytes
        BY <2>9, <3>3 DEF HandleRequest, TypeOK, RequestTypes
      <4>2. CASE outcome' = outcome /\ stdout' = Append(stdout, tohost[2])
                 /\ pending_reads' = pending_reads
        <5>1. Abstract!Put(tohost[2])
          BY <3>1, <4>2 DEF Abstract!Put, queue
        <5> QED
          BY <3>1, <4>1, <5>1 DEF Abstract!Next
      <4>3. CASE outcome' = outcome /\ stdout' = stdout /\ pending_reads' = pending_reads + 1
        <5>1. Abstract!Accept
          BY <3>1, <4>3 DEF Abstract!Accept, queue
        <5> QED
          BY <3>1, <5>1 DEF Abstract!Next
      <4>4. CASE outcome' # "running" /\ UNCHANGED <<pending_reads, stdout>>
        <5>1. Abstract!End
          BY <3>1, <4>4 DEF Abstract!End, queue
        <5> QED
          BY <3>1, <5>1 DEF Abstract!Next
      <4> QED
        BY <4>1, <4>2, <4>3, <4>4 DEF Handle, Finish
    <3> QED
      BY <3>2, <3>3
  <2> QED
    BY <2>4, <2>5, <2>6, <2>7, <2>8, <2>9 DEF Next, MainThread
<1> HIDE DEF Same
<1> QED
  BY <1>1, <1>2, <1>3, TypeCorrect, AccountedInvariant, PTL DEF Spec
=============================================================================
