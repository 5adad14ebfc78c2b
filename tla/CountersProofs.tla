--------------------------- MODULE CountersProofs --------------------------
(* Proofs about the counters, for every width. *)
EXTENDS Counters, TLAPS

LEMMA WrappedType ==
  ASSUME NEW x \in Values
  PROVE  Wrapped(x) \in Values
BY SpanAssumption DEF Wrapped, Values

LEMMA TypeInit == Init => TypeOK
<1>1. 0 \in Values
  BY SpanAssumption DEF Values
<1> QED
  BY <1>1 DEF Init, TypeOK, Privileges

LEMMA ExecutesType ==
  ASSUME TypeOK, NEW writes \in SUBSET Counters, Executes(writes)
  PROVE  /\ phase' \in {"execute", "count"} /\ inhibited' \subseteq Counters
         /\ counter_written' \subseteq Counters /\ completed' \in [Counters -> Values]
<1>1. 0 \in Values
  BY SpanAssumption DEF Values
<1>2. completed' \in [Counters -> Values]
  BY <1>1, WrappedType DEF TypeOK, Executes
<1> QED
  BY <1>2 DEF TypeOK, Executes

LEMMA TypeStep == TypeOK /\ [Next]_vars => TypeOK'
<1> SUFFICES ASSUME TypeOK, [Next]_vars PROVE TypeOK'
  OBVIOUS
<1>1. ASSUME ExecutesPlain PROVE /\ phase' \in {"execute", "count"} /\ inhibited' \subseteq Counters
                                 /\ counter_written' \subseteq Counters
                                 /\ completed' \in [Counters -> Values]
                                 /\ UNCHANGED <<count, written>>
  BY <1>1, ExecutesType DEF ExecutesPlain
<1>2. ASSUME NEW k \in Counters, ReadCounter(k) PROVE TypeOK'
  BY <1>1, <1>2 DEF ReadCounter, TypeOK, enables
<1>3. ASSUME NEW k \in Counters, NEW value \in CounterWrites, WriteCounter(k, value) PROVE TypeOK'
  <2>1. value \in Values
    BY SpanAssumption
  <2> QED
    BY <1>3, <2>1, ExecutesType DEF WriteCounter, TypeOK, enables
<1>4. ASSUME NEW inhibits \in SUBSET Counters, WriteInhibit(inhibits) PROVE TypeOK'
  BY <1>1, <1>4 DEF WriteInhibit, TypeOK, enables
<1>5. ASSUME WriteEnable PROVE TypeOK'
  BY <1>1, <1>5 DEF WriteEnable, TypeOK
<1>6. ASSUME OtherInstruction PROVE TypeOK'
  BY <1>1, <1>6 DEF OtherInstruction, TypeOK, enables
<1>7. ASSUME Trap PROVE TypeOK'
  BY <1>7 DEF Trap, TypeOK, enables
<1>8. ASSUME Count PROVE TypeOK'
  BY <1>8, WrappedType DEF Count, ClearWritten, TypeOK, enables
<1>9. ASSUME UNCHANGED vars PROVE TypeOK'
  BY <1>9 DEF vars, TypeOK
<1> QED
  BY <1>2, <1>3, <1>4, <1>5, <1>6, <1>7, <1>8, <1>9 DEF Next

\* The counters stay within their width, whatever software writes.
THEOREM TypeCorrect == Spec => []TypeOK
BY TypeInit, TypeStep, PTL DEF Spec

-----------------------------------------------------------------------------

\* A written value and a count of instructions are the counter.
LEMMA WrittenAlone ==
  ASSUME NEW x \in Values
  PROVE  (x + 0) % CounterSpan = x
BY SpanAssumption DEF Values

\* Counting one more instruction is advancing the counter.
LEMMA OneMore ==
  ASSUME NEW x \in Values, NEW y \in Values
  PROVE  (x + Wrapped(y)) % CounterSpan = Wrapped((x + y) % CounterSpan)
<1> DEFINE N == CounterSpan
<1>1. N \in Nat \ {0} /\ x \in 0 .. N - 1 /\ y \in 0 .. N - 1
  BY SpanAssumption DEF Values
<1> HIDE DEF N
<1>2. \A s \in 0 .. N - 1 : s % N = s
  BY <1>1
<1>3. \A s \in N .. 2 * N - 1 : s % N = s - N
  BY <1>1
<1>4. \A s \in 0 .. N - 1 : (s + 1) % N = IF s + 1 = N THEN 0 ELSE s + 1
  BY <1>1, <1>2, <1>3
<1>5. (x + y) % N = IF x + y < N THEN x + y ELSE x + y - N
  BY <1>1, <1>2, <1>3
<1>6. (x + ((y + 1) % N)) % N = (((x + y) % N) + 1) % N
  <2>1. CASE y + 1 = N
    <3>1. (y + 1) % N = 0 /\ x + 0 = x /\ x % N = x
      BY <1>1, <1>2, <1>4, <2>1
    <3>2. (x + y) % N = IF x = 0 THEN N - 1 ELSE x - 1
      BY <1>1, <1>5, <2>1
    <3> QED
      BY <1>1, <1>4, <3>1, <3>2
  <2>2. CASE y + 1 < N
    <3>1. (y + 1) % N = y + 1
      BY <1>1, <1>4, <2>2
    <3>2. (x + (y + 1)) % N = IF x + y + 1 < N THEN x + y + 1 ELSE x + y + 1 - N
      BY <1>1, <1>2, <1>3, <2>2
    <3>3. (x + y) % N \in 0 .. N - 1
      BY <1>1, <1>5
    <3> QED
      BY <1>1, <1>4, <1>5, <3>1, <3>2, <3>3
  <2> QED
    BY <1>1, <2>1, <2>2
<1> QED
  <2>1. Wrapped(y) = (y + 1) % N /\ Wrapped((x + y) % N) = (((x + y) % N) + 1) % N
    BY DEF Wrapped, N
  <2>2. (x + Wrapped(y)) % N = Wrapped((x + y) % N)
    <3>1. Wrapped(y) \in Int /\ Wrapped((x + y) % N) \in Int
      BY <1>1, <1>4, <1>5, <2>1
    <3> QED
      BY <1>1, <1>6, <2>1, <3>1
  <2> QED
    BY <2>2 DEF N

LEMMA ExecutesOwes ==
  ASSUME TypeOK, CountsOwed, NEW writes \in SUBSET Counters, Executes(writes),
         NEW k \in Counters, k \in writes => count'[k] = written'[k] /\ written'[k] \in Values,
         k \notin writes => count'[k] = count[k] /\ written'[k] = written[k]
  PROVE  Expected(k)' = IF k \in inhibited' \cup counter_written' THEN count'[k]
                        ELSE Wrapped(count'[k])
<1>1. counter_written' = writes /\ inhibited' = mcountinhibit
  BY DEF Executes, CountsOwed
<1>2. Expected(k) = count[k]
  BY DEF Executes, CountsOwed
<1>3. CASE k \in writes
  <2>1. completed'[k] = 0
    BY <1>3 DEF Executes
  <2>2. Expected(k)' = (written'[k] + 0) % CounterSpan
    BY <2>1 DEF Expected
  <2> QED
    BY <1>1, <1>3, <2>2, WrittenAlone
<1>4. CASE k \notin writes /\ k \in mcountinhibit
  BY <1>1, <1>2, <1>4 DEF Expected, Executes
<1>5. CASE k \notin writes /\ k \notin mcountinhibit
  <2>1. completed'[k] = Wrapped(completed[k])
    BY <1>5 DEF Executes
  <2>2. written[k] \in Values /\ completed[k] \in Values
    BY DEF TypeOK
  <2>3. Expected(k)' = Wrapped(Expected(k))
    BY <1>5, <2>1, <2>2, OneMore DEF Expected
  <2> QED
    BY <1>1, <1>2, <1>5, <2>3
<1> QED
  BY <1>3, <1>4, <1>5

LEMMA OwedStep == TypeOK /\ CountsOwed /\ [Next]_vars => CountsOwed'
<1> SUFFICES ASSUME TypeOK, CountsOwed, [Next]_vars PROVE CountsOwed'
  OBVIOUS
<1>1. ASSUME ExecutesPlain PROVE CountsOwed'
  <2>1. \A k \in Counters :
          Expected(k)' = IF k \in inhibited' \cup counter_written' THEN count'[k]
                         ELSE Wrapped(count'[k])
    BY <1>1, ExecutesOwes DEF ExecutesPlain
  <2> QED
    BY <1>1, <2>1 DEF CountsOwed, ExecutesPlain, Executes
<1>2. ASSUME NEW k \in Counters, NEW value \in CounterWrites, WriteCounter(k, value)
      PROVE  CountsOwed'
  <2>1. value \in Values /\ count'[k] = value /\ written'[k] = value
    BY <1>2, SpanAssumption DEF WriteCounter, TypeOK
  <2>2. \A j \in Counters : j # k => count'[j] = count[j] /\ written'[j] = written[j]
    BY <1>2 DEF WriteCounter, TypeOK
  <2>3. \A j \in Counters :
          Expected(j)' = IF j \in inhibited' \cup counter_written' THEN count'[j]
                         ELSE Wrapped(count'[j])
    BY <1>2, <2>1, <2>2, ExecutesOwes DEF WriteCounter
  <2> QED
    BY <1>2, <2>3 DEF CountsOwed, WriteCounter, Executes
<1>3. ASSUME Count PROVE CountsOwed'
  <2>1. \A k \in Counters : Expected(k)' = Expected(k)
    BY <1>3 DEF Count, Expected
  <2>2. \A k \in Counters : count'[k] = Expected(k)
    BY <1>3 DEF Count, CountsOwed
  <2> QED
    BY <1>3, <2>1, <2>2 DEF CountsOwed, Count, ClearWritten
<1>4. ASSUME Trap \/ UNCHANGED vars PROVE CountsOwed'
  BY <1>4 DEF Trap, vars, CountsOwed, Expected
<1> QED
  BY <1>1, <1>2, <1>3, <1>4
     DEF Next, ReadCounter, WriteInhibit, WriteEnable, OtherInstruction

\* A counter is what was last written to it and the instructions it has counted since.
THEOREM CountersCountInstructions == Spec => []CountsInstructions
<1>1. Init => CountsOwed
  <2>1. 0 \in Values
    BY SpanAssumption DEF Values
  <2> QED
    BY <2>1, WrittenAlone DEF Init, CountsOwed, Expected
<1>2. CountsOwed => CountsInstructions
  BY DEF CountsOwed, CountsInstructions
<1> QED
  BY <1>1, <1>2, OwedStep, TypeCorrect, PTL DEF Spec
=============================================================================
