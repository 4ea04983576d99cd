--------------------------- MODULE ProcStatProofs ---------------------------
(***************************************************************************)
(* Proofs about ProcStat, for any width of the words and any bounds.       *)
(***************************************************************************)
EXTENDS ProcStat, TLAPS

-----------------------------------------------------------------------------
(* Unsigned words, which are numbers modulo W, for any W.                  *)

(* Remainders are unique.                                                  *)
LEMMA RemainderUnique ==
    ASSUME NEW W \in Nat, W > 0, NEW q \in Int, NEW r \in Int, 0 <= r, r < W
    PROVE  (W * q + r) % W = r
OBVIOUS

LEMMA Distribute ==
    ASSUME NEW W \in Int, NEW x \in Int, NEW y \in Int
    PROVE  /\ W * (x - y) = W * x - W * y
           /\ W * (x + y) = W * x + W * y
OBVIOUS

(* Every number is a multiple of the word and a remainder.                 *)
LEMMA Remainder ==
    ASSUME NEW W \in Nat, W > 0, NEW a \in Int
    PROVE  /\ (a % W) \in 0..(W - 1)
           /\ \E q \in Int : a = W * q + (a % W)
<1>1. (a % W) \in 0..(W - 1)
    OBVIOUS
<1> DEFINE d == a \div W
<1> DEFINE r == (a % W)
<1>2. a = d * W + r
    OBVIOUS
<1>3. d \in Int /\ r \in Int
    BY <1>1
<1> HIDE DEF d, r
<1>4. a = W * d + r
    BY <1>2, <1>3
<1>5. \E q \in Int : a = W * q + r
    BY <1>3, <1>4
<1>6. QED
    BY <1>1, <1>5 DEF r

(* A sum of words is the word of the sum.                                  *)
LEMMA WordSum ==
    ASSUME NEW W \in Nat, W > 0, NEW a \in Nat, NEW b \in Nat
    PROVE  ((a % W) + (b % W)) % W = (a + b) % W
<1>1. PICK p \in Int : a = W * p + (a % W)
    BY Remainder
<1>2. PICK q \in Int : b = W * q + (b % W)
    BY Remainder
<1>3. (a % W) \in Int /\ (b % W) \in Int
    BY Remainder
<1> DEFINE r == ((a % W) + (b % W)) % W
<1>4. r \in 0..(W - 1)
    BY <1>3, Remainder
<1>5. PICK k \in Int : (a % W) + (b % W) = W * k + r
    BY <1>3, Remainder
<1>6. a + b = W * (p + q + k) + r
  <2>1. a + b = (W * p + W * q) + (W * k + r)
      BY <1>1, <1>2, <1>3, <1>4, <1>5
  <2>2. W * (p + q + k) = (W * p + W * q) + W * k
      BY Distribute
  <2>3. QED
      BY <2>1, <2>2, <1>4
<1>7. QED
    BY <1>4, <1>6, RemainderUnique

LEMMA Quotient ==
    ASSUME NEW W \in Nat, W > 0, NEW a \in Nat
    PROVE  /\ (a % W) \in 0..(W - 1) /\ a \div W \in Int
           /\ a = W * (a \div W) + (a % W)
<1> DEFINE d == a \div W
<1> DEFINE r == a % W
<1>1. a = d * W + r
    OBVIOUS
<1>2. d \in Int /\ r \in 0..(W - 1)
    OBVIOUS
<1> HIDE DEF d, r
<1>3. a = W * d + r
    BY <1>1, <1>2
<1>4. QED
    BY <1>2, <1>3 DEF d, r

LEMMA Multiple ==
    ASSUME NEW W \in Nat, W > 0, NEW k \in Int, k >= 1
    PROVE  W * k >= W
<1>1. W * (k - 1) >= 0
    OBVIOUS
<1>2. W * (k - 1) = W * k - W
    OBVIOUS
<1>3. QED
    BY <1>1, <1>2

(* The difference of two words, taken without wrapping: it is that of the  *)
(* numbers unless the word has wrapped in between, and then, if that was   *)
(* once, it is not positive.                                               *)
LEMMA PlainDifference ==
    ASSUME NEW W \in Nat, W > 0, NEW a \in Nat, NEW b \in Nat, a <= b
    PROVE  \/ (b % W) - (a % W) = b - a
           \/ /\ b \div W > a \div W
              /\ b - a < W => (b % W) - (a % W) <= 0
<1> DEFINE p == a \div W
<1> DEFINE q == b \div W
<1> DEFINE r == a % W
<1> DEFINE t == b % W
<1>1. p \in Int /\ r \in 0..(W - 1) /\ a = W * p + r
    BY Quotient
<1>2. q \in Int /\ t \in 0..(W - 1) /\ b = W * q + t
    BY Quotient
<1> HIDE DEF p, q, r, t
<1>3. W * (q - p) = W * q - W * p /\ W * (p - q) = W * p - W * q
    BY <1>1, <1>2, Distribute
<1>4. CASE q = p
    <2>1. t - r = b - a
        BY <1>1, <1>2, <1>4
    <2>2. QED
        BY <2>1 DEF t, r
<1>5. CASE q > p
    <2>1. W * (q - p) >= W
        BY <1>1, <1>2, <1>5, Multiple
    <2>2. W * p \in Int /\ W * q \in Int
        BY <1>1, <1>2
    <2>3. b - a = (W * q - W * p) + (t - r)
        BY <1>1, <1>2, <2>2
    <2>4. b - a < W => t - r <= 0
        BY <1>1, <1>2, <1>3, <2>1, <2>2, <2>3
    <2>5. QED
        BY <1>5, <2>4 DEF p, q, t, r
<1>6. CASE q < p
    <2>1. W * (p - q) >= W
        BY <1>1, <1>2, <1>6, Multiple
    <2>2. W * p \in Int /\ W * q \in Int
        BY <1>1, <1>2
    <2>3. b < a
        BY <1>1, <1>2, <1>3, <2>1, <2>2
    <2>4. QED
        BY <2>3
<1>7. QED
    BY <1>1, <1>2, <1>4, <1>5, <1>6

-----------------------------------------------------------------------------
Ran == column[utime] + column[stime]

(* What has been read is past.                                             *)
ReadingsArePast ==
    store # None =>
        /\ store \in Snapshots /\ store.snapshot_time <= now
        /\ truth.last \in Readings /\ truth.last.ran <= Ran

(* While the name is one word, what is stored is the time that the process *)
(* had run, cut to a word.                                                 *)
WordsOfTimes ==
    store # None /\ truth.last.named = 1 => Scheduled(store) = truth.last.ran % Word

IInv == TypeOK /\ ReadingsArePast /\ WordsOfTimes /\ UsageIsTimeRun

LEMMA Typed ==
    ASSUME TypeOK
    PROVE  /\ \A i \in {utime, stime} : column[i] \in Nat /\ ColumnRead(i) \in Nat
           /\ Ran \in Nat /\ words \in Nat \ {0} /\ now \in Nat
           /\ Word \in Nat /\ Word > 0
BY StatAssumption DEF TypeOK, ColumnRead, Ran, Columns, utime, stime, Times

LEMMA ClampTyped ==
    ASSUME NEW x \in Int, NEW limit \in Nat
    PROVE  Clamp(x, limit) \in 0..limit
BY DEF Clamp

LEMMA InitIInv == Init => IInv
<1> SUFFICES ASSUME Init PROVE IInv
    OBVIOUS
<1>1. TypeOK
    BY StatAssumption DEF Init, TypeOK, Times
<1>2. QED
    BY <1>1 DEF Init, IInv, ReadingsArePast, WordsOfTimes, UsageIsTimeRun

(* Between polls time goes on and counters go up.                          *)
LEMMA KernelIInv ==
    ASSUME IInv, Tick \/ (\E i \in Columns : Count(i)) \/ (\E n \in 1..MaxWords : Rename(n))
    PROVE  IInv'
<1>1. TypeOK /\ ReadingsArePast /\ WordsOfTimes /\ UsageIsTimeRun
    BY DEF IInv
<1>2. store' = store /\ truth' = truth
    BY DEF Tick, Count, Rename
<1>3. TypeOK'
    <2>1. column' \in [Columns -> 0..MaxCount]
        BY <1>1, StatAssumption DEF Tick, Count, Rename, TypeOK
    <2>2. words' \in 1..MaxWords /\ now' \in Times
        BY <1>1, StatAssumption DEF Tick, Count, Rename, TypeOK, Times
    <2>3. QED
        BY <1>1, <1>2, <2>1, <2>2 DEF TypeOK
<1>4. now' >= now
    BY <1>1, Typed DEF Tick, Count, Rename
<1>5. Ran' >= Ran /\ Ran' \in Nat
    <2>1. \A i \in Columns : column'[i] >= column[i] /\ column'[i] \in Nat /\ column[i] \in Nat
        BY <1>1, StatAssumption DEF Tick, Count, Rename, TypeOK
    <2>2. utime \in Columns /\ stime \in Columns
        BY StatAssumption DEF Columns, utime, stime
    <2>3. QED
        BY <2>1, <2>2 DEF Ran
<1>6. ReadingsArePast'
    <2> SUFFICES ASSUME store # None
                 PROVE  store.snapshot_time <= now' /\ truth.last.ran <= Ran'
        BY <1>1, <1>2 DEF ReadingsArePast
    <2>1. store.snapshot_time \in Nat /\ truth.last.ran \in Nat
        BY <1>1 DEF ReadingsArePast, Snapshots, Readings, Times
    <2>2. now \in Nat /\ now' \in Nat /\ Ran \in Nat
        BY <1>1, <1>3, Typed DEF TypeOK, Times
    <2>3. QED
        BY <1>1, <1>4, <1>5, <2>1, <2>2 DEF ReadingsArePast
<1>7. WordsOfTimes' /\ UsageIsTimeRun'
    BY <1>1, <1>2 DEF WordsOfTimes, UsageIsTimeRun
<1>8. QED
    BY <1>3, <1>6, <1>7 DEF IInv

(* One poll.                                                               *)
LEMMA PollIInv ==
    ASSUME IInv, ReadProcStat
    PROVE  IInv'
<1>1. TypeOK /\ ReadingsArePast /\ WordsOfTimes
    BY DEF IInv
<1> DEFINE s == [utime |-> Narrow(ColumnRead(utime)), stime |-> Narrow(ColumnRead(stime)),
                 snapshot_time |-> now, usage |-> None]
<1>2. /\ store' = [s EXCEPT !.usage = Usage(store, s)]
      /\ truth' = [last |-> [ran |-> Ran, named |-> words], before |-> truth.last]
      /\ column' = column /\ words' = words /\ now' = now
      /\ store # None => now > store.snapshot_time
    BY DEF ReadProcStat, Ran
<1>3. /\ \A i \in {utime, stime} : column[i] \in Nat /\ ColumnRead(i) \in Nat
      /\ Ran \in Nat /\ words \in Nat \ {0} /\ now \in Nat /\ Word \in Nat /\ Word > 0
    BY <1>1, Typed
<1>4. s.utime \in 0..(Word - 1) /\ s.stime \in 0..(Word - 1) /\ s.snapshot_time = now
    BY <1>3, Quotient DEF Narrow
<1>5. Scheduled(s) \in 0..(Word - 1)
    <2>1. s.utime + s.stime \in Nat
        BY <1>3, <1>4
    <2>2. QED
        BY <1>3, <2>1, Quotient DEF Scheduled, Narrow
<1>6. words = 1 => Scheduled(s) = Ran % Word
    <2>1. words = 1 => ColumnRead(utime) = column[utime] /\ ColumnRead(stime) = column[stime]
        BY DEF ColumnRead, utime, stime
    <2>2. words = 1 => Scheduled(s) = ((column[utime] % Word) + (column[stime] % Word)) % Word
        BY <2>1 DEF Scheduled, Narrow
    <2>3. QED
        BY <1>3, <2>2, WordSum DEF Ran
<1> DEFINE uptime_delta == now - store.snapshot_time
<1> DEFINE ran == Scheduled(s) - Scheduled(store)
<1>7. ASSUME store # None
      PROVE  /\ uptime_delta \in Nat /\ uptime_delta > 0
             /\ Scheduled(store) \in 0..(Word - 1) /\ ran \in Int
             /\ Usage(store, s) = <<Clamp(ran, uptime_delta), uptime_delta>>
    <2>1. store \in Snapshots
        BY <1>1, <1>7 DEF ReadingsArePast
    <2>2. store.utime + store.stime \in Nat /\ store.snapshot_time \in Nat
        BY <1>3, <2>1 DEF Snapshots, Times
    <2>3. Scheduled(store) \in 0..(Word - 1)
        BY <1>3, <2>2, Quotient DEF Scheduled, Narrow
    <2>4. uptime_delta \in Nat /\ uptime_delta > 0
        BY <1>2, <1>3, <1>7, <2>2
    <2>5. Usage(store, s) = <<Clamp(ran, uptime_delta), uptime_delta>>
        BY <1>7, <1>4 DEF Usage
    <2>6. QED
        BY <1>3, <1>5, <2>3, <2>4, <2>5
<1> HIDE DEF ran, uptime_delta
<1>8. Usage(store, s) \in (Int \X Int) \cup {None}
    <2>1. CASE store = None
        BY <2>1 DEF Usage
    <2>2. CASE store # None
        BY <2>2, <1>7, ClampTyped
    <2>3. QED
        BY <2>1, <2>2
<1>9. store' \in Snapshots /\ store'.usage = Usage(store, s)
      /\ store'.snapshot_time = now /\ Scheduled(store') = Scheduled(s)
    BY <1>1, <1>2, <1>4, <1>8 DEF Snapshots, Scheduled, TypeOK
<1>10. truth'.last \in Readings /\ truth'.last.ran = Ran /\ truth'.last.named = words
       /\ truth'.before = truth.last
    BY <1>1, <1>2, <1>3 DEF Readings, TypeOK
<1>11. TypeOK'
    BY <1>1, <1>2, <1>9, <1>10 DEF TypeOK
<1>12. ReadingsArePast'
    BY <1>2, <1>3, <1>9, <1>10 DEF ReadingsArePast, Ran
<1>13. WordsOfTimes'
    <2>1. words = 1 => Scheduled(store') = Ran % Word
        BY <1>6, <1>9
    <2>2. QED
        BY <2>1, <1>10 DEF WordsOfTimes, Scheduled, Narrow
<1>14. UsageIsTimeRun'
    <2> SUFFICES ASSUME store'.usage # None, truth'.last.named = 1, truth'.before.named = 1
                 PROVE  LET r == truth'.last.ran - truth'.before.ran
                        IN  \/ store'.usage[1] = Clamp(r, store'.usage[2])
                            \/ /\ truth'.last.ran \div Word > truth'.before.ran \div Word
                               /\ r < Word => store'.usage[1] = 0
        BY DEF UsageIsTimeRun, Clamp
    <2>1. store # None
        BY <1>9 DEF Usage
    <2>2. store'.usage[1] = Clamp(ran, uptime_delta) /\ store'.usage[2] = uptime_delta
        BY <1>7, <1>9, <2>1
    <2> DEFINE b == truth.last.ran
    <2>3. b \in Nat /\ b <= Ran
        BY <1>1, <2>1 DEF ReadingsArePast, Readings
    <2>4. ran = (Ran % Word) - (b % Word)
        BY <1>1, <1>6, <1>10, <2>1 DEF WordsOfTimes, ran
    <2>5. \/ ran = Ran - b
          \/ Ran \div Word > b \div Word /\ (Ran - b < Word => ran <= 0)
        BY <1>3, <2>3, <2>4, PlainDifference
    <2>6. ran <= 0 => Clamp(ran, uptime_delta) = 0
        BY <1>7, <2>1 DEF Clamp
    <2>7. truth'.last.ran = Ran /\ truth'.before.ran = b
        BY <1>10
    <2> HIDE DEF b
    <2>8. QED
        BY <2>2, <2>5, <2>6, <2>7
<1>15. QED
    BY <1>11, <1>12, <1>13, <1>14 DEF IInv

(* What is stored is what the process had run, cut to a word.              *)
THEOREM Invariance == Spec => []IInv
<1>1. IInv /\ [Next]_vars => IInv'
    <2> SUFFICES ASSUME IInv, [Next]_vars PROVE IInv'
        OBVIOUS
    <2>1. CASE UNCHANGED vars
        BY <2>1 DEF vars, IInv, TypeOK, ReadingsArePast, Ran, WordsOfTimes, Scheduled, Narrow,
                    UsageIsTimeRun, Clamp
    <2>2. CASE Next
        BY <2>2, KernelIInv, PollIInv DEF Next
    <2>3. QED
        BY <2>1, <2>2
<1>2. QED
    BY InitIInv, <1>1, PTL DEF Spec

(* Times are words, and a usage is a pair of numbers.                      *)
THEOREM Types == Spec => []TypeOK
<1>1. IInv => TypeOK
    BY DEF IInv
<1>2. QED
    BY Invariance, <1>1, PTL

(* Usage is the time run between two polls, except where its sum wraps.    *)
THEOREM TimeRun == Spec => []UsageIsTimeRun
<1>1. IInv => UsageIsTimeRun
    BY DEF IInv
<1>2. QED
    BY Invariance, <1>1, PTL
=============================================================================
