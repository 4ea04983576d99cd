--------------------------- MODULE CpuStatProofs ---------------------------
(***************************************************************************)
(* Proofs about CpuStat, for any number of lines, any width of the words   *)
(* and any bound on the kernel's counters.                                 *)
(***************************************************************************)
EXTENDS CpuStat, TLAPS

-----------------------------------------------------------------------------
(* Unsigned words, which are numbers modulo W, for any W.                  *)

(* Remainders are unique.                                                  *)
LEMMA RemainderUnique ==
    ASSUME NEW W \in Nat, W > 0, NEW q \in Int, NEW r \in Int, 0 <= r, r < W
    PROVE  (W * q + r) % W = r
OBVIOUS

LEMMA Distribute ==
    ASSUME NEW W \in Int, NEW x \in Int, NEW y \in Int
    PROVE  /\ W * (x - y) = W * x - W * y
           /\ W * (x + y) = W * x + W * y
OBVIOUS

(* Every number is a multiple of the word and a remainder.                 *)
LEMMA Remainder ==
    ASSUME NEW W \in Nat, W > 0, NEW a \in Int
    PROVE  /\ (a % W) \in 0..(W - 1)
           /\ \E q \in Int : a = W * q + (a % W)
<1>1. (a % W) \in 0..(W - 1)
    OBVIOUS
<1> DEFINE d == a \div W
<1> DEFINE r == (a % W)
<1>2. a = d * W + r
    OBVIOUS
<1>3. d \in Int /\ r \in Int
    BY <1>1
<1> HIDE DEF d, r
<1>4. a = W * d + r
    BY <1>2, <1>3
<1>5. \E q \in Int : a = W * q + r
    BY <1>3, <1>4
<1>6. QED
    BY <1>1, <1>5 DEF r

(* Words subtract as the numbers they are cut from, if those are in order  *)
(* and less than a word apart.                                             *)
LEMMA WordDifference ==
    ASSUME NEW W \in Nat, W > 0, NEW a \in Nat, NEW b \in Nat, a <= b, b - a < W
    PROVE  ((b % W) - (a % W)) % W = b - a
<1>1. PICK p \in Int : a = W * p + (a % W)
    BY Remainder
<1>2. PICK q \in Int : b = W * q + (b % W)
    BY Remainder
<1>3. (a % W) \in Int /\ (b % W) \in Int
    BY Remainder
<1>4. (b % W) - (a % W) = W * (p - q) + (b - a)
  <2>1. (b % W) - (a % W) = (W * p - W * q) + (b - a)
      BY <1>1, <1>2, <1>3
  <2>2. QED
      BY <2>1, Distribute
<1>5. QED
    BY <1>4, RemainderUnique

(* A sum of words is the word of the sum.                                  *)
LEMMA WordSum ==
    ASSUME NEW W \in Nat, W > 0, NEW a \in Nat, NEW b \in Nat
    PROVE  ((a % W) + (b % W)) % W = (a + b) % W
<1>1. PICK p \in Int : a = W * p + (a % W)
    BY Remainder
<1>2. PICK q \in Int : b = W * q + (b % W)
    BY Remainder
<1>3. (a % W) \in Int /\ (b % W) \in Int
    BY Remainder
<1> DEFINE r == ((a % W) + (b % W)) % W
<1>4. r \in 0..(W - 1)
    BY <1>3, Remainder
<1>5. PICK k \in Int : (a % W) + (b % W) = W * k + r
    BY <1>3, Remainder
<1>6. a + b = W * (p + q + k) + r
  <2>1. a + b = (W * p + W * q) + (W * k + r)
      BY <1>1, <1>2, <1>3, <1>4, <1>5
  <2>2. W * (p + q + k) = (W * p + W * q) + W * k
      BY Distribute
  <2>3. QED
      BY <2>1, <2>2, <1>4
<1>7. QED
    BY <1>4, <1>6, RemainderUnique

-----------------------------------------------------------------------------
LEMMA InitIInv == Init => IInv
BY CpuAssumption, NoneAssumption
   DEF Init, IInv, TypeOK, WordsOfCounters, CountersAdvance, UsageIsExact

(* Time passes: counters go up, and what has been read stays.              *)
LEMMA KernelIInv ==
    ASSUME IInv, NEW c \in Cpus, Busy(c) \/ Idle(c) \/ Iowait(c) \/ Steal(c) \/ Plug(c)
    PROVE  IInv'
<1> USE CpuAssumption DEF IInv, program, kernel
<1>1. UNCHANGED <<store, read, elapsed>>
    BY DEF Busy, Idle, Iowait, Steal, Plug
<1>2. TypeOK'
    BY <1>1 DEF TypeOK, Busy, Idle, Iowait, Steal, Plug, Jiffies
<1>3. WordsOfCounters' /\ UsageIsExact'
    BY <1>1 DEF WordsOfCounters, UsageIsExact
<1>4. \A d \in Cpus : read[d] # None => read[d][1] \in Nat /\ read[d][2] \in Nat
    BY DEF TypeOK, Times
<1>5. \A d \in Cpus : busy[d] \in Nat /\ idle[d] \in Nat
    BY DEF TypeOK, Jiffies
<1>6. CountersAdvance'
  <2> SUFFICES ASSUME NEW d \in Cpus, read[d] # None
               PROVE  /\ read[d][2] <= idle'[d]
                      /\ busy'[d] + idle'[d] - read[d][1] - read[d][2] < Word
      BY <1>1 DEF CountersAdvance
  <2>1. CASE busy'[d] = busy[d] /\ idle'[d] = idle[d]
      BY <2>1 DEF CountersAdvance
  <2>2. CASE Busy(c) /\ d = c
      BY <2>2, <1>4, <1>5 DEF CountersAdvance, Busy, Room, TypeOK
  <2>3. CASE Idle(c) /\ d = c
      BY <2>3, <1>4, <1>5 DEF CountersAdvance, Idle, Room, TypeOK
  <2>4. CASE Iowait(c) /\ d = c
      BY <2>4, <1>4, <1>5 DEF CountersAdvance, Iowait, TypeOK
  <2>5. QED
      BY <2>1, <2>2, <2>3, <2>4 DEF Busy, Idle, Iowait, Steal, Plug, TypeOK
<1>7. QED
    BY <1>2, <1>3, <1>6

(* The words of a new snapshot, and its usage against the old one, if      *)
(* activity has not gone back.                                             *)
LEMMA ParseIsExact ==
    ASSUME TypeOK, WordsOfCounters, CountersAdvance,
           NEW c \in Cpus, read[c] # None, read[c][1] <= busy[c]
    PROVE  Usage(store[c], IdleJiffies(c), TotalJiffies(c)) =
               <<busy[c] - read[c][1], busy[c] + idle[c] - read[c][1] - read[c][2]>>
<1> DEFINE b == busy[c]
<1> DEFINE i == idle[c]
<1> DEFINE rb == read[c][1]
<1> DEFINE ri == read[c][2]
<1>1. b \in Nat /\ i \in Nat /\ rb \in Nat /\ ri \in Nat /\ Word \in Nat /\ Word > 0
    BY CpuAssumption, NoneAssumption DEF TypeOK, Jiffies, Times
<1>2. rb <= b /\ ri <= i /\ b + i - rb - ri < Word
    BY DEF CountersAdvance
<1>3. /\ store[c] # None /\ store[c].idle_jiffies = ri % Word
      /\ store[c].total_jiffies = (rb + ri) % Word
    BY DEF WordsOfCounters
<1>4. IdleJiffies(c) = i % Word
    BY DEF IdleJiffies
<1> HIDE DEF b, i, rb, ri
<1>5. TotalJiffies(c) = (b + i) % Word
    BY <1>1, WordSum DEF TotalJiffies, Plus, b, i
<1>6. Minus(IdleJiffies(c), store[c].idle_jiffies) = i - ri
  <2>1. i - ri < Word
      BY <1>1, <1>2
  <2>2. ((i % Word) - (ri % Word)) % Word = i - ri
      BY <1>1, <1>2, <2>1, WordDifference
  <2>3. QED
      BY <1>3, <1>4, <2>2 DEF Minus
<1>7. Minus(TotalJiffies(c), store[c].total_jiffies) = (b + i) - (rb + ri)
  <2>1. b + i \in Nat /\ rb + ri \in Nat /\ rb + ri <= b + i /\ (b + i) - (rb + ri) < Word
      BY <1>1, <1>2
  <2>2. (((b + i) % Word) - ((rb + ri) % Word)) % Word = (b + i) - (rb + ri)
      BY <1>1, <2>1, WordDifference
  <2>3. QED
      BY <1>3, <1>5, <2>2 DEF Minus
<1>8. Minus((b + i) - (rb + ri), i - ri) = b - rb
  <2>1. ((b + i) - (rb + ri)) - (i - ri) = Word * 0 + (b - rb)
      BY <1>1
  <2>2. b - rb \in Int /\ 0 <= b - rb /\ b - rb < Word
      BY <1>1, <1>2
  <2>3. QED
      BY <1>1, <2>1, <2>2, RemainderUnique DEF Minus
<1>9. (b + i) - (rb + ri) = b + i - rb - ri
    BY <1>1
<1>10. QED
    BY <1>3, <1>6, <1>7, <1>8, <1>9 DEF Usage, b, i, rb, ri

(* A poll replaces every snapshot by an exact one.                         *)
LEMMA PollIInv ==
    ASSUME IInv, ReadSystemStat
    PROVE  IInv'
<1> USE CpuAssumption, NoneAssumption DEF IInv, ReadSystemStat, kernel
<1>1. \A c \in Cpus : busy[c] \in Nat /\ idle[c] \in Nat
    BY DEF TypeOK, Jiffies
<1>2. \A c \in Cpus : read[c] # None => read[c][1] \in Nat /\ read[c][2] \in Nat
    BY DEF TypeOK, Times
<1>3. \A c \in Cpus : IdleJiffies(c) \in 0..(Word - 1) /\ TotalJiffies(c) \in 0..(Word - 1)
  <2> SUFFICES ASSUME NEW c \in Cpus
               PROVE  IdleJiffies(c) \in 0..(Word - 1) /\ TotalJiffies(c) \in 0..(Word - 1)
      OBVIOUS
  <2>1. (busy[c] % Word) \in Int /\ (idle[c] % Word) \in 0..(Word - 1)
      BY <1>1, Remainder
  <2>2. (busy[c] % Word) + (idle[c] % Word) \in Int
      BY <2>1
  <2>3. QED
      BY <2>1, <2>2, Remainder DEF IdleJiffies, TotalJiffies, Plus
<1>4. ASSUME NEW c \in Cpus, online[c] = "yes", elapsed'[c] # None => elapsed'[c][1] >= 0
      PROVE  elapsed'[c] = Usage(store[c], IdleJiffies(c), TotalJiffies(c))
  <2>1. CASE read[c] = None
      BY <1>4, <2>1 DEF Usage, WordsOfCounters
  <2>2. CASE read[c] # None
    <3>1. elapsed'[c] = <<busy[c] - read[c][1], busy[c] + idle[c] - read[c][1] - read[c][2]>>
        BY <1>4, <2>2
    <3>2. elapsed'[c] # None
        BY <3>1, <1>1, <1>2, <2>2 DEF Spans
    <3>3. read[c][1] <= busy[c]
        BY <1>1, <1>2, <1>4, <2>2, <3>1, <3>2
    <3>4. QED
        BY <2>2, <3>1, <3>3, ParseIsExact
  <2>3. QED
      BY <2>1, <2>2
<1>5. \A c \in Cpus : /\ elapsed'[c] \in Spans \cup {None}
                     /\ Usage(store[c], IdleJiffies(c), TotalJiffies(c)) \in Times \cup {None}
  <2> SUFFICES ASSUME NEW c \in Cpus
               PROVE  /\ elapsed'[c] \in Spans \cup {None}
                      /\ Usage(store[c], IdleJiffies(c), TotalJiffies(c)) \in Times \cup {None}
      OBVIOUS
  <2>1. elapsed'[c] \in Spans \cup {None}
      BY <1>1, <1>2 DEF Spans
  <2>2. \A x, y \in Int : Minus(x, y) \in 0..(Word - 1)
      BY Remainder DEF Minus
  <2>3. store[c] # None => store[c].idle_jiffies \in Int /\ store[c].total_jiffies \in Int
      BY DEF TypeOK, Snapshots
  <2>4. IdleJiffies(c) \in Int /\ TotalJiffies(c) \in Int
      BY <1>3
  <2>5. CASE store[c] # None
    <3> DEFINE idle_time == Minus(IdleJiffies(c), store[c].idle_jiffies)
    <3> DEFINE total_time == Minus(TotalJiffies(c), store[c].total_jiffies)
    <3>1. idle_time \in 0..(Word - 1) /\ total_time \in 0..(Word - 1)
        BY <2>2, <2>3, <2>4, <2>5
    <3>2. Minus(total_time, idle_time) \in Nat /\ total_time \in Nat
      <4> HIDE DEF idle_time, total_time
      <4>1. Minus(total_time, idle_time) \in 0..(Word - 1)
          BY <2>2, <3>1
      <4>2. QED
          BY <3>1, <4>1
    <3>3. QED
        BY <2>1, <2>5, <3>2 DEF Usage, Times
  <2>6. QED
      BY <2>1, <2>5 DEF Usage
<1>6. \A c \in Cpus : Parse(c).usage = Usage(store[c], IdleJiffies(c), TotalJiffies(c))
    BY DEF Parse
<1>7. \A c \in Cpus : online[c] = "yes" => Parse(c) \in Snapshots
    BY <1>3, <1>4, <1>5 DEF Parse, Snapshots
<1>8. TypeOK'
    BY <1>1, <1>5, <1>7 DEF TypeOK, Times
<1>9. \A c \in Cpus : <<busy[c], idle[c]>> # None
    BY <1>1 DEF Spans
<1>10. WordsOfCounters'
  <2> SUFFICES ASSUME NEW c \in Cpus
               PROVE  /\ store'[c] = None <=> read'[c] = None
                      /\ read'[c] # None =>
                            /\ store'[c].idle_jiffies = read'[c][2] % Word
                            /\ store'[c].total_jiffies = (read'[c][1] + read'[c][2]) % Word
      BY DEF WordsOfCounters
  <2>1. CASE online[c] = "yes"
    <3>0. Parse(c) # None
        BY <2>1, <1>7
    <3>1. store'[c] = Parse(c) /\ read'[c] = <<busy[c], idle[c]>>
        BY <2>1
    <3>2. read'[c] # None /\ read'[c][1] = busy[c] /\ read'[c][2] = idle[c]
        BY <3>1, <1>9
    <3>3. Parse(c).idle_jiffies = idle[c] % Word
        BY DEF Parse, IdleJiffies
    <3>4. Parse(c).total_jiffies = (busy[c] + idle[c]) % Word
      <4>1. Word \in Nat /\ Word > 0
          OBVIOUS
      <4>2. ((busy[c] % Word) + (idle[c] % Word)) % Word = (busy[c] + idle[c]) % Word
          BY <1>1, <4>1, WordSum
      <4>3. QED
          BY <4>2 DEF Parse, TotalJiffies, Plus
    <3>5. QED
        BY <3>0, <3>1, <3>2, <3>3, <3>4
  <2>2. CASE online[c] # "yes"
      BY <2>2
  <2>3. QED
      BY <2>1, <2>2
<1>11. CountersAdvance'
    BY <1>1 DEF CountersAdvance
<1>12. UsageIsExact'
  <2> SUFFICES ASSUME NEW c \in Cpus, store'[c] # None, elapsed'[c] # None => elapsed'[c][1] >= 0
               PROVE  store'[c].usage = elapsed'[c]
      BY DEF UsageIsExact
  <2>1. online[c] = "yes" /\ store'[c] = Parse(c)
      OBVIOUS
  <2>2. QED
      BY <1>4, <1>6, <2>1
<1>13. QED
    BY <1>8, <1>10, <1>11, <1>12

(* Every step keeps the invariant.                                         *)
LEMMA NextIInv == IInv /\ [Next]_vars => IInv'
<1> SUFFICES ASSUME IInv, [Next]_vars PROVE IInv'
    OBVIOUS
<1>1. ASSUME NEW c \in Cpus, Busy(c) \/ Idle(c) \/ Iowait(c) \/ Steal(c) \/ Plug(c) PROVE IInv'
    BY <1>1, KernelIInv
<1>2. CASE ReadSystemStat
    BY <1>2, PollIInv
<1>3. CASE UNCHANGED vars
    BY <1>3 DEF vars, kernel, program, IInv, TypeOK, WordsOfCounters, CountersAdvance, UsageIsExact
<1>4. QED
    BY <1>1, <1>2, <1>3 DEF Next

(* The words stored are those of the kernel's counters, which have gone on *)
(* by less than a word of time since.                                      *)
THEOREM Invariance == Spec => []IInv
<1>1. IInv /\ [Next]_vars => IInv'
    BY NextIInv
<1>2. QED
    BY InitIInv, <1>1, PTL DEF Spec

(* The counters of /proc/stat may wrap round their 32 bits at any time:    *)
(* CPU usage is the share of activity in the time since the poll before,   *)
(* for words of every width, on every line.                                *)
THEOREM ExactUsage == Spec => []UsageIsExact
<1>1. IInv => UsageIsExact
    BY DEF IInv
<1>2. QED
    BY Invariance, <1>1, PTL
=============================================================================
