--------------------------- MODULE BackendProofs ---------------------------
(***************************************************************************)
(* Proofs about Backend, for any number of sessions and of polls.          *)
(***************************************************************************)
EXTENDS Backend, TLAPS

LEMMA RankTyped == \A c : Rank(c) \in Nat
BY DEF Rank

(* What the types say of the numbers that are compared.                    *)
LEMMA Numbers ==
    ASSUME TypeOK
    PROVE  /\ poll \in Nat /\ (monitor # "sleep" => poll - 1 \in Nat)
           /\ Completed \in Nat /\ Completed \in 0..MaxPolls
           /\ \A c \in Cells : store[c] \in Nat /\ delivered[c] \in Nat
           /\ \A s \in Sessions : asked[s] \in Cells /\ got[s] \in Nat /\ completed[s] \in Nat
           /\ \A s \in Sessions, c \in Cells : promised[s][c] \in Nat
<1> USE BackendAssumption DEF TypeOK
<1>1. poll \in Nat /\ (monitor # "sleep" => poll - 1 \in Nat)
    OBVIOUS
<1>2. Completed \in Nat /\ Completed \in 0..MaxPolls
    BY <1>1 DEF Completed
<1>3. \A s \in Sessions, c \in Cells : promised[s][c] \in Nat
    OBVIOUS
<1>4. QED
    BY <1>1, <1>2, <1>3

(* The invariant holds initially.                                          *)
LEMMA InitIInv == Init => IInv
<1> SUFFICES ASSUME Init PROVE IInv
    OBVIOUS
<1> USE BackendAssumption DEF Init, NothingYet
<1>1. TypeOK
    BY DEF TypeOK, Uses, Cells
<1>2. StoreByStage
    BY DEF StoreByStage
<1>3. ReadingsAgree
    BY DEF ReadingsAgree, Uses, Cells
<1>4. HistoryBehind
    BY DEF HistoryBehind, Completed, Cells
<1>5. AnswersNeverGoBack /\ AnswersAreCurrent
    BY DEF AnswersNeverGoBack, AnswersAreCurrent
<1>6. QED
    BY <1>1, <1>2, <1>3, <1>4, <1>5 DEF IInv

(* Two members differ by at most one poll, and in the order of the cycle.  *)
LEMMA SkewFromStage ==
    ASSUME TypeOK, StoreByStage
    PROVE  OneCycleSkew
<1> SUFFICES ASSUME NEW c \in Cells, NEW d \in Cells
             PROVE  store[d] <= store[c] + Lag(c, d)
    BY DEF OneCycleSkew
<1>1. /\ Rank(c) \in Nat /\ Rank(d) \in Nat /\ Rank(monitor) \in Nat
      /\ poll \in Nat
    BY RankTyped, Numbers
<1>2. QED
    BY <1>1 DEF StoreByStage, Lag

(* A step of the monitor replaces readings by newer ones only, and leaves  *)
(* the sessions alone.                                                     *)
LEMMA MonitorIInv ==
    ASSUME IInv, Monitor
    PROVE  IInv'
<1> USE BackendAssumption DEF IInv, MonitorOnly, history
<1>1. /\ \A c \in Cells : store[c] <= store'[c]
      /\ Completed <= Completed'
      /\ Completed' \in Nat /\ \A c \in Cells : store'[c] \in Nat
      /\ TypeOK' /\ StoreByStage' /\ ReadingsAgree'
  <2> USE DEF TypeOK, StoreByStage, ReadingsAgree, Completed, Rank, Cells, Uses
  <2>1. CASE Wake
      BY <2>1 DEF Wake
  <2>2. CASE ReadSystemUptime
      BY <2>2 DEF ReadSystemUptime
  <2>3. CASE ReadSystemStat
      BY <2>3 DEF ReadSystemStat
  <2>4. CASE ReadSystemMeminfo
      BY <2>4 DEF ReadSystemMeminfo
  <2>5. CASE ReadProcFiles
      BY <2>5 DEF ReadProcFiles
  <2>6. QED
      BY <2>1, <2>2, <2>3, <2>4, <2>5 DEF Monitor
<1>2. UNCHANGED <<phase, asked, got, delivered, promised, completed>>
    BY DEF Monitor, Wake, ReadSystemUptime, ReadSystemStat, ReadSystemMeminfo, ReadProcFiles
<1>3. HistoryBehind'
  <2>1. \A c \in Cells : delivered[c] <= store'[c]
      BY <1>1, Numbers DEF HistoryBehind
  <2>2. \A s \in Sessions : completed[s] <= Completed'
      BY <1>1, Numbers DEF HistoryBehind
  <2>3. \A s \in Sessions : phase[s] = "loaded" => got[s] <= store'[asked[s]]
      BY <1>1, Numbers DEF HistoryBehind
  <2>4. QED
      BY <1>2, <2>1, <2>2, <2>3 DEF HistoryBehind
<1>4. AnswersNeverGoBack' /\ AnswersAreCurrent'
    BY <1>2 DEF AnswersNeverGoBack, AnswersAreCurrent, Lag
<1>5. QED
    BY <1>1, <1>3, <1>4

(* A request promises its client no less than what clients have seen.      *)
LEMMA ReceiveIInv ==
    ASSUME IInv, NEW s \in Sessions, NEW c \in Cells, Receive(s, c)
    PROVE  IInv'
<1> USE BackendAssumption DEF IInv, Receive, SessionOnly
<1>0. Completed \in 0..MaxPolls /\ Completed' = Completed
    BY Numbers DEF Completed
<1>1. TypeOK'
    BY <1>0 DEF TypeOK
<1>2. StoreByStage' /\ ReadingsAgree'
    BY DEF StoreByStage, ReadingsAgree
<1>3. HistoryBehind'
  <2>1. \A d \in Cells : delivered'[d] <= store'[d]
      BY DEF HistoryBehind
  <2>2. \A u \in Sessions, d \in Cells : promised'[u][d] <= delivered'[d]
      BY Numbers DEF TypeOK, HistoryBehind
  <2>3. \A u \in Sessions : completed'[u] <= Completed'
      BY <1>0, Numbers DEF TypeOK, HistoryBehind
  <2>4. \A u \in Sessions : phase'[u] = "loaded" => got'[u] <= store'[asked'[u]]
      BY DEF TypeOK, HistoryBehind
  <2>5. QED
      BY <2>1, <2>2, <2>3, <2>4 DEF HistoryBehind
<1>4. AnswersNeverGoBack' /\ AnswersAreCurrent'
    BY DEF TypeOK, AnswersNeverGoBack, AnswersAreCurrent, Lag
<1>5. QED
    BY <1>1, <1>2, <1>3, <1>4

(* The endpoint copies a reading that is new enough, whatever the monitor  *)
(* has done since the request came in.                                     *)
LEMMA LoadIInv ==
    ASSUME IInv, NEW s \in Sessions, Load(s)
    PROVE  IInv'
<1> USE BackendAssumption DEF IInv, Load, SessionOnly, history
<1>0. asked[s] \in Cells
    BY DEF TypeOK
<1>1. TypeOK'
    BY <1>0 DEF TypeOK
<1>2. StoreByStage' /\ ReadingsAgree' /\ HistoryBehind'
    BY <1>0, Numbers DEF TypeOK, StoreByStage, ReadingsAgree, HistoryBehind, Completed
<1>3. \A c \in Cells : promised[s][c] <= store[asked[s]] + Lag(asked[s], c)
  <2>1. \A c \in Cells : promised[s][c] <= store[c]
      BY DEF TypeOK, HistoryBehind
  <2>2. \A c \in Cells : store[c] <= store[asked[s]] + Lag(asked[s], c)
      BY <1>0, SkewFromStage DEF OneCycleSkew
  <2>3. QED
      BY <1>0, <2>1, <2>2 DEF TypeOK, Lag
<1>4. AnswersNeverGoBack'
    BY <1>3 DEF TypeOK, AnswersNeverGoBack, Lag
<1>5. completed[s] <= store[asked[s]]
    BY <1>0, RankTyped DEF TypeOK, HistoryBehind, StoreByStage, Completed
<1>6. AnswersAreCurrent'
    BY <1>5 DEF TypeOK, AnswersAreCurrent
<1>7. QED
    BY <1>1, <1>2, <1>4, <1>6

(* A request is over, and its answer delivered or lost.                    *)
LEMMA FinishIInv ==
    ASSUME IInv, NEW s \in Sessions, Respond(s) \/ WriteFails(s)
    PROVE  IInv'
<1> USE BackendAssumption DEF IInv, SessionOnly
<1>0. /\ Finish(s) /\ asked[s] \in Cells
      /\ \A c \in Cells : delivered[c] <= delivered'[c]
      /\ delivered' \in [Cells -> 0..MaxPolls]
    BY DEF TypeOK, Respond, WriteFails
<1>1. TypeOK'
    BY <1>0 DEF TypeOK, Finish, NothingYet, Cells
<1>2. StoreByStage' /\ ReadingsAgree'
    BY <1>0 DEF StoreByStage, ReadingsAgree, Finish
<1>3. got[s] <= store[asked[s]]
    BY <1>0 DEF HistoryBehind, Finish
<1>4. HistoryBehind'
  <2>1. \A c \in Cells : delivered'[c] <= store'[c]
      BY <1>0, <1>3 DEF TypeOK, HistoryBehind, Finish, Respond, WriteFails
  <2>2. \A u \in Sessions, c \in Cells : promised'[u][c] <= delivered'[c]
      BY <1>0, <1>1, Numbers DEF TypeOK, HistoryBehind, Finish, NothingYet
  <2>3. \A u \in Sessions : completed'[u] <= Completed'
      BY <1>0, Numbers DEF TypeOK, HistoryBehind, Finish, Completed
  <2>4. \A u \in Sessions : phase'[u] = "loaded" => got'[u] <= store'[asked'[u]]
      BY <1>0 DEF TypeOK, HistoryBehind, Finish, Cells
  <2>5. QED
      BY <2>1, <2>2, <2>3, <2>4 DEF HistoryBehind
<1>5. AnswersNeverGoBack' /\ AnswersAreCurrent'
    BY <1>0 DEF TypeOK, AnswersNeverGoBack, AnswersAreCurrent, Finish, Lag
<1>6. QED
    BY <1>1, <1>2, <1>4, <1>5

(* Every step keeps the invariant; an exception changes no state.          *)
LEMMA NextIInv == IInv /\ [Next]_vars => IInv'
<1> SUFFICES ASSUME IInv, [Next]_vars PROVE IInv'
    OBVIOUS
<1>1. CASE Monitor
    BY <1>1, MonitorIInv
<1>2. ASSUME NEW s \in Sessions, NEW c \in Cells, Receive(s, c) PROVE IInv'
    BY <1>2, ReceiveIInv
<1>3. ASSUME NEW s \in Sessions, Session(s) PROVE IInv'
    BY <1>3, LoadIInv, FinishIInv DEF Session
<1>4. ASSUME MonitorThrows \/ \E s \in Sessions : EndpointThrows(s)
      PROVE  /\ process' \in {"running", "terminated"}
             /\ UNCHANGED <<monitor, poll, store, basis, phase, asked, got, history>>
    BY <1>4 DEF MonitorThrows, EndpointThrows
<1>5. ASSUME UNCHANGED vars
      PROVE  /\ process' = process
             /\ UNCHANGED <<monitor, poll, store, basis, phase, asked, got, history>>
    BY <1>5 DEF vars, program
<1>6. ASSUME process' \in {"running", "terminated"},
             UNCHANGED <<monitor, poll, store, basis, phase, asked, got, history>>
      PROVE  IInv'
    BY <1>6 DEF IInv, TypeOK, StoreByStage, ReadingsAgree, HistoryBehind, AnswersNeverGoBack,
                AnswersAreCurrent, Completed, history
<1>7. process \in {"running", "terminated"}
    BY DEF IInv, TypeOK
<1>8. QED
    BY <1>1, <1>2, <1>3, <1>4, <1>5, <1>6, <1>7 DEF Next

(* Where the monitor is in its cycle determines what the store holds, and  *)
(* what clients have seen trails behind it.                                *)
THEOREM Invariance == Spec => []IInv
<1>1. Init => IInv
    BY InitIInv
<1>2. IInv /\ [Next]_vars => IInv'
    BY NextIInv
<1>3. QED
    BY <1>1, <1>2, PTL DEF Spec

(* Members read together are at most one poll apart, whatever the number   *)
(* of sessions and however long the server runs.                           *)
THEOREM Skew == Spec => []OneCycleSkew
<1>1. IInv => OneCycleSkew
    BY SkewFromStage DEF IInv
<1>2. QED
    BY <1>1, Invariance, PTL

(* Process and CPU usage always refer to the poll just before, to the      *)
(* uptime and to the memory total of their own poll.                       *)
THEOREM Agreement == Spec => []ReadingsAgree
<1>1. IInv => ReadingsAgree
    BY DEF IInv
<1>2. QED
    BY <1>1, Invariance, PTL

(* Clients never see time run backwards, whichever sessions answer them.   *)
THEOREM Monotony == Spec => []AnswersNeverGoBack
<1>1. IInv => AnswersNeverGoBack
    BY DEF IInv
<1>2. QED
    BY <1>1, Invariance, PTL

(* They never get an answer older than the last poll completed when they   *)
(* asked.                                                                  *)
THEOREM Freshness == Spec => []AnswersAreCurrent
<1>1. IInv => AnswersAreCurrent
    BY DEF IInv
<1>2. QED
    BY <1>1, Invariance, PTL
=============================================================================
