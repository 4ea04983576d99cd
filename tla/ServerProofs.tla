---------------------------- MODULE ServerProofs ----------------------------
(***************************************************************************)
(* Proofs about Server, for any connections and requests, any number of    *)
(* descriptors, and whatever a receive brings in.                          *)
(***************************************************************************)
EXTENDS Server, FiniteSetTheorems, SequenceTheorems, TLAPS

Active == {"none", "reading", "routing", "writing"}

(* How many of the requests have been taken from the buffer.               *)
Consumed(c) == Len(answers[c]) + IF session[c] \in {"routing", "writing"} THEN 1 ELSE 0

(* What has been sent is what has been consumed, then the buffer, then     *)
(* what the kernel has.                                                    *)
Stream(c) ==
    /\ Len(sent[c]) = Consumed(c) + Len(buffer[c]) + Len(inbox[c])
    /\ \A i \in 1..Len(buffer[c]) : buffer[c][i] = sent[c][Consumed(c) + i]
    /\ \A i \in 1..Len(inbox[c]) : inbox[c][i] = sent[c][Consumed(c) + Len(buffer[c]) + i]

(* The turn that the session is in is that of the first unanswered request,*)
(* and there were good reasons to come to it.                              *)
Turn(c) ==
    /\ \A i \in 1..Consumed(c) : sent[c][i] # Malformed
    /\ \A i \in 1..Len(answers[c]) : sent[c][i].keep_alive
    /\ session[c] = "routing" => current[c] = sent[c][Consumed(c)]
    /\ session[c] = "writing" => current[c] = Service!AnswerTo(sent[c][Consumed(c)])

IInv ==
    /\ TypeOK
    /\ \A c \in Connections : session[c] \in Active => Stream(c) /\ Turn(c)

LEMMA InitIInv == Init => IInv
<1> SUFFICES ASSUME Init PROVE IInv
    OBVIOUS
<1> USE ServerAssumption DEF Init
<1>1. Cardinality(Connections) \in Nat /\ Cardinality({}) = 0
    BY FS_CardinalityType, FS_EmptySet
<1>2. limit \in Nat \ {0} /\ Cardinality(sockets) <= limit
    BY <1>1
<1>3. <<>> \in Seq(Requests) /\ <<>> \in Seq(Responses)
    OBVIOUS
<1>4. TypeOK
    BY <1>2, <1>3 DEF TypeOK, Peers
<1>5. \A c \in Connections : Stream(c) /\ Turn(c)
    BY DEF Stream, Turn, Consumed
<1>6. QED
    BY <1>4, <1>5 DEF IInv

(* A step leaves alone the connections that it is not about.               *)
LEMMA SameKeeps ==
    ASSUME NEW d, session'[d] = session[d], sent'[d] = sent[d], inbox'[d] = inbox[d],
           buffer'[d] = buffer[d], current'[d] = current[d], answers'[d] = answers[d]
    PROVE  Stream(d)' = Stream(d) /\ Turn(d)' = Turn(d)
<1>1. Consumed(d)' = Consumed(d)
    BY DEF Consumed
<1>2. Stream(d)' = Stream(d)
    BY <1>1 DEF Stream
<1>3. Turn(d)' = Turn(d)
    BY <1>1 DEF Turn, Service!AnswerTo
<1>4. QED
    BY <1>2, <1>3

LEMMA Sequences ==
    ASSUME TypeOK, NEW c \in Connections
    PROVE  /\ sent[c] \in Seq(Requests) /\ inbox[c] \in Seq(Requests)
           /\ buffer[c] \in Seq(Requests) /\ answers[c] \in Seq(Responses)
           /\ Len(sent[c]) \in Nat /\ Len(inbox[c]) \in Nat
           /\ Len(buffer[c]) \in Nat /\ Len(answers[c]) \in Nat
           /\ Consumed(c) \in Nat /\ Len(answers[c]) <= Consumed(c)
<1>1. /\ sent[c] \in Seq(Requests) /\ inbox[c] \in Seq(Requests)
      /\ buffer[c] \in Seq(Requests) /\ answers[c] \in Seq(Responses)
    BY DEF TypeOK
<1>2. /\ Len(sent[c]) \in Nat /\ Len(inbox[c]) \in Nat
      /\ Len(buffer[c]) \in Nat /\ Len(answers[c]) \in Nat
    BY <1>1
<1>3. Consumed(c) = Len(answers[c]) \/ Consumed(c) = Len(answers[c]) + 1
    <2>1. CASE session[c] \in {"routing", "writing"}
        BY <2>1 DEF Consumed
    <2>2. CASE session[c] \notin {"routing", "writing"}
        BY <2>2, <1>2 DEF Consumed
    <2>3. QED
        BY <2>1, <2>2
<1>4. Consumed(c) \in Nat /\ Len(answers[c]) <= Consumed(c)
    BY <1>2, <1>3
<1>5. QED
    BY <1>1, <1>2, <1>4

(* Whatever comes in, the reader has the stream before it.                 *)
LEMMA InputIsStream ==
    ASSUME TypeOK, NEW c \in Connections, Stream(c), NEW in \in Input(c)
    PROVE  /\ in[1] \in Seq(Requests) /\ in[2] \in Seq(Requests) /\ in[1] # <<>>
           /\ Len(sent[c]) = Consumed(c) + Len(in[1]) + Len(in[2])
           /\ \A i \in 1..Len(in[1]) : in[1][i] = sent[c][Consumed(c) + i]
           /\ \A i \in 1..Len(in[2]) : in[2][i] = sent[c][Consumed(c) + Len(in[1]) + i]
<1>1. CASE buffer[c] # <<>>
    <2>1. in[1] = buffer[c] /\ in[2] = inbox[c]
        BY <1>1 DEF Input
    <2>2. QED
        BY <1>1, <2>1, Sequences DEF Stream
<1>2. CASE buffer[c] = <<>>
    <2>1. PICK k \in 1..Len(inbox[c]) :
             in[1] = SubSeq(inbox[c], 1, k) /\ in[2] = SubSeq(inbox[c], k + 1, Len(inbox[c]))
        BY <1>2 DEF Input
    <2>2. inbox[c] \in Seq(Requests) /\ Len(inbox[c]) \in Nat /\ Consumed(c) \in Nat
        BY Sequences
    <2>3. /\ in[1] \in Seq(Requests) /\ Len(in[1]) = k
          /\ \A i \in 1..k : in[1][i] = inbox[c][i]
        BY <2>1, <2>2, SubSeqProperties
    <2>4. /\ in[2] \in Seq(Requests) /\ Len(in[2]) = Len(inbox[c]) - k
          /\ \A i \in 1..Len(in[2]) : in[2][i] = inbox[c][k + i]
        BY <2>1, <2>2, SubSeqProperties
    <2>5. /\ Len(sent[c]) = Consumed(c) + Len(inbox[c])
          /\ \A i \in 1..Len(inbox[c]) : inbox[c][i] = sent[c][Consumed(c) + i]
        BY <1>2, <2>2 DEF Stream
    <2>6. \A i \in 1..Len(in[2]) : in[2][i] = sent[c][Consumed(c) + k + i]
        <3> SUFFICES ASSUME NEW i \in 1..Len(in[2])
                     PROVE  in[2][i] = sent[c][Consumed(c) + k + i]
            OBVIOUS
        <3>1. k + i \in 1..Len(inbox[c]) /\ Consumed(c) + (k + i) = Consumed(c) + k + i
            BY <2>1, <2>2, <2>4
        <3>2. QED
            BY <2>4, <2>5, <3>1
    <2>7. in[1] # <<>> /\ Len(inbox[c]) = Len(in[1]) + Len(in[2])
        BY <2>1, <2>2, <2>3, <2>4
    <2>8. Len(sent[c]) = Consumed(c) + Len(in[1]) + Len(in[2])
        BY <2>2, <2>3, <2>4, <2>5, <2>7
    <2>9. \A i \in 1..Len(in[1]) : in[1][i] = sent[c][Consumed(c) + i]
        BY <2>1, <2>2, <2>3, <2>5
    <2>10. QED
        BY <2>3, <2>4, <2>6, <2>7, <2>8, <2>9
<1>3. QED
    BY <1>1, <1>2

-----------------------------------------------------------------------------
(* A client's request goes to the end of the stream.                       *)
LEMMA SendKeeps ==
    ASSUME IInv, NEW c \in Connections, NEW r \in Requests, Send(c, r)
    PROVE  IInv'
<1>1. TypeOK /\ \A d \in Connections : session[d] \in Active => Stream(d) /\ Turn(d)
    BY DEF IInv
<1>2. /\ sent' = [sent EXCEPT ![c] = Append(@, r)] /\ inbox' = [inbox EXCEPT ![c] = Append(@, r)]
      /\ peer' = peer /\ limit' = limit /\ sockets' = sockets /\ session' = session
      /\ buffer' = buffer /\ current' = current /\ answers' = answers /\ process' = process
    BY DEF Send, server
<1>3. /\ sent[c] \in Seq(Requests) /\ inbox[c] \in Seq(Requests) /\ Consumed(c) \in Nat
      /\ Len(sent[c]) \in Nat /\ Len(inbox[c]) \in Nat /\ Len(buffer[c]) \in Nat
      /\ Len(answers[c]) \in Nat
    BY <1>1, Sequences
<1>4. /\ sent'[c] = Append(sent[c], r) /\ sent'[c] \in Seq(Requests)
      /\ inbox'[c] = Append(inbox[c], r) /\ inbox'[c] \in Seq(Requests)
    BY <1>1, <1>2, <1>3 DEF TypeOK
<1>5. TypeOK'
    <2>1. sent' \in [Connections -> Seq(Requests)] /\ inbox' \in [Connections -> Seq(Requests)]
        BY <1>1, <1>2, <1>3 DEF TypeOK
    <2>2. QED
        BY <1>1, <1>2, <2>1 DEF TypeOK
<1>6. ASSUME NEW d \in Connections, session[d] \in Active
      PROVE  Stream(d)' /\ Turn(d)'
    <2>1. CASE d # c
        <3>1. sent'[d] = sent[d] /\ inbox'[d] = inbox[d]
            BY <2>1, <1>1, <1>2 DEF TypeOK
        <3>2. Stream(d)' = Stream(d) /\ Turn(d)' = Turn(d)
            BY <3>1, <1>2, SameKeeps
        <3>3. QED
            BY <3>2, <1>1, <1>6
    <2>2. CASE d = c
        <3>1. Stream(c) /\ Turn(c) /\ Consumed(c)' = Consumed(c)
            BY <1>1, <1>2, <1>6, <2>2 DEF Consumed
        <3>2. /\ Len(sent'[c]) = Len(sent[c]) + 1 /\ sent'[c][Len(sent[c]) + 1] = r
              /\ \A i \in 1..Len(sent[c]) : sent'[c][i] = sent[c][i]
            BY <1>3, <1>4, AppendProperties
        <3>3. /\ Len(inbox'[c]) = Len(inbox[c]) + 1 /\ inbox'[c][Len(inbox[c]) + 1] = r
              /\ \A i \in 1..Len(inbox[c]) : inbox'[c][i] = inbox[c][i]
            BY <1>3, <1>4, AppendProperties
        <3>4. Len(sent[c]) = Consumed(c) + Len(buffer[c]) + Len(inbox[c])
            BY <3>1 DEF Stream
        <3>5. Len(sent'[c]) = Consumed(c) + Len(buffer[c]) + Len(inbox'[c])
            <4>1. Len(sent'[c]) = Len(sent[c]) + 1 /\ Len(inbox'[c]) = Len(inbox[c]) + 1
                BY <3>2, <3>3
            <4> DEFINE n == Len(sent[c])
            <4> DEFINE m == Len(inbox[c])
            <4> DEFINE b == Len(buffer[c])
            <4>2. n \in Nat /\ m \in Nat /\ b \in Nat /\ n = Consumed(c) + b + m
                BY <1>3, <3>4
            <4> HIDE DEF n, m, b
            <4>3. n + 1 = Consumed(c) + b + (m + 1)
                BY <1>3, <4>2
            <4>4. QED
                BY <4>1, <4>3 DEF n, m, b
        <3>6. \A i \in 1..Len(buffer[c]) : buffer[c][i] = sent'[c][Consumed(c) + i]
            <4> SUFFICES ASSUME NEW i \in 1..Len(buffer[c])
                         PROVE  buffer[c][i] = sent'[c][Consumed(c) + i]
                OBVIOUS
            <4>1. Consumed(c) + i \in 1..Len(sent[c])
                BY <1>3, <3>4
            <4>2. QED
                BY <3>1, <3>2, <4>1 DEF Stream
        <3>7. ASSUME NEW i \in 1..Len(inbox'[c])
              PROVE  inbox'[c][i] = sent'[c][Consumed(c) + Len(buffer[c]) + i]
            <4>1. CASE i \in 1..Len(inbox[c])
                <5>1. Consumed(c) + Len(buffer[c]) + i \in 1..Len(sent[c])
                    BY <1>3, <3>4, <4>1
                <5>2. QED
                    BY <3>1, <3>2, <3>3, <4>1, <5>1 DEF Stream
            <4>2. CASE i = Len(inbox[c]) + 1
                <5>1. Consumed(c) + Len(buffer[c]) + i = Len(sent[c]) + 1
                    BY <1>3, <3>4, <4>2
                <5>2. QED
                    BY <3>2, <3>3, <4>2, <5>1
            <4>3. QED
                BY <1>3, <3>3, <4>1, <4>2
        <3>8. Stream(c)'
            BY <1>2, <3>1, <3>5, <3>6, <3>7 DEF Stream
        <3>9. Consumed(c) <= Len(sent[c]) /\ Len(answers[c]) <= Consumed(c)
            <4>1. Consumed(c) <= Len(sent[c])
                BY <1>3, <3>4
            <4>2. Len(answers[c]) <= Consumed(c)
                BY <1>1, Sequences
            <4>3. QED
                BY <4>1, <4>2
        <3>10. \A i \in 1..Consumed(c) : sent'[c][i] = sent[c][i]
            <4>1. \A i \in 1..Consumed(c) : i \in 1..Len(sent[c])
                BY <1>3, <3>9
            <4>2. QED
                BY <3>2, <4>1
        <3>11. session[c] \in {"routing", "writing"} => Consumed(c) \in 1..Consumed(c)
            BY <1>3 DEF Consumed
        <3>12. Turn(c)'
            <4>1. \A i \in 1..Consumed(c) : sent'[c][i] # Malformed
                BY <3>1, <3>10 DEF Turn
            <4>2. \A i \in 1..Len(answers[c]) : sent'[c][i].keep_alive
                BY <1>3, <3>1, <3>9, <3>10 DEF Turn
            <4>3. session[c] = "routing" => current[c] = sent'[c][Consumed(c)]
                BY <3>1, <3>10, <3>11 DEF Turn
            <4>4. session[c] = "writing" => current[c] = Service!AnswerTo(sent'[c][Consumed(c)])
                BY <3>1, <3>10, <3>11 DEF Turn
            <4>5. QED
                BY <1>2, <3>1, <4>1, <4>2, <4>3, <4>4 DEF Turn, Service!AnswerTo
        <3>13. QED
            BY <2>2, <3>8, <3>12
    <2>3. QED
        BY <2>1, <2>2
<1>7. QED
    BY <1>2, <1>5, <1>6 DEF IInv

(* Connecting, stalling, finishing, vanishing and resetting.               *)
LEMMA PeerKeeps ==
    ASSUME IInv, NEW c \in Connections, NEW from, NEW to \in Peers,
           Connect(c) \/ Becomes(c, from, to)
    PROVE  IInv'
<1>1. TypeOK /\ \A d \in Connections : session[d] \in Active => Stream(d) /\ Turn(d)
    BY DEF IInv
<1>2. /\ peer' \in [Connections -> Peers]
      /\ sent' = sent /\ inbox' = inbox /\ limit' = limit /\ sockets' = sockets
      /\ session' = session /\ buffer' = buffer /\ current' = current
      /\ answers' = answers /\ process' = process
    BY <1>1 DEF Connect, Becomes, server, TypeOK, Peers
<1>3. TypeOK'
    BY <1>1, <1>2 DEF TypeOK
<1>4. \A d \in Connections : Stream(d)' = Stream(d) /\ Turn(d)' = Turn(d)
    BY <1>2, SameKeeps
<1>5. QED
    BY <1>1, <1>2, <1>3, <1>4 DEF IInv

LEMMA AcceptKeeps ==
    ASSUME IInv, NEW c \in Connections, Accept(c)
    PROVE  IInv'
<1>1. TypeOK /\ \A d \in Connections : session[d] \in Active => Stream(d) /\ Turn(d)
    BY DEF IInv
<1>2. /\ session[c] = "none" /\ session' = [session EXCEPT ![c] = "reading"]
      /\ sockets' = sockets \cup {c} /\ Cardinality(sockets) < limit
      /\ peer' = peer /\ sent' = sent /\ inbox' = inbox /\ limit' = limit
      /\ buffer' = buffer /\ current' = current /\ answers' = answers /\ process' = process
    BY DEF Accept, clients
<1>3. Cardinality(sockets') <= limit
    <2>1. IsFiniteSet(sockets)
        BY <1>1, ServerAssumption, FS_Subset DEF TypeOK
    <2>2. Cardinality(sockets) \in Nat /\ limit \in Nat
        BY <1>1, <2>1, FS_CardinalityType DEF TypeOK
    <2>3. Cardinality(sockets') = Cardinality(sockets) \/ Cardinality(sockets') = Cardinality(sockets) + 1
        BY <1>2, <2>1, FS_AddElement
    <2>4. Cardinality(sockets) < limit
        BY <1>2
    <2>5. QED
        BY <2>2, <2>3, <2>4
<1>4. /\ session' \in [Connections -> {"none", "reading", "routing", "writing", "closing", "ended"}]
      /\ session'[c] = "reading" /\ \A d \in Connections \ {c} : session'[d] = session[d]
    BY <1>1, <1>2 DEF TypeOK
<1>5. TypeOK'
    BY <1>1, <1>2, <1>3, <1>4 DEF TypeOK
<1>6. ASSUME NEW d \in Connections, session'[d] \in Active
      PROVE  Stream(d)' /\ Turn(d)'
    <2>1. CASE d # c
        <3>1. Stream(d)' = Stream(d) /\ Turn(d)' = Turn(d)
            BY <2>1, <1>2, <1>4, SameKeeps
        <3>2. QED
            BY <3>1, <2>1, <1>1, <1>4, <1>6
    <2>2. CASE d = c
        <3>1. Stream(c) /\ Turn(c)
            BY <1>1, <1>2 DEF Active
        <3>2. Consumed(c)' = Consumed(c)
            BY <1>2, <1>4 DEF Consumed
        <3>3. QED
            BY <2>2, <3>1, <3>2, <1>2, <1>4 DEF Stream, Turn
    <2>3. QED
        BY <2>1, <2>2
<1>7. QED
    BY <1>5, <1>6 DEF IInv

(* An exception stops everything where it is.                              *)
LEMMA ThrowKeeps ==
    ASSUME IInv, NEW c \in Connections, AcceptThrows(c) \/ RouteThrows(c)
    PROVE  IInv'
<1>1. TypeOK /\ \A d \in Connections : session[d] \in Active => Stream(d) /\ Turn(d)
    BY DEF IInv
<1>2. /\ process' = "terminated" /\ peer' = peer /\ sent' = sent /\ inbox' = inbox
      /\ limit' = limit /\ sockets' = sockets /\ session' = session /\ buffer' = buffer
      /\ current' = current /\ answers' = answers
    BY DEF AcceptThrows, RouteThrows, clients
<1>3. TypeOK'
    BY <1>1, <1>2 DEF TypeOK
<1>4. \A d \in Connections : Stream(d)' = Stream(d) /\ Turn(d)' = Turn(d)
    BY <1>2, SameKeeps
<1>5. QED
    BY <1>1, <1>2, <1>3, <1>4 DEF IInv

-----------------------------------------------------------------------------
(* process_tcp_session: it changes nothing of other connections.           *)
LEMMA OthersKeep ==
    ASSUME IInv, NEW c \in Connections, Session(c)
    PROVE  \A d \in Connections \ {c} : session'[d] \in Active => Stream(d)' /\ Turn(d)'
<1> SUFFICES ASSUME NEW d \in Connections \ {c}, session'[d] \in Active
             PROVE  Stream(d)' /\ Turn(d)'
    OBVIOUS
<1>1. TypeOK
    BY DEF IInv
<1>2. /\ session'[d] = session[d] /\ sent'[d] = sent[d] /\ inbox'[d] = inbox[d]
      /\ buffer'[d] = buffer[d] /\ current'[d] = current[d] /\ answers'[d] = answers[d]
    BY <1>1 DEF Session, Read, ReadEnds, Leave, Route, Write, WriteFails, Close, SessionOnly, TypeOK
<1>3. Stream(d)' = Stream(d) /\ Turn(d)' = Turn(d)
    BY <1>2, SameKeeps
<1>4. QED
    BY <1>2, <1>3 DEF IInv

LEMMA ReadKeeps ==
    ASSUME IInv, NEW c \in Connections, Read(c)
    PROVE  IInv'
<1>1. TypeOK /\ Stream(c) /\ Turn(c) /\ session[c] = "reading"
    BY DEF IInv, Read, Active
<1>2. PICK in \in Input(c) :
         /\ Head(in[1]) # Malformed
         /\ current' = [current EXCEPT ![c] = Head(in[1])]
         /\ inbox' = [inbox EXCEPT ![c] = in[2]]
         /\ buffer' = [buffer EXCEPT ![c] = Tail(in[1])]
    BY DEF Read
<1>3. /\ session' = [session EXCEPT ![c] = "routing"] /\ peer' = peer /\ sent' = sent
      /\ limit' = limit /\ sockets' = sockets /\ answers' = answers /\ process' = process
    BY DEF Read, SessionOnly
<1>4. /\ in[1] \in Seq(Requests) /\ in[2] \in Seq(Requests) /\ in[1] # <<>>
      /\ Len(sent[c]) = Consumed(c) + Len(in[1]) + Len(in[2])
      /\ \A i \in 1..Len(in[1]) : in[1][i] = sent[c][Consumed(c) + i]
      /\ \A i \in 1..Len(in[2]) : in[2][i] = sent[c][Consumed(c) + Len(in[1]) + i]
    BY <1>1, InputIsStream
<1>5. /\ Head(in[1]) = in[1][1] /\ Head(in[1]) \in Requests /\ Len(in[1]) \in Nat /\ Len(in[1]) >= 1
      /\ Tail(in[1]) \in Seq(Requests) /\ Len(Tail(in[1])) = Len(in[1]) - 1
      /\ \A i \in 1..Len(Tail(in[1])) : Tail(in[1])[i] = in[1][i + 1]
      /\ Len(in[2]) \in Nat
    BY <1>4, HeadTailProperties
<1>6. Head(in[1]) \in WellFormed
    BY <1>2, <1>5, ServerAssumption
<1>7. TypeOK'
    <2>1. /\ inbox' \in [Connections -> Seq(Requests)] /\ buffer' \in [Connections -> Seq(Requests)]
          /\ session' \in [Connections -> {"none", "reading", "routing", "writing", "closing", "ended"}]
        BY <1>1, <1>2, <1>3, <1>4, <1>5 DEF TypeOK
    <2>2. current' \in [Connections -> WellFormed \cup Responses \cup {Nothing}]
        BY <1>1, <1>2, <1>6 DEF TypeOK
    <2>3. \A d \in Connections : current'[d] \in
             IF session'[d] = "routing" THEN WellFormed
             ELSE IF session'[d] = "writing" THEN Responses ELSE {Nothing}
        BY <1>1, <1>2, <1>3, <1>6 DEF TypeOK
    <2>4. QED
        BY <1>1, <1>3, <2>1, <2>2, <2>3 DEF TypeOK
<1>8. /\ session'[c] = "routing" /\ inbox'[c] = in[2] /\ buffer'[c] = Tail(in[1])
      /\ current'[c] = in[1][1]
    BY <1>1, <1>2, <1>3, <1>5 DEF TypeOK
<1>9. Consumed(c) \in Nat /\ Consumed(c)' = Consumed(c) + 1
    <2>1. Len(answers[c]) \in Nat
        BY <1>1, Sequences
    <2>2. Consumed(c) = Len(answers[c])
        BY <1>1, <2>1 DEF Consumed
    <2>3. Consumed(c)' = Len(answers[c]) + 1
        BY <1>3, <1>8 DEF Consumed
    <2>4. QED
        BY <2>1, <2>2, <2>3
<1> DEFINE k == Consumed(c)
<1> DEFINE n == Len(in[1])
<1> DEFINE t == Len(Tail(in[1]))
<1> DEFINE m == Len(in[2])
<1>10. k \in Nat /\ n \in Nat /\ n >= 1 /\ t = n - 1 /\ m \in Nat /\ Len(sent[c]) = k + n + m
    BY <1>4, <1>5, <1>9
<1>11. Stream(c)'
    <2> HIDE DEF k, n, t, m
    <2>1. Len(sent[c]) = (k + 1) + t + m
        BY <1>10
    <2>2. \A i \in 1..t : Tail(in[1])[i] = sent[c][(k + 1) + i]
        <3> SUFFICES ASSUME NEW i \in 1..t
                     PROVE  Tail(in[1])[i] = sent[c][(k + 1) + i]
            OBVIOUS
        <3>1. i + 1 \in 1..n /\ k + (i + 1) = (k + 1) + i
            BY <1>10
        <3>2. QED
            BY <1>4, <1>5, <3>1 DEF k, n, t
    <2>3. \A i \in 1..m : in[2][i] = sent[c][(k + 1) + t + i]
        <3>1. (k + 1) + t = k + n
            BY <1>10
        <3>2. QED
            BY <1>4, <3>1 DEF k, n, m
    <2>4. QED
        BY <1>3, <1>8, <1>9, <2>1, <2>2, <2>3 DEF Stream, k, t, m
<1>12. Turn(c)'
    <2>1. in[1][1] = sent[c][Consumed(c) + 1]
        BY <1>4, <1>5
    <2>2. in[1][1] # Malformed
        BY <1>2, <1>5
    <2>3. \A i \in 1..Consumed(c)' : sent[c][i] # Malformed
        <3> SUFFICES ASSUME NEW i \in 1..Consumed(c)'
                     PROVE  sent[c][i] # Malformed
            OBVIOUS
        <3>1. CASE i \in 1..Consumed(c)
            BY <1>1, <3>1 DEF Turn
        <3>2. CASE i = Consumed(c) + 1
            BY <2>1, <2>2, <3>2
        <3>3. QED
            BY <1>9, <3>1, <3>2
    <2>4. QED
        BY <1>1, <1>3, <1>8, <1>9, <2>1, <2>3 DEF Turn
<1>13. \A d \in Connections \ {c} : session'[d] \in Active => Stream(d)' /\ Turn(d)'
    BY OthersKeep DEF Session
<1>14. QED
    BY <1>7, <1>11, <1>12, <1>13 DEF IInv

(* The end of a session, for whatever reason.                              *)
LEMMA LeaveKeeps ==
    ASSUME IInv, NEW c \in Connections, ReadEnds(c) \/ WriteFails(c) \/ Close(c)
    PROVE  IInv'
<1>1. TypeOK
    BY DEF IInv
<1>2. session'[c] \notin Active
    BY <1>1 DEF ReadEnds, WriteFails, Leave, Close, TypeOK, Active
<1>3. TypeOK'
    <2>1. CASE Leave(c)
        BY <1>1, <2>1 DEF Leave, SessionOnly, TypeOK
    <2>2. CASE Close(c)
        <3>1. IsFiniteSet(sockets) /\ sockets \ {c} \subseteq sockets
            BY <1>1, ServerAssumption, FS_Subset DEF TypeOK
        <3>2. /\ Cardinality(sockets \ {c}) <= Cardinality(sockets)
              /\ Cardinality(sockets \ {c}) \in Nat /\ Cardinality(sockets) \in Nat
            BY <3>1, FS_Subset, FS_CardinalityType
        <3>3. Cardinality(sockets \ {c}) <= limit
            BY <1>1, <3>2 DEF TypeOK
        <3>4. <<>> \in Seq(Requests)
            OBVIOUS
        <3>5. QED
            BY <1>1, <2>2, <3>3, <3>4 DEF Close, SessionOnly, TypeOK
    <2>3. QED
        BY <2>1, <2>2 DEF ReadEnds, WriteFails
<1>4. \A d \in Connections \ {c} : session'[d] \in Active => Stream(d)' /\ Turn(d)'
    BY OthersKeep DEF Session
<1>5. QED
    BY <1>2, <1>3, <1>4 DEF IInv

LEMMA RouteKeeps ==
    ASSUME IInv, NEW c \in Connections, Route(c)
    PROVE  IInv'
<1>1. TypeOK /\ Stream(c) /\ Turn(c) /\ session[c] = "routing" /\ current[c] \in WellFormed
    BY DEF IInv, Route, Active, TypeOK
<1> DEFINE response == IF current[c].resource = "known" THEN Ok(current[c]) ELSE BadRequest(current[c])
<1>2. /\ session' = [session EXCEPT ![c] = "writing"] /\ current' = [current EXCEPT ![c] = response]
      /\ peer' = peer /\ sent' = sent /\ inbox' = inbox /\ limit' = limit /\ sockets' = sockets
      /\ buffer' = buffer /\ answers' = answers /\ process' = process
    BY <1>1 DEF Route, SessionOnly, TypeOK
<1>3. response \in Responses /\ response = Service!AnswerTo(current[c])
    BY <1>1 DEF WellFormed, Responses, Ok, BadRequest, Service!AnswerTo
<1> HIDE DEF response
<1>4. TypeOK'
    BY <1>1, <1>2, <1>3 DEF TypeOK
<1>5. session'[c] = "writing" /\ current'[c] = response /\ Consumed(c)' = Consumed(c)
    BY <1>1, <1>2 DEF TypeOK, Consumed
<1>6. Stream(c)' /\ Turn(c)'
    BY <1>1, <1>2, <1>3, <1>5 DEF Stream, Turn, Service!AnswerTo
<1>7. \A d \in Connections \ {c} : session'[d] \in Active => Stream(d)' /\ Turn(d)'
    BY OthersKeep DEF Session
<1>8. QED
    BY <1>4, <1>6, <1>7 DEF IInv

(* A response that is written is the answer to the next request.           *)
LEMMA WriteAnswers ==
    ASSUME IInv, NEW c \in Connections, Write(c)
    PROVE  /\ Consumed(c) = Len(answers[c]) + 1 /\ Len(answers[c]) \in Nat
           /\ Service!Answerable(c, Consumed(c))
           /\ current[c] = Service!AnswerTo(sent[c][Consumed(c)])
           /\ current[c] \in Responses
<1>1. TypeOK /\ Stream(c) /\ Turn(c) /\ session[c] = "writing"
    BY DEF IInv, Write, Active
<1>2. Consumed(c) = Len(answers[c]) + 1
    BY <1>1 DEF Consumed
<1>3. /\ Len(answers[c]) \in Nat /\ Consumed(c) \in Nat /\ Len(sent[c]) \in Nat
      /\ Len(buffer[c]) \in Nat /\ Len(inbox[c]) \in Nat
    BY <1>1, Sequences
<1>4. Consumed(c) <= Len(sent[c])
    BY <1>1, <1>3 DEF Stream
<1>5. \A i \in 1..(Consumed(c) - 1) : sent[c][i].keep_alive
    BY <1>1, <1>2, <1>3 DEF Turn
<1>6. \A i \in 1..Consumed(c) : sent[c][i] # Malformed
    BY <1>1 DEF Turn
<1>7. Service!Answerable(c, Consumed(c))
    BY <1>4, <1>5, <1>6 DEF Service!Answerable, Service!Malformed, Malformed
<1>8. QED
    BY <1>1, <1>2, <1>3, <1>7 DEF Turn, TypeOK

LEMMA WriteKeeps ==
    ASSUME IInv, NEW c \in Connections, Write(c)
    PROVE  IInv'
<1>1. TypeOK /\ Stream(c) /\ Turn(c) /\ session[c] = "writing"
    BY DEF IInv, Write, Active
<1>2. /\ answers' = [answers EXCEPT ![c] = Append(@, current[c])]
      /\ session' = [session EXCEPT ![c] = IF current[c].keep_alive THEN "reading" ELSE "closing"]
      /\ current' = [current EXCEPT ![c] = Nothing]
      /\ peer' = peer /\ sent' = sent /\ inbox' = inbox /\ limit' = limit /\ sockets' = sockets
      /\ buffer' = buffer /\ process' = process
    BY DEF Write, SessionOnly
<1>3. /\ Consumed(c) = Len(answers[c]) + 1 /\ Len(answers[c]) \in Nat
      /\ current[c] = Service!AnswerTo(sent[c][Consumed(c)]) /\ current[c] \in Responses
    BY WriteAnswers
<1>4. /\ answers'[c] = Append(answers[c], current[c]) /\ answers[c] \in Seq(Responses)
      /\ session'[c] = IF current[c].keep_alive THEN "reading" ELSE "closing"
      /\ current'[c] = Nothing
    BY <1>1, <1>2 DEF TypeOK
<1>5. Len(answers'[c]) = Len(answers[c]) + 1 /\ answers'[c] \in Seq(Responses)
    BY <1>3, <1>4, AppendProperties
<1>6. TypeOK'
    BY <1>1, <1>2, <1>4, <1>5 DEF TypeOK
<1>7. ASSUME session'[c] \in Active
      PROVE  Stream(c)' /\ Turn(c)'
    <2>1. session'[c] = "reading" /\ current[c].keep_alive
        BY <1>4, <1>7 DEF Active
    <2>2. Consumed(c)' = Len(answers[c]) + 1
        BY <1>3, <1>5, <2>1 DEF Consumed
    <2>3. Consumed(c)' = Consumed(c)
        BY <1>3, <2>2
    <2>4. Stream(c)'
        BY <1>1, <1>2, <2>3 DEF Stream
    <2>5. \A i \in 1..Len(answers'[c]) : sent[c][i].keep_alive
        <3> SUFFICES ASSUME NEW i \in 1..Len(answers'[c])
                     PROVE  sent[c][i].keep_alive
            OBVIOUS
        <3>1. CASE i \in 1..Len(answers[c])
            BY <1>1, <3>1 DEF Turn
        <3>2. CASE i = Consumed(c)
            BY <1>3, <2>1, <3>2 DEF Service!AnswerTo
        <3>3. QED
            BY <1>3, <1>5, <3>1, <3>2
    <2>6. Turn(c)'
        BY <1>1, <1>2, <2>1, <2>3, <2>5 DEF Turn
    <2>7. QED
        BY <2>4, <2>6
<1>8. \A d \in Connections \ {c} : session'[d] \in Active => Stream(d)' /\ Turn(d)'
    BY OthersKeep DEF Session
<1>9. QED
    BY <1>6, <1>7, <1>8 DEF IInv

LEMMA NextIInv ==
    ASSUME IInv, [Next]_vars
    PROVE  IInv'
<1>1. ASSUME NEW c \in Connections, Client(c)
      PROVE  IInv'
    BY <1>1, SendKeeps, PeerKeeps DEF Client, Peers
<1>2. ASSUME NEW c \in Connections, Session(c)
      PROVE  IInv'
    BY <1>2, ReadKeeps, LeaveKeeps, RouteKeeps, WriteKeeps DEF Session
<1>3. CASE UNCHANGED vars
    <2>1. /\ peer' = peer /\ sent' = sent /\ inbox' = inbox /\ limit' = limit /\ sockets' = sockets
          /\ session' = session /\ buffer' = buffer /\ current' = current /\ answers' = answers
          /\ process' = process
        BY <1>3 DEF vars, clients, server
    <2>2. \A d \in Connections : Stream(d)' = Stream(d) /\ Turn(d)' = Turn(d)
        BY <2>1, SameKeeps
    <2>3. QED
        BY <2>1, <2>2 DEF IInv, TypeOK
<1>4. QED
    BY <1>1, <1>2, <1>3, AcceptKeeps, ThrowKeeps DEF Next

(* Where each session is in the stream of its client's requests.           *)
THEOREM Invariance == Spec => []IInv
<1>1. IInv /\ [Next]_vars => IInv'
    BY NextIInv
<1>2. QED
    BY InitIInv, <1>1, PTL DEF Spec

(* What a session holds fits the place it is in, and descriptors are never *)
(* more than there are.                                                    *)
THEOREM Types == Spec => []TypeOK
<1>1. IInv => TypeOK
    BY DEF IInv
<1>2. QED
    BY Invariance, <1>1, PTL

(* Each step is one of the abstract service, or leaves it as it is.        *)
LEMMA StepSimulates ==
    ASSUME IInv, [Next]_vars
    PROVE  [Service!Next]_(Service!vars)
<1>1. ASSUME NEW c \in Connections, NEW r \in Requests, Send(c, r)
      PROVE  Service!Next
    BY <1>1 DEF Send, server, Service!Next, Service!Ask
<1>2. ASSUME NEW c \in Connections, Write(c)
      PROVE  Service!Next
    <2>1. /\ Consumed(c) = Len(answers[c]) + 1
          /\ Service!Answerable(c, Consumed(c))
          /\ current[c] = Service!AnswerTo(sent[c][Consumed(c)])
        BY <1>2, WriteAnswers
    <2>2. answers' = [answers EXCEPT ![c] = Append(@, current[c])] /\ sent' = sent
        BY <1>2 DEF Write, SessionOnly
    <2>3. Service!Answer(c)
        BY <2>1, <2>2 DEF Service!Answer
    <2>4. QED
        BY <2>3 DEF Service!Next
<1>3. ASSUME NEW c \in Connections,
             \/ Connect(c) \/ \E from, to : Becomes(c, from, to)
             \/ Accept(c) \/ AcceptThrows(c) \/ RouteThrows(c)
             \/ Read(c) \/ ReadEnds(c) \/ Route(c) \/ WriteFails(c) \/ Close(c)
      PROVE  UNCHANGED Service!vars
    BY <1>3 DEF Connect, Becomes, Accept, AcceptThrows, RouteThrows, Read, ReadEnds, Route,
                WriteFails, Close, Leave, SessionOnly, server, clients, Service!vars
<1>4. CASE UNCHANGED vars
    BY <1>4 DEF vars, clients, server, Service!vars
<1>5. QED
    BY <1>1, <1>2, <1>3, <1>4 DEF Next, Client, Session

(* On each connection the answers are those to its requests, in order and  *)
(* one for each, whatever a receive brings in ("the response is written    *)
(* back to the socket").                                                   *)
THEOREM Implementation == Spec => AnswersInOrder
<1>1. Init => Service!Init
    BY DEF Init, Service!Init
<1>2. IInv /\ [Next]_vars => [Service!Next]_(Service!vars)
    BY StepSimulates
<1>3. QED
    BY Invariance, <1>1, <1>2, PTL DEF Spec, AnswersInOrder, Service!Spec

-----------------------------------------------------------------------------
(* Each step of a session whose client sends no more brings its end nearer.*)
LEMMA StepRunsOut ==
    ASSUME IInv, Next, NEW c \in Connections, Own(c)' # Own(c),
           peer[c] \in {"finished", "deaf", "vanished", "reset"}
    PROVE  StepsLeft(c)' < StepsLeft(c)
<1>1. TypeOK /\ (session[c] \in Active => Stream(c))
    BY DEF IInv
<1> DEFINE b == Len(buffer[c])
<1> DEFINE n == Len(inbox[c])
<1>2. b \in Nat /\ n \in Nat
    BY <1>1, Sequences
<1>3. ASSUME NEW d \in Connections, Client(d) \/ AcceptThrows(d) \/ RouteThrows(d)
      PROVE  FALSE
    <2>1. Own(c)' = Own(c)
        <3>1. CASE \E r \in Requests : Send(d, r)
            <4>1. d # c
                BY <3>1 DEF Send
            <4>2. QED
                BY <1>1, <3>1, <4>1 DEF Send, server, Own, TypeOK
        <3>2. CASE Connect(d) \/ (\E from, to : Becomes(d, from, to)) \/ AcceptThrows(d) \/ RouteThrows(d)
            BY <3>2 DEF Connect, Becomes, AcceptThrows, RouteThrows, server, clients, Own
        <3>3. QED
            BY <1>3, <3>1, <3>2 DEF Client
    <2>2. QED
        BY <2>1
<1>4. ASSUME NEW d \in Connections, Accept(d) \/ Session(d), d # c
      PROVE  FALSE
    <2>1. Own(c)' = Own(c)
        BY <1>1, <1>4 DEF Accept, Session, Read, ReadEnds, Leave, Route, Write, WriteFails, Close,
                          SessionOnly, clients, Own, TypeOK
    <2>2. QED
        BY <2>1
<1>5. Accept(c) \/ Session(c)
    BY <1>3, <1>4 DEF Next
<1>6. CASE Accept(c)
    <2>1. session[c] = "none" /\ session'[c] = "reading" /\ buffer' = buffer /\ inbox' = inbox
        BY <1>1, <1>6 DEF Accept, clients, TypeOK
    <2>2. StepsLeft(c) = 3 * (b + n) + 3 /\ StepsLeft(c)' = 3 * (b + n) + 2
        BY <2>1 DEF StepsLeft
    <2> HIDE DEF b, n
    <2>3. QED
        BY <1>2, <2>2
<1>7. CASE Read(c)
    <2>1. PICK in \in Input(c) : inbox' = [inbox EXCEPT ![c] = in[2]] /\ buffer' = [buffer EXCEPT ![c] = Tail(in[1])]
        BY <1>7 DEF Read
    <2>2. session[c] = "reading" /\ session'[c] = "routing" /\ Stream(c)
        BY <1>1, <1>7 DEF Read, TypeOK, Active
    <2>3. /\ in[1] \in Seq(Requests) /\ in[2] \in Seq(Requests) /\ in[1] # <<>>
          /\ Len(sent[c]) = Consumed(c) + Len(in[1]) + Len(in[2])
          /\ Len(sent[c]) = Consumed(c) + b + n
        BY <1>1, <2>2, InputIsStream DEF Stream
    <2>4. inbox'[c] = in[2] /\ buffer'[c] = Tail(in[1])
        BY <1>1, <2>1 DEF TypeOK
    <2> DEFINE x == Len(in[1])
    <2> DEFINE y == Len(in[2])
    <2> DEFINE rest == Len(Tail(in[1]))
    <2>5. x \in Nat /\ y \in Nat /\ rest = x - 1 /\ Consumed(c) \in Nat
        BY <1>1, <2>3, Sequences, HeadTailProperties
    <2>6. StepsLeft(c) = 3 * (b + n) + 2
        BY <2>2 DEF StepsLeft
    <2>7. StepsLeft(c)' = 3 * (rest + y) + 4
        BY <2>2, <2>4 DEF StepsLeft
    <2>8. Consumed(c) + x + y = Consumed(c) + b + n
        BY <2>3
    <2> HIDE DEF b, n, x, y, rest
    <2>9. QED
        BY <1>2, <2>5, <2>6, <2>7, <2>8
<1>8. CASE ReadEnds(c) \/ WriteFails(c)
    <2>1. session[c] \in {"reading", "writing"} /\ session'[c] = "closing" /\ buffer' = buffer /\ inbox' = inbox
        BY <1>1, <1>8 DEF ReadEnds, WriteFails, Leave, TypeOK
    <2>2. ASSUME session[c] = "reading" PROVE StepsLeft(c) = 3 * (b + n) + 2
        BY <2>2 DEF StepsLeft
    <2>3. ASSUME session[c] = "writing" PROVE StepsLeft(c) = 3 * (b + n) + 3
        BY <2>3 DEF StepsLeft
    <2>4. StepsLeft(c)' = 3 * (b + n) + 1
        BY <2>1 DEF StepsLeft
    <2> HIDE DEF b, n
    <2>5. QED
        BY <1>2, <2>1, <2>2, <2>3, <2>4
<1>9. CASE Route(c)
    <2>1. session[c] = "routing" /\ session'[c] = "writing" /\ buffer' = buffer /\ inbox' = inbox
        BY <1>1, <1>9 DEF Route, TypeOK
    <2>2. StepsLeft(c) = 3 * (b + n) + 4 /\ StepsLeft(c)' = 3 * (b + n) + 3
        BY <2>1 DEF StepsLeft
    <2> HIDE DEF b, n
    <2>3. QED
        BY <1>2, <2>2
<1>10. CASE Write(c)
    <2>1. /\ session[c] = "writing" /\ session'[c] \in {"reading", "closing"}
          /\ buffer' = buffer /\ inbox' = inbox
        BY <1>1, <1>10 DEF Write, TypeOK
    <2>2. StepsLeft(c) = 3 * (b + n) + 3
        BY <2>1 DEF StepsLeft
    <2>3. ASSUME session'[c] = "reading" PROVE StepsLeft(c)' = 3 * (b + n) + 2
        BY <2>1, <2>3 DEF StepsLeft
    <2>4. ASSUME session'[c] = "closing" PROVE StepsLeft(c)' = 3 * (b + n) + 1
        BY <2>1, <2>4 DEF StepsLeft
    <2> HIDE DEF b, n
    <2>5. QED
        BY <1>2, <2>1, <2>2, <2>3, <2>4
<1>11. CASE Close(c)
    <2>1. session[c] = "closing" /\ session'[c] = "ended" /\ buffer'[c] = <<>> /\ inbox'[c] = <<>>
        BY <1>1, <1>11 DEF Close, TypeOK
    <2>2. StepsLeft(c)' = 0
        BY <2>1 DEF StepsLeft
    <2>3. StepsLeft(c) = 3 * (b + n) + 1
        BY <2>1 DEF StepsLeft
    <2> HIDE DEF b, n
    <2>4. QED
        BY <1>2, <2>2, <2>3
<1>12. QED
    BY <1>5, <1>6, <1>7, <1>8, <1>9, <1>10, <1>11 DEF Session

(* However much a client leaves behind, its session takes at most so many  *)
(* more steps, and nobody adds to them.                                    *)
THEOREM SessionsEnd == Spec => SessionRunsOut
<1>1. IInv /\ [Next]_vars =>
         [\A c \in Connections :
             peer[c] \in {"finished", "deaf", "vanished", "reset"} /\ Own(c)' # Own(c) =>
                 StepsLeft(c)' < StepsLeft(c)]_vars
    BY StepRunsOut
<1>2. QED
    BY Invariance, <1>1, PTL DEF Spec, SessionRunsOut
=============================================================================
