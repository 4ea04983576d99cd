---------------------------- MODULE HttpService ----------------------------
(***************************************************************************)
(* What the server promises a client on one connection ("Decoded requests  *)
(* are forwarded to the router and the response is written back to the     *)
(* socket", server.h:24): its requests are answered one by one in the      *)
(* order in which it sent them, each with its own answer, up to the first  *)
(* that is not understood or asks for the connection to be closed.         *)
(***************************************************************************)
EXTENDS Naturals, Sequences

CONSTANTS
    Connections,
    Requests,       \* what a client may send: see Server
    MaxRequests     \* MaxRequests[c]: bound on the requests sent on c

VARIABLES
    sent,           \* sent[c]: the requests sent on connection c
    answers         \* answers[c]: the responses written to it

vars == <<sent, answers>>

Malformed == [resource |-> "none", keep_alive |-> FALSE]

AnswerTo(r) == [status |-> IF r.resource = "known" THEN "ok" ELSE "bad_request",
                keep_alive |-> r.keep_alive]

(* Whether the n-th request on c is one to be answered at all.             *)
Answerable(c, n) ==
    /\ n <= Len(sent[c])
    /\ \A i \in 1..n : sent[c][i] # Malformed
    /\ \A i \in 1..(n - 1) : sent[c][i].keep_alive

Init ==
    /\ sent = [c \in Connections |-> <<>>]
    /\ answers = [c \in Connections |-> <<>>]

Ask(c, r) ==
    /\ Len(sent[c]) < MaxRequests[c]
    /\ sent' = [sent EXCEPT ![c] = Append(@, r)]
    /\ UNCHANGED answers

Answer(c) ==
    LET n == Len(answers[c]) + 1 IN
    /\ Answerable(c, n)
    /\ answers' = [answers EXCEPT ![c] = Append(@, AnswerTo(sent[c][n]))]
    /\ UNCHANGED sent

Next == \E c \in Connections : Answer(c) \/ \E r \in Requests : Ask(c, r)

Spec == Init /\ [][Next]_vars
=============================================================================
