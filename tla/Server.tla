------------------------------- MODULE Server -------------------------------
(***************************************************************************)
(* The HTTP server: the accept loop of Server::start, which runs in main's *)
(* thread, and process_tcp_session, which runs in a detached thread of its *)
(* own for each connection.  What a request is routed to is abstracted to  *)
(* whether its resource is known; Router models the routing.               *)
(***************************************************************************)
EXTENDS Naturals, Sequences, FiniteSets

CONSTANTS
    Connections,    \* the connections that clients may open
    Requests,       \* what they may send
    MaxRequests,    \* MaxRequests[c]: bound on the requests sent on c
    Nothing

Malformed == [resource |-> "none", keep_alive |-> FALSE]
WellFormed == [resource : {"known", "unknown"}, keep_alive : BOOLEAN]

(* Malformed: no request, or one that is cut short.                        *)
ASSUME ServerAssumption ==
    /\ IsFiniteSet(Connections)
    /\ Requests \subseteq WellFormed \cup {Malformed}
    /\ MaxRequests \in [Connections -> Nat]

(* The clients and the network.  An open or stalled client may send, one   *)
(* that is finished or deaf has closed its half of the connection; stalled *)
(* and deaf ones do not read their answers.  A reset is noticed by the     *)
(* kernel, a client that has vanished leaves no trace.                     *)
VARIABLES
    peer,       \* peer[c]: what the client at the other end of c does
    sent,       \* sent[c]: all that it has sent
    inbox       \* inbox[c]: what the kernel has of it, not yet read

(* The process.                                                            *)
VARIABLES
    limit,      \* the number of descriptors there are for sockets
    sockets,    \* the connections whose socket is open
    session,    \* session[c]: where the thread of c is
    buffer,     \* buffer[c]: its flat_buffer, read and not yet parsed
    current,    \* current[c]: the request, then the response, of this turn
    answers,    \* answers[c]: what it has written
    process     \* "terminated" once an exception has left a thread's function

clients == <<peer, sent, inbox>>
server == <<limit, sockets, session, buffer, current, answers, process>>
vars == <<clients, server>>

Peers == {"away", "open", "stalled", "finished", "deaf", "vanished", "reset"}

Responses == [status : {"ok", "bad_request"}, keep_alive : BOOLEAN]

TypeOK ==
    /\ peer \in [Connections -> Peers]
    /\ {sent, inbox, buffer} \subseteq [Connections -> Seq(Requests)]
    /\ limit \in Nat \ {0}
    /\ sockets \subseteq Connections /\ Cardinality(sockets) <= limit
    /\ session \in [Connections -> {"none", "reading", "routing", "writing", "closing", "ended"}]
    /\ current \in [Connections -> WellFormed \cup Responses \cup {Nothing}]
    /\ \A c \in Connections : current[c] \in
          IF session[c] = "routing" THEN WellFormed
          ELSE IF session[c] = "writing" THEN Responses
          ELSE {Nothing}
    /\ answers \in [Connections -> Seq(Responses)]
    /\ process \in {"running", "terminated"}

Init ==
    /\ peer = [c \in Connections |-> "away"]
    /\ sent = [c \in Connections |-> <<>>]
    /\ inbox = [c \in Connections |-> <<>>]
    /\ limit \in 1..Cardinality(Connections)
    /\ sockets = {}
    /\ session = [c \in Connections |-> "none"]
    /\ buffer = [c \in Connections |-> <<>>]
    /\ current = [c \in Connections |-> Nothing]
    /\ answers = [c \in Connections |-> <<>>]
    /\ process = "running"

-----------------------------------------------------------------------------
(* Clients.                                                                *)

(* The kernel completes the connection and queues it for accept.           *)
Connect(c) ==
    /\ peer[c] = "away"
    /\ peer' = [peer EXCEPT ![c] = "open"]
    /\ UNCHANGED <<sent, inbox, server>>

(* A client need not wait for one answer before its next request.          *)
Send(c, r) ==
    /\ peer[c] \in {"open", "stalled"} /\ Len(sent[c]) < MaxRequests[c]
    /\ sent' = [sent EXCEPT ![c] = Append(@, r)]
    /\ inbox' = [inbox EXCEPT ![c] = Append(@, r)]
    /\ UNCHANGED <<peer, server>>

(* It stops reading its answers, or goes on; sends no more; vanishes with  *)
(* its host or its network; or resets the connection, as the kernel does   *)
(* when it gives up sending to a client that has vanished.                 *)
Becomes(c, from, to) ==
    /\ peer[c] \in from
    /\ peer' = [peer EXCEPT ![c] = to]
    /\ UNCHANGED <<sent, inbox, server>>

Client(c) ==
    \/ Connect(c)
    \/ \E r \in Requests : Send(c, r)
    \/ Becomes(c, {"open"}, "stalled") \/ Becomes(c, {"stalled"}, "open")
    \/ Becomes(c, {"open"}, "finished") \/ Becomes(c, {"stalled"}, "deaf")
    \/ Becomes(c, {"finished"}, "deaf") \/ Becomes(c, {"deaf"}, "finished")
    \/ Becomes(c, {"open", "stalled", "finished", "deaf"}, "vanished")
    \/ Becomes(c, {"open", "stalled", "finished", "deaf", "vanished"}, "reset")

-----------------------------------------------------------------------------
(* Server::start.                                                          *)

(* Mutant: the thread is joined and not detached.                          *)
AcceptAndJoin(c) ==
    /\ peer[c] # "away" /\ session[c] = "none"
    /\ sockets = {}
    /\ sockets' = sockets \cup {c}
    /\ session' = [session EXCEPT ![c] = "reading"]
    /\ UNCHANGED <<clients, limit, buffer, current, answers, process>>

(* accept returns, and a detached thread gets the socket.                  *)
Accept(c) ==
    /\ peer[c] # "away" /\ session[c] = "none"
    /\ Cardinality(sockets) < limit
    /\ sockets' = sockets \cup {c}
    /\ session' = [session EXCEPT ![c] = "reading"]
    /\ UNCHANGED <<clients, limit, buffer, current, answers, process>>

(* Without a descriptor for the new socket accept throws, out of main.     *)
AcceptThrows(c) ==
    /\ peer[c] # "away" /\ session[c] = "none"
    /\ Cardinality(sockets) >= limit
    /\ process' = "terminated"
    /\ UNCHANGED <<clients, limit, sockets, session, buffer, current, answers>>

-----------------------------------------------------------------------------
(* process_tcp_session.                                                    *)

SessionOnly == UNCHANGED <<peer, sent, limit, process>>

(* What the reader has before it: the buffer or, when that is empty, what  *)
(* one or more receives bring into it.                                     *)
Input(c) ==
    IF buffer[c] # <<>> THEN {<<buffer[c], inbox[c]>>}
    ELSE {<<SubSeq(inbox[c], 1, k), SubSeq(inbox[c], k + 1, Len(inbox[c]))>> : k \in 1..Len(inbox[c])}

(* Mutant: what has been parsed stays in the buffer.                       *)
ReadAndKeep(c) ==
    /\ session[c] = "reading"
    /\ \E in \in Input(c) :
          /\ Head(in[1]) # Malformed
          /\ current' = [current EXCEPT ![c] = Head(in[1])]
          /\ inbox' = [inbox EXCEPT ![c] = in[2]]
          /\ buffer' = [buffer EXCEPT ![c] = in[1]]
    /\ session' = [session EXCEPT ![c] = "routing"]
    /\ UNCHANGED <<sockets, answers>> /\ SessionOnly

(* http::read: one request; what came in after it stays in the buffer.     *)
Read(c) ==
    /\ session[c] = "reading"
    /\ \E in \in Input(c) :
          /\ Head(in[1]) # Malformed
          /\ current' = [current EXCEPT ![c] = Head(in[1])]
          /\ inbox' = [inbox EXCEPT ![c] = in[2]]
          /\ buffer' = [buffer EXCEPT ![c] = Tail(in[1])]
    /\ session' = [session EXCEPT ![c] = "routing"]
    /\ UNCHANGED <<sockets, answers>> /\ SessionOnly

Leave(c) ==
    /\ session' = [session EXCEPT ![c] = "closing"]
    /\ current' = [current EXCEPT ![c] = Nothing]
    /\ UNCHANGED <<sockets, inbox, buffer, answers>> /\ SessionOnly

(* Mutant: any other error is logged and the read tried again.             *)
ReadEndsOnlyAtEnd(c) ==
    /\ session[c] = "reading"
    /\ peer[c] \in {"finished", "deaf"} /\ buffer[c] = <<>> /\ inbox[c] = <<>>
    /\ Leave(c)

(* error is end_of_stream, or another: not understood, connection reset.   *)
ReadEnds(c) ==
    /\ session[c] = "reading"
    /\ \/ peer[c] \in {"finished", "deaf"} /\ buffer[c] = <<>> /\ inbox[c] = <<>>
       \/ peer[c] = "reset"
       \/ \E in \in Input(c) : Head(in[1]) = Malformed
    /\ Leave(c)

BadRequest(r) == [status |-> "bad_request", keep_alive |-> r.keep_alive]
Ok(r) == [status |-> "ok", keep_alive |-> r.keep_alive]

(* Router::process_http_request and the endpoint it finds.                 *)
Route(c) ==
    /\ session[c] = "routing"
    /\ session' = [session EXCEPT ![c] = "writing"]
    /\ current' = [current EXCEPT ![c] = IF @.resource = "known" THEN Ok(@) ELSE BadRequest(@)]
    /\ UNCHANGED <<sockets, inbox, buffer, answers>> /\ SessionOnly

(* dump() of the endpoint throws: see Backend.                             *)
RouteThrows(c) ==
    /\ session[c] = "routing" /\ current[c].resource = "known"
    /\ process' = "terminated"
    /\ UNCHANGED <<clients, limit, sockets, session, buffer, current, answers>>

(* Mutant: the connection is kept alive whatever the request says.         *)
WriteAndStay(c) ==
    /\ session[c] = "writing" /\ peer[c] # "reset"
    /\ answers' = [answers EXCEPT ![c] = Append(@, current[c])]
    /\ session' = [session EXCEPT ![c] = "reading"]
    /\ current' = [current EXCEPT ![c] = Nothing]
    /\ UNCHANGED <<sockets, inbox, buffer>> /\ SessionOnly

(* Mutant: request and response are declared outside the loop.             *)
WriteAndKeep(c) ==
    /\ session[c] = "writing" /\ peer[c] # "reset"
    /\ answers' = [answers EXCEPT ![c] = Append(@, current[c])]
    /\ session' = [session EXCEPT ![c] = IF current[c].keep_alive THEN "reading" ELSE "closing"]
    /\ UNCHANGED <<sockets, inbox, buffer, current>> /\ SessionOnly

(* The kernel has taken the response, which says whether there will be     *)
(* another turn.                                                           *)
Write(c) ==
    /\ session[c] = "writing" /\ peer[c] # "reset"
    /\ answers' = [answers EXCEPT ![c] = Append(@, current[c])]
    /\ session' = [session EXCEPT ![c] = IF current[c].keep_alive THEN "reading" ELSE "closing"]
    /\ current' = [current EXCEPT ![c] = Nothing]
    /\ UNCHANGED <<sockets, inbox, buffer>> /\ SessionOnly

WriteFails(c) ==
    /\ session[c] = "writing" /\ peer[c] = "reset"
    /\ Leave(c)

(* shutdown; the function returns and the thread's end closes the socket.  *)
Close(c) ==
    /\ session[c] = "closing"
    /\ session' = [session EXCEPT ![c] = "ended"]
    /\ sockets' = sockets \ {c}
    /\ buffer' = [buffer EXCEPT ![c] = <<>>]
    /\ inbox' = [inbox EXCEPT ![c] = <<>>]
    /\ UNCHANGED <<current, answers>> /\ SessionOnly

(* The kernel need not take a response for a client that reads nothing, and*)
(* http::write then waits without a timeout.                               *)
Blocked(c) == session[c] = "writing" /\ peer[c] \in {"stalled", "deaf", "vanished"}

Session(c) == Read(c) \/ ReadEnds(c) \/ Route(c) \/ Write(c) \/ WriteFails(c) \/ Close(c)

Next ==
    /\ process = "running"
    /\ \E c \in Connections :
          Client(c) \/ Accept(c) \/ AcceptThrows(c) \/ Session(c) \/ RouteThrows(c)

Spec == Init /\ [][Next]_vars

(* The scheduler runs main's thread and every session's that is not waiting*)
(* for its client.  Of the clients nothing is assumed.                     *)
FairSpec ==
    /\ Spec
    /\ \A c \in Connections :
          /\ WF_vars(process = "running" /\ ~Blocked(c) /\ Session(c))
          /\ WF_vars(process = "running" /\ (Accept(c) \/ AcceptThrows(c)))

-----------------------------------------------------------------------------
Service == INSTANCE HttpService

(* On each connection the answers are those to its requests, in order and  *)
(* one for each, whatever a receive happens to bring in: none is skipped,  *)
(* repeated or given to another, and there is none after a request that    *)
(* asks to close the connection or is not understood.                      *)
AnswersInOrder == Service!Spec

(* A client that is there to read it gets the answer to each request that  *)
(* is to be answered, however other clients behave, unless the process is  *)
(* terminated.                                                             *)
RequestsAreAnswered ==
    \A c \in Connections : \A n \in 1..MaxRequests[c] :
        Service!Answerable(c, n) ~>
            \/ Len(answers[c]) >= n
            \/ peer[c] \in {"stalled", "deaf", "vanished", "reset"}
            \/ process = "terminated"

(* The steps that a session may still take, if no more requests come in.   *)
StepsLeft(c) ==
    LET place == [none |-> 3, reading |-> 2, routing |-> 4, writing |-> 3, closing |-> 1, ended |-> 0]
    IN  3 * (Len(buffer[c]) + Len(inbox[c])) + place[session[c]]

Own(c) == <<inbox[c], session[c], buffer[c], current[c], answers[c]>>

(* Once its client sends no more, each step that a session takes brings    *)
(* its end nearer, however much the client has left behind, and nothing    *)
(* that other clients or sessions do puts it off.  Whether it takes one is *)
(* another matter: see DescriptorsComeBack.                                *)
SessionRunsOut ==
    [][\A c \in Connections :
        peer[c] \in {"finished", "deaf", "vanished", "reset"} /\ Own(c)' # Own(c) =>
            StepsLeft(c)' < StepsLeft(c)]_vars

(* A session ends and gives its descriptor back once its client has closed *)
(* its half of the connection or reset it, wherever in its turn that finds *)
(* it.  Only two kinds of clients that send no more can keep a descriptor: *)
(* those that do not read the response that is being written to them, and  *)
(* those that vanish unnoticed.                                            *)
DescriptorsComeBack ==
    \A c \in Connections :
        peer[c] \in {"finished", "deaf", "reset"} ~>
            \/ session[c] = "ended" /\ c \notin sockets
            \/ Blocked(c) \/ peer[c] = "vanished"
            \/ process = "terminated"
=============================================================================
