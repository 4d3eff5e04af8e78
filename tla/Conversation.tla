--------------------------- MODULE Conversation ---------------------------
(***************************************************************************)
(* What a chat session promises its clients: however often a request is    *)
(* sent, it is answered once; every reply to it is that answer; a request  *)
(* id answers one message only; and the session's memory moves only        *)
(* together with an answer, one answer at a time.                          *)
(***************************************************************************)
CONSTANTS Clients, Requests, Payloads, Memories, None

VARIABLES
    asks,      \* the request id and the message each client sends
    answered,  \* who gave the answer to each request, and to which message
    replied,   \* the answer each client got, or None
    memory     \* what the session remembers

cvars == <<asks, answered, replied, memory>>

Answers == [by : Clients \cup {None}, payload : Payloads]

Init ==
    /\ asks \in [Clients -> [request : Requests, payload : Payloads]]
    /\ answered \in [Requests -> Answers \cup {None}]
    /\ replied = [c \in Clients |-> None]
    /\ memory \in Memories

\* The request is decided: the answer is recorded and sent.
Answer(c) ==
    LET r == asks[c].request IN
    /\ answered[r] = None
    /\ answered' = [answered EXCEPT ![r] = [by |-> c, payload |-> asks[c].payload]]
    /\ replied' = [replied EXCEPT ![c] = answered'[r]]
    /\ memory' \in Memories
    /\ UNCHANGED asks

\* A request sent again gets the answer there is, if it is the same message.
Replay(c) ==
    LET r == asks[c].request IN
    /\ answered[r] # None
    /\ answered[r].payload = asks[c].payload
    /\ replied' = [replied EXCEPT ![c] = answered[r]]
    /\ UNCHANGED <<asks, answered, memory>>

Next == \E c \in Clients : Answer(c) \/ Replay(c)

Spec == Init /\ [][Next]_cvars

=============================================================================
