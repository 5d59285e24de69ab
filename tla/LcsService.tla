----------------------------- MODULE LcsService -----------------------------
(***************************************************************************)
(* What the BSCs may rely on: the location service as they see it, without  *)
(* FSMs, use counts, lists and timers.  Module OsmoSmlc is shown to          *)
(* implement it (Service in that module).                                   *)
(*                                                                         *)
(* A step is about one connection.  Two steps only reach further: a RESET   *)
(* ends the requests of the BSC that it is for and of no other, and a       *)
(* restart of the process ends all.                                         *)
(***************************************************************************)
CONSTANTS
    Peers, ConnIds, Positions, NULL,  \* see SmlcData
    Failures                          \* responses that carry no position

VARIABLES
    link,       \* the BSC to which a connection is open, or NULL
    request,    \* the BSC for which the program works on a request, or NULL
    answer,     \* the response that the last user of a connection got, or NULL
    known       \* the positions that are configured now

vars == <<link, request, answer, known>>

\* A response names a position only if it is configured at that moment.
Location(lat_lon) == [type |-> "location", lat_lon |-> lat_lon]
Answers == Failures \cup {Location(x) : x \in known}

None == [c \in ConnIds |-> NULL]
Init == link = None /\ request = None /\ answer = None /\ known = {}

----------------------------------------------------------------------------
(* A BSC opens a connection, which forgets what an earlier user of it got.  *)

\* The request is taken on.
Accept(c, p) ==
    /\ link[c] = NULL /\ request[c] = NULL
    /\ link' = [link EXCEPT ![c] = p]
    /\ request' = [request EXCEPT ![c] = p]
    /\ answer' = [answer EXCEPT ![c] = NULL]
    /\ UNCHANGED known

\* The connection is left open without a request.
Ignore(c, p) ==
    /\ link[c] = NULL /\ request[c] = NULL
    /\ link' = [link EXCEPT ![c] = p]
    /\ answer' = [answer EXCEPT ![c] = NULL]
    /\ UNCHANGED <<request, known>>

\* The connection is refused; an earlier request may still occupy it.
Refuse(c) ==
    /\ link[c] = NULL
    /\ answer' = [answer EXCEPT ![c] = NULL]
    /\ UNCHANGED <<link, request, known>>

\* The request is answered at once.
AnswerAtOnce(c, a) ==
    /\ link[c] = NULL /\ request[c] = NULL
    /\ answer' = [answer EXCEPT ![c] = a]
    /\ UNCHANGED <<link, request, known>>

----------------------------------------------------------------------------
(* A request ends.                                                         *)

\* With a response, to the BSC that has asked and still listens.
Answer(c, a) ==
    /\ request[c] # NULL /\ link[c] = request[c] /\ answer[c] = NULL
    /\ answer' = [answer EXCEPT ![c] = a]
    /\ request' = [request EXCEPT ![c] = NULL]
    /\ link' = [link EXCEPT ![c] = NULL]
    /\ UNCHANGED known

\* Without: the BSC has aborted it or gone away, or nothing can be sent.
Withdraw(c) ==
    /\ request[c] # NULL
    /\ request' = [request EXCEPT ![c] = NULL]
    /\ link' = [link EXCEPT ![c] = NULL]
    /\ UNCHANGED <<answer, known>>

\* The BSC closes a connection, which need not end the request at once.
HangUp(c) ==
    /\ link' = [link EXCEPT ![c] = NULL]
    /\ UNCHANGED <<request, answer, known>>

\* A RESET of one BSC, from either side.
Reset(p) ==
    /\ request' = [c \in ConnIds |-> IF request[c] = p THEN NULL ELSE request[c]]
    /\ UNCHANGED <<link, answer, known>>

----------------------------------------------------------------------------

Restart == link' = None /\ request' = None /\ answer' = None /\ known' = {}

Configure(positions) == known' = positions /\ UNCHANGED <<link, request, answer>>

Next ==
    \/ \E c \in ConnIds :
         \/ \E p \in Peers : Accept(c, p) \/ Ignore(c, p)
         \/ Refuse(c)
         \/ \E a \in Answers : AnswerAtOnce(c, a) \/ Answer(c, a)
         \/ Withdraw(c)
         \/ HangUp(c)
    \/ \E p \in Peers : Reset(p)
    \/ Restart
    \/ \E positions \in SUBSET Positions : Configure(positions)

Spec == Init /\ [][Next]_vars
============================================================================
