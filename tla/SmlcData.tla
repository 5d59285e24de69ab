------------------------------ MODULE SmlcData ------------------------------
(***************************************************************************)
(* The data of the OsmoSMLC process (smlc_data.h, lb_peer.h, lb_conn.h,     *)
(* smlc_subscr.h, smlc_loc_req.h): the objects that hang off g_smlc, and    *)
(* what the process shows to the outside.                                   *)
(*                                                                         *)
(* The program is one thread that runs each handler to completion, and a    *)
(* handler calls through several source files.  Every function that         *)
(* changes objects is therefore an operator from a heap h to a heap, in     *)
(* the module named for its source file; the actions of module OsmoSmlc     *)
(* apply one handler to the heap g_smlc.                                    *)
(***************************************************************************)
EXTENDS Integers, Sequences, FiniteSets

CONSTANTS
    Peers,       \* SCCP addresses of the BSCs
    ConnIds,     \* SCCP connection ids that the SCCP provider hands out
    Imsis,       \* subscriber identities
    RequestCells,\* cell identities that a Perform Location Request may name
    Plmns, Lacs, Cis, Positions, NoPart, \* see CellLocations
    Outages,     \* sets of failures, one of which an event may meet
    NULL

VARIABLES
    g_smlc,         \* the heap
    cell_locations, startup, line  \* see CellLocations

Cells == INSTANCE CellLocations

cellVars == <<cell_locations, startup, line>>
vars == <<g_smlc, cell_locations, startup, line>>

\* What may fail under a handler: composing the GAD estimate, encoding a
\* connection-oriented message, handing it to SCCP; encoding or handing over
\* a connectionless message.
Failures == {"gad", "enc_ta_request", "enc_location", "enc_cause", "send_co", "enc_cl", "send_cl"}

----------------------------------------------------------------------------
(* Objects.  NULL stands for an object that is not allocated.              *)

\* struct smlc_subscr: its use count, by use token.
SubscrTokens == {"Lb-conn", "smlc_loc_req_start"}
Subscr == [SubscrTokens -> Int]

\* struct smlc_loc_req with the state of its FSM instance.
LocReqStates == {"INIT", "WAIT_TA", "GOT_TA", "FAILED"}
LocReq == [state : LocReqStates, latest_cell_id : Cells!CellId, ta_present : BOOLEAN]

\* struct lb_conn.
ConnTokens == {"lb_peer_st_ready", "smlc_loc_req", "smlc_loc_req_start"}
Conn == [lb_peer : Peers \cup {NULL},
         closing : BOOLEAN,
         use_count : [ConnTokens -> Int],
         smlc_subscr : Imsis \cup {NULL},
         smlc_loc_req : LocReq \cup {NULL}]

\* enum lb_peer_state; LB_PEER_ST_DISCARDING is never entered.
PeerStates == {"WAIT_RX_RESET", "WAIT_RX_RESET_ACK", "READY"}

\* NULL is none of the objects that it stands in for, nor is NoPart.
ASSUME DataAssumption ==
    /\ NULL \notin Peers \cup ConnIds \cup Imsis \cup PeerStates
    /\ NULL \notin LocReq /\ NULL \notin Conn /\ NULL \notin Subscr
    /\ NoPart \notin Plmns \cup Lacs \cup Cis \cup Positions
    /\ IsFiniteSet(ConnIds)
    /\ RequestCells \subseteq Cells!CellId
    /\ Outages \subseteq SUBSET Failures /\ {} \in Outages

(* Messages to the BSC.                                                    *)

LcsCauses == {"SYSTEM_FAILURE", "FACILITY_NOTSUPP", "REQUEST_ABORTED"}

\* Connection-oriented: the BSSLAP TA Request, and the Perform Location
\* Response with a location estimate or with an LCS cause.
TaRequest == [type |-> "ta_request"]
Location(lat_lon) == [type |-> "location", lat_lon |-> lat_lon]
Failure(cause) == [type |-> "cause", cause |-> cause]
Pdu == {TaRequest} \cup {Location(x) : x \in Positions} \cup {Failure(x) : x \in LcsCauses}

\* A Perform Location Response ends the exchange on a connection.
IsResponse(pdu) == pdu.type \in {"location", "cause"}

\* Connectionless.
Unitdata == [to : Peers, type : {"RESET", "RESET_ACK"}]

\* Steps the C program does not survive.
Faults == {"use after free", "use count below zero", "null request", "double free"}

Heap == [lb_peers : [Peers -> PeerStates \cup {NULL}],
         conn : [ConnIds -> Conn \cup {NULL}],          \* the lb_conn of an id
         ahead : SUBSET (ConnIds \X ConnIds),           \* its place in the list lb_conns
         subscr : [Imsis -> Subscr \cup {NULL}],        \* g_smlc->subscribers
         sccp : [ConnIds -> Peers \cup {NULL}],         \* the SCCP connections now open
         sent : [ConnIds -> Seq(Pdu)],                  \* sent since the N-CONNECT of the id
         unitdata : SUBSET Unitdata,                    \* sent by the last handler
         fault : SUBSET Faults]

\* smlc_state_alloc() and sccp_lb_init(): nothing is allocated.
EmptyHeap == [lb_peers |-> [p \in Peers |-> NULL],
              conn |-> [c \in ConnIds |-> NULL],
              ahead |-> {},
              subscr |-> [s \in Imsis |-> NULL],
              sccp |-> [c \in ConnIds |-> NULL],
              sent |-> [c \in ConnIds |-> <<>>],
              unitdata |-> {},
              fault |-> {}]

\* The list sli->lb_conns; h.ahead says which connection precedes which.
lb_conns(h) == {c \in ConnIds : h.conn[c] # NULL}

\* g_smlc->subscribers.
subscribers(h) == {s \in Imsis : h.subscr[s] # NULL}

Fault(h, why) == [h EXCEPT !.fault = @ \cup {why}]
============================================================================
