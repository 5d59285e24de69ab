------------------------------ MODULE OsmoSmlc ------------------------------
(***************************************************************************)
(* The OsmoSMLC process: the primitives that the SCCP provider hands to     *)
(* sccp_lb_sap_up() (sccp_lb_inst.c), the two timers, the VTY, and the      *)
(* restart of the process.  Every action is one round of the select loop.   *)
(***************************************************************************)
EXTENDS LbPeer

\* The main loop runs when the configuration is read and nothing has gone wrong.
Running == line = 0 /\ g_smlc.fault = {}

\* A handler starts with nothing sent yet.
Before == [g_smlc EXCEPT !.unitdata = {}]

Handle(h) == g_smlc' = h /\ UNCHANGED cellVars

\* The SCCP provider has a new connection under id c, which is accepted.
Opened(h, c, p) == [h EXCEPT !.sccp[c] = p, !.sent[c] = <<>>]

\* N-CONNECT.ind: the id is one that the provider does not use yet;
\* sccp_lb_sap_up() accepts the connection before it looks at the message.
N_CONNECT(c, p, msg, failing) ==
    /\ Running
    /\ g_smlc.sccp[c] = NULL
    /\ Handle(UpCoInitial(Opened(Before, c, p), p, c, msg, failing))

\* N-CONNECT.ind without a message: the connection is neither accepted nor
\* refused.  It is not one of h.sccp, and the program keeps nothing of it.
N_CONNECT_Empty == Running /\ Handle(Before)

\* N-DATA.ind, on an open connection.
N_DATA(c, msg, failing) ==
    /\ Running
    /\ g_smlc.sccp[c] # NULL
    /\ Handle(UpCo(Before, c, msg, failing))

\* N-DISCONNECT.ind, with a message or without, on an open connection or on one
\* that was never accepted, whose id may be that of an object that has outlived
\* another: the SCCP connection is gone.  The call of sccp_lb_disconnect() that
\* follows finds nothing to release.
N_DISCONNECT(c, msg, failing) ==
    /\ Running
    /\ LET gone == [Before EXCEPT !.sccp[c] = NULL]
           received == IF msg = NULL THEN gone ELSE UpCo(gone, c, msg, failing)
       IN  Handle(sccp_lb_disconnect(received, c))

\* N-UNITDATA.ind.
N_UNITDATA(p, type, failing) ==
    /\ Running
    /\ Handle(UpCl(Before, p, type, failing))

Pending(c) == c \in lb_conns(g_smlc) /\ g_smlc.conn[c].smlc_loc_req # NULL

\* Timer T-12 runs while a request is in WAIT_TA, and T-13 while a peer is in
\* WAIT_RX_RESET_ACK; they expire in the main loop only.
T12Runs(c) == Running /\ Pending(c) /\ g_smlc.conn[c].smlc_loc_req.state = "WAIT_TA"
T13Runs(p) == Running /\ g_smlc.lb_peers[p] = "WAIT_RX_RESET_ACK"

TimeoutT12(c, failing) ==
    /\ T12Runs(c)
    /\ Handle(smlc_loc_req_fsm_timer_cb(Before, c, failing))

\* Faulty variants of TimeoutT13: the state that has no transitions, a RESET that
\* is repeated for ever, and a RESET that is taken for acknowledged.
T13Discards(p) ==
    /\ T13Runs(p)
    /\ Handle(lb_peer_state_chg(Before, p, "DISCARDING"))

T13Repeats(p) ==
    /\ T13Runs(p)
    /\ Handle(lb_peer_reset(Before, p, {}))

T13Proceeds(p) ==
    /\ T13Runs(p)
    /\ Handle(lb_peer_state_chg(Before, p, "READY"))

\* lb_peer_fsm_timer_cb().
TimeoutT13(p) ==
    /\ T13Runs(p)
    /\ Handle(lb_peer_state_chg(Before, p, "WAIT_RX_RESET"))

\* A VTY command of the `cells' node, or a line of the configuration file.
Vty == g_smlc.fault = {} /\ (Cells!Vty \/ Cells!ReadFile) /\ UNCHANGED g_smlc

\* The process is stopped, or has failed, and is started again by systemd.
Restart == g_smlc' = EmptyHeap /\ Cells!Restart

----------------------------------------------------------------------------

Init == g_smlc = EmptyHeap /\ Cells!Init

Next ==
    \/ \E c \in ConnIds, failing \in Outages :
         \/ \E p \in Peers, msg \in Message : N_CONNECT(c, p, msg, failing)
         \/ \E msg \in Message : N_DATA(c, msg, failing)
         \/ \E msg \in Message \cup {NULL} : N_DISCONNECT(c, msg, failing)
         \/ TimeoutT12(c, failing)
    \/ N_CONNECT_Empty
    \/ \E p \in Peers, failing \in Outages :
         \E type \in {"RESET", "RESET_ACK", "unsupported"} : N_UNITDATA(p, type, failing)
    \/ \E p \in Peers : TimeoutT13(p)
    \/ Vty
    \/ Restart

Spec == Init /\ [][Next]_vars

\* A connection-oriented message of a peer, which restarts T-13.
CoFrom(p) ==
    \E c \in ConnIds, msg \in Message, failing \in Outages : N_CONNECT(c, p, msg, failing)

\* The same with the fairness that the program's scheduling justifies: a T-12
\* that runs expires, since nothing restarts it (smlc_loc_req.c:167), a T-13
\* that runs expires unless lb_peer_reset() restarts it again and again, and
\* systemd starts a process again that has failed (contrib/systemd/osmo-smlc.service:6).
\* This is weak fairness, with the condition under which each of the steps can
\* be taken, and changes anything, written out.
T12Expires(c) == \E failing \in Outages : TimeoutT12(c, failing)
T12CanExpire(c) ==
    T12Runs(c) /\ \E failing \in Outages : smlc_loc_req_fsm_timer_cb(Before, c, failing) # g_smlc

Fairness ==
    /\ \A c \in ConnIds :
         \/ []<>~T12CanExpire(c)
         \/ []<><<T12Expires(c)>>_vars
    /\ \A p \in Peers :
         \/ []<>~T13Runs(p)
         \/ []<><<TimeoutT13(p) \/ CoFrom(p)>>_vars
    /\ []<>(g_smlc.fault = {})

FairSpec == Spec /\ Fairness

----------------------------------------------------------------------------
(* Invariants: what holds between two handlers.                            *)

\* The heap is well formed, and so is the cell location database.
TypeOK == g_smlc \in Heap /\ Cells!TypeOK

Alive == lb_conns(g_smlc)

\* Between two handlers a connection object exists for its pending request and
\* for nothing else: the request waits for the timing advance with T-12 running
\* and holds the only use count.  A token that is taken and not returned on one
\* of the paths through lb_peer_st_ready(), smlc_loc_req_start() and the FSM
\* leaves a connection that no timer ends (lb_conn.c:59-63, smlc_loc_req.c:159).
HeldByRequest ==
    g_smlc.fault = {} =>
        \A c \in Alive :
            /\ ~g_smlc.conn[c].closing
            /\ g_smlc.conn[c].smlc_loc_req # NULL
            /\ g_smlc.conn[c].smlc_loc_req.state = "WAIT_TA"
            /\ g_smlc.conn[c].use_count = [t \in ConnTokens |-> IF t = "smlc_loc_req" THEN 1 ELSE 0]

\* A connection object exists only while its peer is READY: whatever leads a
\* peer out of READY has dropped its connections (lb_peer.c:111, 153).
OnlyReadyPeersHaveConns ==
    g_smlc.fault = {} =>
        \A c \in Alive :
            /\ g_smlc.conn[c].lb_peer # NULL
            /\ g_smlc.lb_peers[g_smlc.conn[c].lb_peer] = "READY"

\* An SCCP connection and the connection object with the same id are for the
\* same peer, even when the object has outlived the connection and the provider
\* hands out the id again (sccp_lb_inst.c:148, lb_peer.c:453).
SamePeerOnBothSides ==
    g_smlc.fault = {} => \A c \in Alive : g_smlc.sccp[c] \in {NULL, g_smlc.conn[c].lb_peer}

\* A subscriber is listed exactly while a connection is for it, and its use
\* count is the number of these connections (smlc_loc_req.c:115-144, lb_conn.c:184).
SubscrUseIsExact ==
    g_smlc.fault = {} =>
        \A s \in Imsis :
            LET users == {c \in Alive : g_smlc.conn[c].smlc_subscr = s}
            IN  IF users = {} THEN g_smlc.subscr[s] = NULL
                ELSE /\ s \in subscribers(g_smlc)
                     /\ g_smlc.subscr[s]["Lb-conn"] = Cardinality(users)
                     /\ g_smlc.subscr[s]["smlc_loc_req_start"] = 0

\* No handler uses an object that is freed or puts a use count below zero, the
\* hazard that the comment in smlc_loc_req.c:147-149 is about.
NoUseCountFault == g_smlc.fault \cap {"use after free", "use count below zero"} = {}

\* On a connection the BSC sees at most one TA Request and at most one response,
\* in this order, and the response is the end: the SCCP connection is released
\* and the connection object gone with it (smlc_loc_req.c:364-369, 382-383).
AnsweredOnce ==
    \A c \in ConnIds :
        LET sent == g_smlc.sent[c]
            responses == {i \in DOMAIN sent : IsResponse(sent[i])}
        IN  /\ Cardinality(responses) <= 1
            /\ Cardinality(DOMAIN sent \ responses) <= 1
            /\ responses # {} => /\ IsResponse(sent[Len(sent)])
                                 /\ g_smlc.sccp[c] = NULL
                                 /\ c \notin Alive

\* What the next handler may leave behind for an event on connection c: T-12, or
\* a message that is not the BSC's own Perform Location Abort.
AfterEvent(c, failing) ==
    LET messages == {msg \in Message : msg.type # "perform_loc_abort"}
    IN  IF g_smlc.sccp[c] = NULL
        THEN {UpCoInitial(Opened(Before, c, p), p, c, msg, failing) : p \in Peers, msg \in messages}
        ELSE {UpCo(Before, c, msg, failing) : msg \in messages}
               \cup (IF Pending(c) THEN {smlc_loc_req_fsm_timer_cb(Before, c, failing)} ELSE {})

\* A request whose SCCP connection is open stays pending or ends in a response and
\* the release of the connection, whatever happens on its own connection or on
\* another, also when the estimate or the location response cannot be encoded
\* (smlc_loc_req.c:345-368).  In an outage that stops the failure response too,
\* noticed by the program or not (lb_peer.c:313), the BSC is told by the release
\* alone; and only the BSC itself, by an abort, ends it in another way.
EndsInAnswer ==
    Running =>
        \A c, d \in ConnIds, failing \in Outages :
            Pending(c) /\ g_smlc.sccp[c] # NULL =>
              \A h \in AfterEvent(d, failing) :
                \/ h.conn[c] # NULL
                \/ /\ h.sccp[c] = NULL
                   /\ \/ \E i \in DOMAIN h.sent[c] : IsResponse(h.sent[c][i])
                      \/ failing \cap {"enc_cause", "send_co"} # {}

\* The single step that stands for lb_peer_discard_all_conns() has the effect of
\* its loop (lb_peer.c:91-98): discarding one connection does not disturb the
\* next, whichever subscribers they share.
DiscardAllIsTheLoop ==
    g_smlc.fault = {} =>
        \A p \in Peers : DiscardLoop(g_smlc, p) = lb_peer_discard_all_conns(g_smlc, p)

----------------------------------------------------------------------------
(* Action properties: what a handler may never do.                         *)

\* An SCCP connection that is open and has no connection object.
Orphan(c) == g_smlc.sccp[c] # NULL /\ c \notin Alive

\* The program leaves an SCCP connection open without an object for it only in
\* a handler that tells the BSC to forget its connections, by RESET or RESET
\* ACKNOWLEDGE, or that is left waiting for the BSC's RESET because it could not
\* (lb_peer.c:101-168): otherwise the BSC would wait on it forever.
OrphansAreReset ==
    [][\A c \in ConnIds : ~Orphan(c) /\ Orphan(c)' =>
         LET p == g_smlc'.sccp[c]
         IN  \/ \E m \in g_smlc'.unitdata : m.to = p
             \/ g_smlc'.lb_peers[p] = "WAIT_RX_RESET"]_vars

\* The last handler has changed the peer, a connection object of it or an SCCP
\* connection with it, or has sent it a message.
Touched(p) ==
    \/ g_smlc'.lb_peers[p] # g_smlc.lb_peers[p]
    \/ \E m \in g_smlc'.unitdata : m.to = p
    \/ \E c \in ConnIds :
         \/ /\ g_smlc'.conn[c] # g_smlc.conn[c]
            /\ \E h \in {g_smlc, g_smlc'} : h.conn[c] # NULL /\ h.conn[c].lb_peer = p
         \/ /\ g_smlc'.sccp[c] # g_smlc.sccp[c] \/ g_smlc'.sent[c] # g_smlc.sent[c]
            /\ p \in {g_smlc.sccp[c], g_smlc'.sccp[c]}

\* A handler deals with one BSC only: no BSC loses a connection or its READY
\* state, or is sent anything, over what another BSC does, also when the two ask
\* for the same subscriber or use the same id one after the other
\* (lb_peer.c:91-98, 453, smlc_loc_req.c:128-143).
OneBscAtATime ==
    [][(\A p, q \in Peers : Touched(p) /\ Touched(q) => p = q) \/ Restart]_g_smlc

\* A location that is sent after the BSC has reported a cell, because the
\* subscriber moved on within the BSC, is that of the reported cell as it is
\* configured by then, and not of the cell that the request named by its CI
\* (smlc_loc_req.c:299, 309; the operator may change the list meanwhile).
LocationFollowsHandover ==
    [][\A c \in ConnIds, lat_lon \in Positions, ci \in Cis :
         /\ Pending(c) /\ g_smlc.conn[c].smlc_loc_req.latest_cell_id.ci # NoPart
         /\ g_smlc'.sent[c] = Append(g_smlc.sent[c], Location(lat_lon))
         /\ \E failing \in Outages, type \in {"ta_response", "bsslap_reset"} :
              N_DATA(c, [type |-> type, ci |-> ci], failing)
         => \E i \in DOMAIN cell_locations :
              cell_locations[i].lat_lon = lat_lon /\ cell_locations[i].cell_id.ci = ci]_vars

----------------------------------------------------------------------------
(* What the BSCs see of it.                                                *)

Requester(h, c) ==
    IF c \in lb_conns(h) /\ h.conn[c].smlc_loc_req # NULL THEN h.conn[c].lb_peer ELSE NULL
ResponseOn(h, c) ==
    LET sent == h.sent[c]
    IN  IF sent # <<>> /\ IsResponse(Last(sent)) THEN Last(sent) ELSE NULL
KnownPositions == {cell_locations[i].lat_lon : i \in DOMAIN cell_locations}

Service == INSTANCE LcsService WITH
    link <- g_smlc.sccp,
    request <- [c \in ConnIds |-> Requester(g_smlc, c)],
    answer <- [c \in ConnIds |-> ResponseOn(g_smlc, c)],
    known <- KnownPositions,
    Failures <- {Failure(cause) : cause \in LcsCauses}

\* The process is the location service of module LcsService: a message, a timer
\* or a failure on one connection leaves all others alone, a RESET ends the
\* requests of its BSC only, an answer goes to the BSC that has asked and names
\* a position that is configured at that moment (lb_peer.c:91-98, 101-168,
\* smlc_loc_req.c:109-145, 336-370).
ImplementsService == Service!Spec

----------------------------------------------------------------------------
(* Liveness.                                                               *)

\* Every request ends, whatever the BSC and the operator do: T-12 is never put
\* off by further messages on the connection (smlc_loc_req.c:101-107).
RequestsEnd == \A c \in ConnIds : Pending(c) ~> ~Pending(c)

\* A peer that stays quiet on connections does not keep the program waiting for
\* a RESET ACKNOWLEDGE that was lost (lb_peer.c:332-337).
ResetGivesUp ==
    \A p \in Peers :
        <>[][~CoFrom(p)]_vars =>
            (g_smlc.lb_peers[p] = "WAIT_RX_RESET_ACK" ~> g_smlc.lb_peers[p] # "WAIT_RX_RESET_ACK")

----------------------------------------------------------------------------
(* What comments and log messages say, and the program does not do.        *)

\* smlc_loc_req.c:138: "Another conn opened for this subscriber, discarding".
OneConnPerSubscr ==
    \A c, d \in Alive :
        c # d /\ g_smlc.conn[c].smlc_subscr = g_smlc.conn[d].smlc_subscr
          => g_smlc.conn[c].smlc_subscr = NULL

\* lb_peer.c:211-212: "Receiving CO message on Lb peer that has not done a
\* proper RESET yet. Disconnecting on incoming message".
EarlyConnIsDisconnected ==
    [][\A c \in ConnIds, p \in Peers, msg \in Message, failing \in Outages :
         N_CONNECT(c, p, msg, failing) /\ g_smlc.lb_peers[p] # "READY" => g_smlc'.sccp[c] = NULL]_vars

\* sccp_lb_inst.c:145: "Make sure the lb_conn is dropped".
DisconnectDropsConn ==
    [][\A c \in ConnIds, failing \in Outages : N_DISCONNECT(c, NULL, failing) => c \notin Alive']_vars

\* lb_peer.c:129: "sccp_lb_down_l2_cl() doesn't free msgb", so the sender of a
\* message frees the message that it has composed, and no other.
MessagesAreFreedOnce == "double free" \notin g_smlc.fault

\* smlc_loc_req.c:69-70 logs "Perform Location Request failed in state NULL" for
\* a message on a connection that has no request: such a message is survived.
RequestlessIsSurvived == "null request" \notin g_smlc.fault
============================================================================
