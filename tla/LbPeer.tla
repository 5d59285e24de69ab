------------------------------- MODULE LbPeer -------------------------------
(***************************************************************************)
(* lb_peer.c: a BSC on the Lb interface and the RESET procedure with it.    *)
(* Connections are served in READY only; before, the peer waits for a RESET *)
(* or, having sent one itself, for the RESET ACKNOWLEDGE (timer T-13).      *)
(***************************************************************************)
EXTENDS SmlcLocReq, FiniteSetsExt, SequencesExt

\* lb_peer_find_or_create(): an FSM instance starts in state 0.
lb_peer_find_or_create(h, p) ==
    IF h.lb_peers[p] = NULL THEN [h EXCEPT !.lb_peers[p] = "WAIT_RX_RESET"] ELSE h

lb_peer_state_chg(h, p, state) == [h EXCEPT !.lb_peers[p] = state]

ConnsOf(h, p) == {c \in lb_conns(h) : h.conn[c].lb_peer = p}

\* What is left of a subscriber when the connections in gone let it go.
SubscrWithout(h, s, gone) ==
    LET users == Cardinality({c \in gone : h.conn[c].smlc_subscr = s})
        use == [h.subscr[s] EXCEPT !["Lb-conn"] = @ - users]
    IN  IF users = 0 THEN h.subscr[s]
        ELSE IF SubscrTotal(use) = 0 THEN NULL ELSE use

\* Faulty variant of lb_peer_discard_all_conns(): the connections of all peers.
DiscardEveryConn(h, p) ==
    [h EXCEPT !.conn = [c \in ConnIds |-> NULL], !.ahead = {}, !.subscr = [s \in Imsis |-> NULL]]

\* lb_peer_discard_all_conns(): the effect of lb_conn_discard() on all of the
\* peer's connections.  DiscardAllIsTheLoop states that this is the effect of
\* the loop in the code.
lb_peer_discard_all_conns(h, p) ==
    LET gone == ConnsOf(h, p)
    IN  [h EXCEPT !.conn = [c \in ConnIds |-> IF c \in gone THEN NULL ELSE @[c]],
                  !.ahead = {e \in @ : e[1] \notin gone /\ e[2] \notin gone},
                  !.subscr = [s \in Imsis |-> SubscrWithout(h, s, gone)]]

\* The loop itself, over the connections in any order.
DiscardLoop(h, p) == FoldSet(LAMBDA c, rest : lb_conn_discard(rest, c), h, ConnsOf(h, p))

Tx(h, p, type) == [h EXCEPT !.unitdata = @ \cup {[to |-> p, type |-> type]}]

\* Faulty variant of lb_peer_rx_reset(): discards the connections only when the
\* RESET ACKNOWLEDGE is sent.
DiscardsIfSent(h, p, failing) ==
    IF failing \cap {"enc_cl", "send_cl"} # {} THEN lb_peer_state_chg(h, p, "WAIT_RX_RESET")
    ELSE lb_peer_state_chg(Tx(lb_peer_discard_all_conns(h, p), p, "RESET_ACK"), p, "READY")

\* Faulty variants of lb_peer_rx_reset(): an answer of the wrong type, and none.
ResetMisanswered(h, p, failing) ==
    lb_peer_state_chg(Tx(lb_peer_discard_all_conns(h, p), p, "unsupported"), p, "READY")

ResetUnanswered(h, p, failing) == lb_peer_state_chg(lb_peer_discard_all_conns(h, p), p, "READY")

\* lb_peer_rx_reset().  If SCCP does not take the RESET ACKNOWLEDGE, the
\* message that is freed is the received one, which sccp_lb_sap_up() frees too.
lb_peer_rx_reset(h, p, failing) ==
    LET discarded == lb_peer_discard_all_conns(h, p)
        waiting == lb_peer_state_chg(discarded, p, "WAIT_RX_RESET")
    IN  IF "enc_cl" \in failing THEN waiting
        ELSE IF "send_cl" \in failing THEN Fault(waiting, "double free")
        ELSE lb_peer_state_chg(Tx(discarded, p, "RESET_ACK"), p, "READY")

\* lb_peer_reset(); the change to WAIT_RX_RESET_ACK starts timer T-13.
lb_peer_reset(h, p, failing) ==
    LET discarded == lb_peer_discard_all_conns(lb_peer_state_chg(h, p, "WAIT_RX_RESET_ACK"), p)
    IN  IF failing \cap {"enc_cl", "send_cl"} # {}
        THEN lb_peer_state_chg(discarded, p, "WAIT_RX_RESET")
        ELSE Tx(discarded, p, "RESET")

\* lb_peer_disconnect(): drops the connection object with this id, if any.
lb_peer_disconnect(h, c) == IF c \in lb_conns(h) THEN lb_conn_discard(h, c) ELSE h

\* sccp_lb_disconnect(): releases the SCCP connection, if it is open.
sccp_lb_disconnect(h, c) == [h EXCEPT !.sccp[c] = NULL]

\* Faulty variant of lb_peer_st_wait_rx_reset(): the peer is left to notice.
WaitsForReset(h, p, c, failing) == lb_peer_disconnect(h, c)

\* LB_PEER_EV_MSG_UP_CO and LB_PEER_EV_MSG_UP_CO_INITIAL, in each state.
lb_peer_st_wait_rx_reset(h, p, c, failing) == lb_peer_reset(lb_peer_disconnect(h, c), p, failing)

lb_peer_st_wait_rx_reset_ack(h, p, c, failing) == lb_peer_reset(sccp_lb_disconnect(h, c), p, failing)

lb_peer_st_ready(h, p, c, initial, msg, failing) ==
    LET token == "lb_peer_st_ready"
    IN  IF initial
        THEN LET received == smlc_loc_req_rx_bssap_le(lb_conn_alloc(h, p, c, token), c, msg, failing)
             IN  IF received.fault # {} THEN received ELSE lb_conn_put(received, c, token)
        ELSE smlc_loc_req_rx_bssap_le(h, c, msg, failing)

\* A connection-oriented message, initial or not, dispatched to the lb_peer.
DispatchCo(h, p, c, initial, msg, failing) ==
    CASE h.lb_peers[p] = "WAIT_RX_RESET" -> lb_peer_st_wait_rx_reset(h, p, c, failing)
      [] h.lb_peers[p] = "WAIT_RX_RESET_ACK" -> lb_peer_st_wait_rx_reset_ack(h, p, c, failing)
      [] h.lb_peers[p] = "READY" -> lb_peer_st_ready(h, p, c, initial, msg, failing)

\* Faulty variant of UpCoInitial: the refused connection stays open.
RefusedStaysOpen(h, p, c, msg, failing) ==
    IF c \in lb_conns(h) THEN h
    ELSE DispatchCo(lb_peer_find_or_create(h, p), p, c, TRUE, msg, failing)

\* lb_peer_up_l2() with a calling address.  A connection id that is still that
\* of an lb_conn is refused, which makes sccp_lb_sap_up() disconnect.
UpCoInitial(h, p, c, msg, failing) ==
    IF c \in lb_conns(h) THEN sccp_lb_disconnect(h, c)
    ELSE DispatchCo(lb_peer_find_or_create(h, p), p, c, TRUE, msg, failing)

\* lb_peer_up_l2() without: a message for an unknown connection id is dropped.
UpCo(h, c, msg, failing) ==
    IF c \notin lb_conns(h) THEN h
    ELSE DispatchCo(h, h.conn[c].lb_peer, c, FALSE, msg, failing)

\* Faulty variant of UpCl: the acknowledgement is in no event mask.
AckMasked(h, p, type, failing) ==
    LET known == lb_peer_find_or_create(h, p)
    IN  IF type = "RESET" THEN lb_peer_rx_reset(known, p, failing) ELSE known

\* lb_peer_allstate_action() for LB_PEER_EV_MSG_UP_CL; a RESET ACKNOWLEDGE is in
\* the event mask of WAIT_RX_RESET_ACK only.
UpCl(h, p, type, failing) ==
    LET known == lb_peer_find_or_create(h, p)
    IN  CASE type = "RESET" -> lb_peer_rx_reset(known, p, failing)
          [] type = "RESET_ACK" ->
               IF known.lb_peers[p] = "WAIT_RX_RESET_ACK" THEN lb_peer_state_chg(known, p, "READY")
               ELSE known
          [] type = "unsupported" -> known
============================================================================
