----------------------------- MODULE SmlcLocReq -----------------------------
(***************************************************************************)
(* smlc_loc_req.c: one location request of a BSC, from the Perform Location *)
(* Request to the response.  A state change runs the next state's onenter   *)
(* function within the same handler, which is why the operators for the     *)
(* states are stated in reverse order.                                      *)
(***************************************************************************)
EXTENDS LbConn

\* Messages from the BSC on a connection.  "unsupported" stands for whatever
\* ends in an error return before anything is changed: a message that cannot be
\* decoded, another BSSAP-LE discriminator, BSSMAP-LE or BSSLAP message type.
PerformLocReq == [type : {"perform_loc_req"}, imsi : Imsis \cup {NULL}, cell_id : RequestCells,
                  ta_layer3 : BOOLEAN]
TaReport == [type : {"ta_response", "bsslap_reset"}, ci : Cis]
PlainMessage == [type : {"bsslap_abort", "bsslap_reject", "perform_loc_abort", "unsupported"}]
Message == PerformLocReq \cup TaReport \cup PlainMessage

\* out_state_mask of smlc_loc_req_fsm_states.
OutStates == [INIT |-> {"WAIT_TA", "FAILED"},
              WAIT_TA |-> {"GOT_TA", "FAILED"},
              GOT_TA |-> {"FAILED"},
              FAILED |-> {}]

\* osmo_fsm_inst_state_chg(): a change that the mask does not allow is refused.
MayEnter(h, c, state) == state \in OutStates[h.conn[c].smlc_loc_req.state]
InState(h, c, state) == [h EXCEPT !.conn[c].smlc_loc_req.state = state]

\* Faulty variant of smlc_loc_req_fsm_cleanup(): the use count is not returned.
CleanupKeepsConn(h, c) == [h EXCEPT !.conn[c].smlc_loc_req = NULL]

\* smlc_loc_req_fsm_cleanup(), on osmo_fsm_inst_term(): the connection loses its
\* request and the use count that the request held.
smlc_loc_req_fsm_cleanup(h, c) ==
    lb_conn_put([h EXCEPT !.conn[c].smlc_loc_req = NULL], c, "smlc_loc_req")

\* Faulty variant of smlc_loc_req_failed_onenter(): does not terminate.
FailedStays(h, c, cause, failing) == lb_conn_send_bssmap_le(h, c, Failure(cause), failing)

\* smlc_loc_req_failed_onenter(): terminates whether the response can be sent or not.
smlc_loc_req_failed_onenter(h, c, cause, failing) ==
    smlc_loc_req_fsm_cleanup(lb_conn_send_bssmap_le(h, c, Failure(cause), failing), c)

\* Faulty variant of smlc_loc_req_fail(): ends the request without a response.
FailsSilently(h, c, cause, failing) ==
    IF MayEnter(h, c, "FAILED") THEN smlc_loc_req_fsm_cleanup(h, c) ELSE h

\* smlc_loc_req_fail().
smlc_loc_req_fail(h, c, cause, failing) ==
    IF MayEnter(h, c, "FAILED")
    THEN smlc_loc_req_failed_onenter(InState(h, c, "FAILED"), c, cause, failing)
    ELSE h

\* smlc_loc_req_got_ta_onenter(): answers with the configured position of the
\* cell, or fails for want of one.
smlc_loc_req_got_ta_onenter(h, c, failing) ==
    LET loc_req == h.conn[c].smlc_loc_req
        lat_lon == Cells!cell_location_from_ta(cell_locations, loc_req.latest_cell_id)
        response == Location(lat_lon)
    IN  IF ~loc_req.ta_present THEN smlc_loc_req_fail(h, c, "SYSTEM_FAILURE", failing)
        ELSE IF lat_lon = NoPart \/ "gad" \in failing
             THEN smlc_loc_req_fail(h, c, "FACILITY_NOTSUPP", failing)
        ELSE IF ~SendSucceeds(h, c, response, failing)
             THEN smlc_loc_req_fail(h, c, "SYSTEM_FAILURE", failing)
        ELSE smlc_loc_req_fsm_cleanup(lb_conn_send_bssmap_le(h, c, response, failing), c)

EnterGotTa(h, c, failing) ==
    IF MayEnter(h, c, "GOT_TA")
    THEN smlc_loc_req_got_ta_onenter(InState(h, c, "GOT_TA"), c, failing)
    ELSE h

\* smlc_loc_req_wait_ta_onenter(): the request may hold the timing advance
\* already, otherwise the BSC is asked for it.
smlc_loc_req_wait_ta_onenter(h, c, ta_layer3, failing) ==
    IF ta_layer3
    THEN EnterGotTa([h EXCEPT !.conn[c].smlc_loc_req.ta_present = TRUE], c, failing)
    ELSE lb_conn_send_bssmap_le(h, c, TaRequest, failing)

\* Faulty variant of update_ci(): the identity is not written back.
CiNotWrittenBack(cell_id, ci) == cell_id

\* update_ci(): overwrites the CI, in an identity that has one.
update_ci(cell_id, ci) == IF cell_id.ci = NoPart THEN cell_id ELSE [cell_id EXCEPT !.ci = ci]

\* smlc_loc_req_wait_ta_action() for a BSSLAP TA Response and for a BSSLAP Reset,
\* the report of a handover within the BSC.
RxTaReport(h, c, ci, failing) ==
    EnterGotTa([h EXCEPT !.conn[c].smlc_loc_req.ta_present = TRUE,
                         !.conn[c].smlc_loc_req.latest_cell_id = update_ci(@, ci)],
               c, failing)

\* The subscriber that the connection is for (smlc_loc_req.c:109-145).  The
\* other connection is looked up with the subscriber that this connection has
\* so far, which is NULL here.
SetSubscriber(h, c, imsi) ==
    LET token == "smlc_loc_req_start"
        h1 == smlc_subscr_find_or_create(h, imsi, token)
        other == FirstConnOf(h1, h1.conn[c].smlc_subscr)
        h2 == IF other = NULL THEN h1 ELSE lb_conn_get(h1, other, token)
        h3 == smlc_subscr_get([h2 EXCEPT !.conn[c].smlc_subscr = imsi], imsi, "Lb-conn")
        h4 == IF other \in {NULL, c} THEN h3 ELSE lb_conn_close(h3, other)
        h5 == smlc_subscr_put(h4, imsi, token)
    IN  IF other = NULL THEN h5 ELSE lb_conn_put(h5, other, token)

\* smlc_loc_req_alloc(), the use count on the connection, and the change to
\* WAIT_TA that starts timer T-12.
StartLocReq(h, c, pdu, failing) ==
    LET loc_req == [state |-> "INIT", latest_cell_id |-> pdu.cell_id, ta_present |-> FALSE]
        started == lb_conn_get([h EXCEPT !.conn[c].smlc_loc_req = loc_req], c, "smlc_loc_req")
    IN  smlc_loc_req_wait_ta_onenter(InState(started, c, "WAIT_TA"), c, pdu.ta_layer3, failing)

\* smlc_loc_req_start().
smlc_loc_req_start(h, c, pdu, failing) ==
    LET conn == h.conn[c]
        token == "smlc_loc_req_start"
    IN  IF conn.smlc_loc_req # NULL THEN h
        ELSE IF pdu.imsi \in {NULL, conn.smlc_subscr} THEN StartLocReq(h, c, pdu, failing)
        ELSE IF conn.smlc_subscr # NULL
             THEN smlc_subscr_put(smlc_subscr_find_or_create(h, pdu.imsi, token), pdu.imsi, token)
        ELSE StartLocReq(SetSubscriber(h, c, pdu.imsi), c, pdu, failing)

\* smlc_loc_req_rx_bssap_le() with handle_bssmap_le_conn_oriented_info().  All
\* messages but the Perform Location Request are for the connection's request
\* and dereference it; the FSM takes events in WAIT_TA only.
smlc_loc_req_rx_bssap_le(h, c, msg, failing) ==
    LET loc_req == h.conn[c].smlc_loc_req
        waiting == loc_req.state = "WAIT_TA"
    IN  CASE msg.type = "unsupported" -> h
          [] msg.type = "perform_loc_req" -> smlc_loc_req_start(h, c, msg, failing)
          [] msg.type \notin {"unsupported", "perform_loc_req"} /\ loc_req = NULL ->
               Fault(h, "null request")
          [] msg.type \in {"ta_response", "bsslap_reset"} /\ loc_req # NULL ->
               IF waiting THEN RxTaReport(h, c, msg.ci, failing) ELSE h
          [] msg.type = "perform_loc_abort" /\ loc_req # NULL ->
               IF waiting THEN smlc_loc_req_fsm_cleanup(h, c) ELSE h
          [] msg.type \in {"bsslap_abort", "bsslap_reject"} /\ loc_req # NULL ->
               smlc_loc_req_fail(h, c, "REQUEST_ABORTED", failing)

\* Faulty variant of smlc_loc_req_fsm_timer_cb(): the expiry is only logged.
TimerOnlyLogs(h, c, failing) == h

\* smlc_loc_req_fsm_timer_cb(), for T-12.
smlc_loc_req_fsm_timer_cb(h, c, failing) == smlc_loc_req_fail(h, c, "SYSTEM_FAILURE", failing)
============================================================================
