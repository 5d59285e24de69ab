------------------------------- MODULE LbConn -------------------------------
(***************************************************************************)
(* lb_conn.c: a location service exchange with a BSC on one SCCP           *)
(* connection.  An lb_conn lives while its use count is above zero, in the  *)
(* list sli->lb_conns, the newest first.                                    *)
(***************************************************************************)
EXTENDS SmlcSubscr

ConnTotal(use) == use["lb_peer_st_ready"] + use["smlc_loc_req"] + use["smlc_loc_req_start"]

\* Faulty variant of lb_conn_alloc(): llist_add_tail() for llist_add().
AllocAtTail(h, p, c, token) ==
    [h EXCEPT !.conn[c] = [lb_peer |-> p,
                           closing |-> FALSE,
                           use_count |-> [t \in ConnTokens |-> IF t = token THEN 1 ELSE 0],
                           smlc_subscr |-> NULL,
                           smlc_loc_req |-> NULL],
              !.ahead = @ \cup (lb_conns(h) \X {c})]

\* lb_conn_alloc(), with the use count that the caller takes; llist_add() puts
\* the new connection ahead of all others.
lb_conn_alloc(h, p, c, token) ==
    [h EXCEPT !.conn[c] = [lb_peer |-> p,
                           closing |-> FALSE,
                           use_count |-> [t \in ConnTokens |-> IF t = token THEN 1 ELSE 0],
                           smlc_subscr |-> NULL,
                           smlc_loc_req |-> NULL],
              !.ahead = @ \cup ({c} \X lb_conns(h))]

lb_conn_get(h, c, token) ==
    IF h.conn[c] = NULL THEN Fault(h, "use after free")
    ELSE [h EXCEPT !.conn[c].use_count[token] = @ + 1]

\* osmo_fsm_inst_term() of the request of a connection that is closing: its
\* cleanup function drops the request's use count, and the lb_conn_close()
\* that the last use would call returns at once.
TermWhileClosing(h, c) ==
    LET use == [h.conn[c].use_count EXCEPT !["smlc_loc_req"] = @ - 1]
    IN  IF use["smlc_loc_req"] < 0 THEN Fault(h, "use count below zero")
        ELSE [h EXCEPT !.conn[c].smlc_loc_req = NULL, !.conn[c].use_count = use]

\* llist_del() and talloc_free().
FreeConn(h, c) ==
    [h EXCEPT !.conn[c] = NULL,
              !.ahead = {e \in @ : c \notin {e[1], e[2]}}]

\* Faulty variants of lb_conn_close(): the subscriber is kept in use, or the SCCP
\* connection is left open.
CloseKeepsSubscr(h, c) ==
    IF h.conn[c] = NULL THEN Fault(h, "use after free")
    ELSE FreeConn([h EXCEPT !.sccp[c] = IF h.conn[c].lb_peer = NULL THEN @ ELSE NULL], c)

CloseKeepsSccp(h, c) ==
    IF h.conn[c] = NULL THEN Fault(h, "use after free")
    ELSE FreeConn(IF h.conn[c].smlc_subscr = NULL THEN h
                  ELSE smlc_subscr_put(h, h.conn[c].smlc_subscr, "Lb-conn"), c)

\* lb_conn_close(): releases the SCCP connection unless there is no lb_peer any
\* more, ends the request, lets the subscriber go and frees the connection
\* whatever its use count.
lb_conn_close(h, c) ==
    IF h.conn[c] = NULL THEN Fault(h, "use after free")
    ELSE IF h.conn[c].closing THEN h
    ELSE LET conn == h.conn[c]
             released == [h EXCEPT !.conn[c].closing = TRUE,
                                   !.conn[c].lb_peer = NULL,
                                   !.sccp[c] = IF conn.lb_peer = NULL THEN @ ELSE NULL]
             ended == IF conn.smlc_loc_req = NULL THEN released ELSE TermWhileClosing(released, c)
             left == IF conn.smlc_subscr = NULL THEN ended
                     ELSE smlc_subscr_put(ended, conn.smlc_subscr, "Lb-conn")
         IN  FreeConn(left, c)

\* Faulty variant of lb_conn_discard(): the lb_peer is not taken away before.
DiscardReleases(h, c) == lb_conn_close(h, c)

\* lb_conn_discard(): without the lb_peer, lb_conn_close() sends nothing.
lb_conn_discard(h, c) == lb_conn_close([h EXCEPT !.conn[c].lb_peer = NULL], c)

\* lb_conn_put() with lb_conn_use_cb().
lb_conn_put(h, c, token) ==
    IF h.conn[c] = NULL THEN Fault(h, "use after free")
    ELSE LET put == [h EXCEPT !.conn[c].use_count[token] = @ - 1]
         IN  IF put.conn[c].use_count[token] < 0 THEN Fault(h, "use count below zero")
             ELSE IF ConnTotal(put.conn[c].use_count) = 0 THEN lb_conn_close(put, c)
             ELSE put

\* lb_conn_find_by_smlc_subscr(), without the lb_conn_get() on the result: the
\* first connection in the list that has this subscriber, or none.
FirstConnOf(h, smlc_subscr) ==
    LET found == {c \in lb_conns(h) : h.conn[c].smlc_subscr = smlc_subscr}
    IN  IF found = {} THEN NULL
        ELSE CHOOSE c \in found : \A d \in found \ {c} : <<c, d>> \in h.ahead

----------------------------------------------------------------------------
(* Sending to the BSC.                                                     *)

Encoding(pdu) == CASE pdu.type = "ta_request" -> "enc_ta_request"
                   [] pdu.type = "location" -> "enc_location"
                   [] pdu.type = "cause" -> "enc_cause"

\* lb_conn_send_bssmap_le() returns zero when the message can be encoded, the
\* connection has its lb_peer and the lb_peer takes LB_PEER_EV_MSG_DOWN_CO,
\* which it does in READY; it learns nothing of what SCCP makes of it.
SendSucceeds(h, c, pdu, failing) ==
    /\ Encoding(pdu) \notin failing
    /\ h.conn[c].lb_peer # NULL
    /\ h.lb_peers[h.conn[c].lb_peer] = "READY"

\* The message reaches the BSC if the SCCP connection is still open.
lb_conn_send_bssmap_le(h, c, pdu, failing) ==
    IF SendSucceeds(h, c, pdu, failing) /\ "send_co" \notin failing /\ h.sccp[c] # NULL
    THEN [h EXCEPT !.sent[c] = Append(@, pdu)]
    ELSE h
============================================================================
