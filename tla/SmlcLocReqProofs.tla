-------------------------- MODULE SmlcLocReqProofs --------------------------
(***************************************************************************)
(* What a handler of smlc_loc_req.c makes of a heap that is in order: the   *)
(* request of the connection still waits for the timing advance, or it has  *)
(* ended and returned its use count.                                        *)
(***************************************************************************)
EXTENDS SmlcLocReq, LbConnProofs

CP == INSTANCE CellLocationsProofs

\* What has been sent on a connection: no response, or one response at the end.
Responses == {pdu \in Pdu : IsResponse(pdu)}
Asked == {<<>>, Append(<<>>, TaRequest)}
Open(h, c) == h.sent[c] \in Asked
Done(h, c) == \E asked \in Asked, r \in Responses : h.sent[c] = Append(asked, r)

\* Connection c has a request in this state, and n uses besides the request's.
Held(h, c, n, state) ==
    /\ h.conn[c] # NULL
    /\ h.conn[c].smlc_loc_req # NULL
    /\ h.conn[c].smlc_loc_req.state = state
    /\ h.conn[c].use_count = ConnUse(n, 1)

\* The request of connection c has ended; without another use the connection has too.
Ended(h, c, n) ==
    IF n = 0 THEN h.conn[c] = NULL /\ h.sccp[c] = NULL
    ELSE /\ h.conn[c] # NULL
         /\ h.conn[c].smlc_loc_req = NULL
         /\ h.conn[c].use_count = ConnUse(1, 0)

\* The request still waits, for subscriber s.
Waiting(h, h2, c, n, s) ==
    /\ Core(h2)
    /\ OnlyConn(h, h2, c)
    /\ Held(h2, c, n, "WAIT_TA") /\ Open(h2, c) /\ h2.sccp = h.sccp
    /\ h2.conn[c].smlc_subscr = s

\* The request has ended with a response, to a BSC that listens and with the
\* position of this cell if any.
ResponsesFor(cell_id) ==
    {Failure(cause) : cause \in LcsCauses}
      \cup {Location(x) : x \in {Cells!cell_location_from_ta(cell_locations, cell_id)} \cap Positions}

Answering(h, h2, c, n, cell_id) ==
    /\ Core(h2)
    /\ OnlyConn(h, h2, c)
    /\ Ended(h2, c, n)
    /\ h.sccp[c] # NULL
    /\ \E r \in ResponsesFor(cell_id) : h2.sent[c] = Append(h.sent[c], r)

\* The request has ended, or not begun, without a word.
Silent(h, h2, c, n) ==
    /\ Core(h2)
    /\ OnlyConn(h, h2, c)
    /\ Ended(h2, c, n)
    /\ h2.sent[c] = h.sent[c]

\* Nothing that is sent can reach the BSC.
Mute(h, c, failing) == h.sccp[c] = NULL \/ failing \cap {"enc_cause", "send_co"} # {}

\* The request has ended, silently only if there is no other way.
Ending(h, h2, c, n, failing, cell_id) ==
    \/ Answering(h, h2, c, n, cell_id)
    \/ Silent(h, h2, c, n) /\ Mute(h, c, failing)

\* What a handler for connection c makes of h.
Outcome(h, h2, c, n) ==
    /\ Core(h2)
    /\ OnlyConn(h, h2, c)
    /\ \/ Held(h2, c, n, "WAIT_TA") /\ Open(h2, c) /\ h2.sccp = h.sccp
       \/ Ended(h2, c, n) /\ (Open(h2, c) \/ Done(h2, c))

----------------------------------------------------------------------------

\* What may be sent.
LEMMA PduTypes ==
  /\ TaRequest \in Pdu
  /\ \A x \in Positions : Location(x) \in Responses
  /\ \A x \in LcsCauses : Failure(x) \in Responses
  BY DEF Pdu, TaRequest, Location, Failure, Responses, IsResponse

\* A connection whose request changes.
LEMMA RequestChange ==
  ASSUME NEW h, NEW c \in ConnIds, Core(h), h.conn[c] # NULL, NEW r \in LocReq \cup {NULL}
  PROVE  LET h2 == [h EXCEPT !.conn[c].smlc_loc_req = r]
         IN  /\ Core(h2)
             /\ OnlyConn(h, h2, c)
             /\ h2.conn[c] # NULL
             /\ h2.conn[c].smlc_loc_req = r
             /\ h2.conn[c].use_count = h.conn[c].use_count
             /\ h2.conn[c].smlc_subscr = h.conn[c].smlc_subscr
             /\ h2.sccp = h.sccp /\ h2.sent = h.sent
<1> DEFINE x == [h.conn[c] EXCEPT !.smlc_loc_req = r]
<1>1. h \in Heap /\ h.conn[c] \in Conn /\ ~h.conn[c].closing
  BY ConnFields DEF Core, Attached
<1>2. /\ x \in Conn /\ x.closing = h.conn[c].closing /\ x.lb_peer = h.conn[c].lb_peer
      /\ x.smlc_subscr = h.conn[c].smlc_subscr
      /\ x.smlc_loc_req = r /\ x.use_count = h.conn[c].use_count
  BY <1>1 DEF Conn
<1>3. x # NULL
  BY <1>2, DataAssumption
<1>4. [h EXCEPT !.conn[c].smlc_loc_req = r] = [h EXCEPT !.conn[c] = x]
  BY <1>1 DEF Heap
<1> HIDE DEF x
<1>5. LET h2 == [h EXCEPT !.conn[c] = x]
      IN  /\ Core(h2)
          /\ OnlyConn(h, h2, c)
          /\ h2.conn[c] = x
          /\ h2.sccp = h.sccp /\ h2.sent = h.sent
  BY <1>1, <1>2, ConnChange
<1> QED
  BY <1>2, <1>3, <1>4, <1>5

\* Sending changes nothing but what the BSC sees.
LEMMA SendEffect ==
  ASSUME NEW h, NEW c \in ConnIds, Core(h), NEW pdu \in Pdu, NEW failing
  PROVE  LET h2 == lb_conn_send_bssmap_le(h, c, pdu, failing)
         IN  /\ Core(h2)
             /\ OnlyConn(h, h2, c)
             /\ h2.conn = h.conn /\ h2.sccp = h.sccp
             /\ h2.sent[c] \in {h.sent[c], Append(h.sent[c], pdu)}
<1> DEFINE h2 == lb_conn_send_bssmap_le(h, c, pdu, failing)
           sent == [h.sent EXCEPT ![c] = Append(@, pdu)]
<1>1. h \in Heap
  BY DEF Core
<1>2. CASE h2 = h
  BY <1>1, <1>2 DEF OnlyConn
<1>3. CASE h2 = [h EXCEPT !.sent[c] = Append(@, pdu)]
  <2>1. h2 = [h EXCEPT !.sent = sent]
    BY <1>1, <1>3 DEF Heap
  <2>2. sent \in [ConnIds -> Seq(Pdu)] /\ sent[c] = Append(h.sent[c], pdu)
          /\ \A d \in ConnIds \ {c} : sent[d] = h.sent[d]
    BY <1>1, HeapFields
  <2> HIDE DEF sent, h2
  <2>3. /\ h2 \in Heap
        /\ h2.conn = h.conn /\ h2.sccp = h.sccp /\ h2.lb_peers = h.lb_peers /\ h2.subscr = h.subscr
        /\ h2.ahead = h.ahead /\ h2.unitdata = h.unitdata /\ h2.fault = h.fault /\ h2.sent = sent
    BY <1>1, <2>1, <2>2 DEF Heap
  <2>4. Core(h2)
    BY <2>3 DEF Core, SubscrExact, Users, ListExact, lb_conns, Attached
  <2>5. OnlyConn(h, h2, c) /\ h2.sent[c] \in {h.sent[c], Append(h.sent[c], pdu)}
    BY <2>2, <2>3 DEF OnlyConn
  <2> QED
    BY <2>3, <2>4, <2>5 DEF h2
<1> QED
  BY <1>2, <1>3 DEF lb_conn_send_bssmap_le

\* A message reaches the BSC unless it cannot be encoded or sent, or the SCCP
\* connection is gone.
LEMMA SendReaches ==
  ASSUME NEW h, NEW c \in ConnIds, Core(h), h.conn[c] # NULL, NEW pdu \in Pdu, NEW failing
  PROVE  LET h2 == lb_conn_send_bssmap_le(h, c, pdu, failing)
         IN  \/ /\ h2.sent[c] = Append(h.sent[c], pdu)
                /\ h.sccp[c] # NULL
             \/ /\ h2.sent[c] = h.sent[c]
                /\ Encoding(pdu) \in failing \/ "send_co" \in failing \/ h.sccp[c] = NULL
<1>1. Attached(h, c) /\ NULL \notin Peers /\ h \in Heap
  BY DataAssumption DEF Core
<1>2. CASE SendSucceeds(h, c, pdu, failing) /\ "send_co" \notin failing /\ h.sccp[c] # NULL
  <2>1. [h EXCEPT !.sent[c] = Append(@, pdu)].sent[c] = Append(h.sent[c], pdu)
    BY <1>1, HeapFields DEF Heap
  <2> QED
    BY <1>2, <2>1 DEF lb_conn_send_bssmap_le
<1>3. CASE ~(SendSucceeds(h, c, pdu, failing) /\ "send_co" \notin failing /\ h.sccp[c] # NULL)
  BY <1>1, <1>3 DEF lb_conn_send_bssmap_le, SendSucceeds, Attached
<1> QED
  BY <1>2, <1>3

\* A handler that goes on from a heap in which nothing has been sent or released
\* since h.
LEMMA EndingAfter ==
  ASSUME NEW h, NEW g, NEW h2, NEW c \in ConnIds, NEW n, NEW failing, NEW cell_id,
         OnlyConn(h, g, c), g.sccp = h.sccp, g.sent = h.sent, Ending(g, h2, c, n, failing, cell_id)
  PROVE  Ending(h, h2, c, n, failing, cell_id)
<1>1. OnlyConn(g, h2, c)
  BY DEF Ending, Answering, Silent
<1>2. OnlyConn(h, h2, c)
  BY <1>1 DEF OnlyConn
<1> QED
  BY <1>2 DEF Ending, Answering, Silent, Mute

\* The end of the request returns its use count.
LEMMA CleanupOutcome ==
  ASSUME NEW h, NEW c \in ConnIds, Core(h), NEW n \in {0, 1}, NEW state, Held(h, c, n, state)
  PROVE  LET h2 == smlc_loc_req_fsm_cleanup(h, c)
         IN  /\ Core(h2)
             /\ OnlyConn(h, h2, c)
             /\ Ended(h2, c, n)
             /\ h2.sent = h.sent
<1> DEFINE g == [h EXCEPT !.conn[c].smlc_loc_req = NULL]
           put == WithUse(g, c, ConnUse(n, 0))
           h2 == lb_conn_put(g, c, "smlc_loc_req")
<1>1. /\ Core(g) /\ OnlyConn(h, g, c)
      /\ g.conn[c] # NULL
      /\ g.conn[c].smlc_loc_req = NULL
      /\ g.conn[c].use_count = ConnUse(n, 1)
      /\ g.sent = h.sent
  BY RequestChange DEF Held
<1> HIDE DEF g
<1>2. h2 = IF n + (1 - 1) = 0 THEN lb_conn_close(put, c) ELSE put
  <2>1. 1 > 0 => h2 = LET p == WithUse(g, c, ConnUse(n, 1 - 1))
                      IN  IF n + (1 - 1) = 0 THEN lb_conn_close(p, c) ELSE p
    BY <1>1, PutEffect
  <2>2. 1 - 1 = 0
    OBVIOUS
  <2> QED
    BY <2>1, <2>2
<1>3. ConnUse(n, 0) \in [ConnTokens -> Int]
  <2>1. n \in Int /\ 0 \in Int
    OBVIOUS
  <2> QED
    BY <2>1, ConnUseValue, Zenon
<1>4. /\ Core(put) /\ OnlyConn(g, put, c)
      /\ put.conn[c] = [g.conn[c] EXCEPT !.use_count = ConnUse(n, 0)]
      /\ put.conn[c] # NULL
      /\ put.sent = g.sent
  BY <1>1, <1>3, UseChange
<1>5. put.conn[c].smlc_loc_req = NULL /\ put.conn[c].use_count = ConnUse(n, 0)
  BY <1>1, <1>4, ConnFields DEF Core, Conn
<1> HIDE DEF put, h2
<1>6. n = 0 => Core(h2) /\ OnlyConn(h, h2, c) /\ Ended(h2, c, n) /\ h2.sent = h.sent
  <2> SUFFICES ASSUME n = 0
               PROVE  Core(h2) /\ OnlyConn(h, h2, c) /\ Ended(h2, c, n) /\ h2.sent = h.sent
    OBVIOUS
  <2>1. h2 = lb_conn_close(put, c)
    BY <1>2
  <2>2. /\ Core(h2) /\ OnlyConn(put, h2, c)
        /\ h2.conn[c] = NULL /\ h2.sccp[c] = NULL /\ h2.sent = put.sent
    BY <1>4, <1>5, <2>1, CloseKeepsCore
  <2> QED
    BY <1>1, <1>4, <2>2 DEF OnlyConn, Ended
<1>7. n = 1 => Core(h2) /\ OnlyConn(h, h2, c) /\ Ended(h2, c, n) /\ h2.sent = h.sent
  <2> SUFFICES ASSUME n = 1
               PROVE  Core(h2) /\ OnlyConn(h, h2, c) /\ Ended(h2, c, n) /\ h2.sent = h.sent
    OBVIOUS
  <2>1. h2 = put
    BY <1>2
  <2> QED
    <3>1. Ended(put, c, n)
      BY <1>4, <1>5 DEF Ended
    <3>2. OnlyConn(h, put, c)
      BY <1>1, <1>4 DEF OnlyConn
    <3> QED
      BY <1>1, <1>4, <2>1, <3>1, <3>2
<1>8. Core(h2) /\ OnlyConn(h, h2, c) /\ Ended(h2, c, n) /\ h2.sent = h.sent
  <2>1. n = 0 \/ n = 1
    OBVIOUS
  <2> QED
    BY <1>6, <1>7, <2>1
<1> QED
  BY <1>8 DEF smlc_loc_req_fsm_cleanup, h2, g

\* A state change of the request.
LEMMA InStateEffect ==
  ASSUME NEW h, NEW c \in ConnIds, Core(h), NEW n, NEW old, Held(h, c, n, old), NEW state \in LocReqStates
  PROVE  LET h2 == InState(h, c, state)
         IN  /\ Core(h2)
             /\ OnlyConn(h, h2, c)
             /\ Held(h2, c, n, state)
             /\ h2.conn[c].smlc_loc_req = [h.conn[c].smlc_loc_req EXCEPT !.state = state]
             /\ h2.conn[c].smlc_subscr = h.conn[c].smlc_subscr
             /\ h2.sccp = h.sccp /\ h2.sent = h.sent
<1> DEFINE r == [h.conn[c].smlc_loc_req EXCEPT !.state = state]
<1>1. h \in Heap /\ h.conn[c] \in Conn /\ h.conn[c].smlc_loc_req \in LocReq
  BY ConnFields DEF Core, Held
<1>2. r \in LocReq /\ r.state = state
  BY <1>1 DEF LocReq
<1>3. InState(h, c, state) = [h EXCEPT !.conn[c].smlc_loc_req = r]
  BY <1>1 DEF InState, Heap, Conn
<1>4. r # NULL
  BY <1>2, DataAssumption
<1> HIDE DEF r
<1>5. LET h2 == [h EXCEPT !.conn[c].smlc_loc_req = r]
      IN  /\ Core(h2)
          /\ OnlyConn(h, h2, c)
          /\ h2.conn[c] # NULL
          /\ h2.conn[c].smlc_loc_req = r
          /\ h2.conn[c].use_count = h.conn[c].use_count
          /\ h2.conn[c].smlc_subscr = h.conn[c].smlc_subscr
          /\ h2.sccp = h.sccp /\ h2.sent = h.sent
  BY <1>1, <1>2, RequestChange DEF Held
<1>6. LET h2 == InState(h, c, state)
      IN  /\ Core(h2)
          /\ OnlyConn(h, h2, c)
          /\ Held(h2, c, n, state)
          /\ h2.conn[c].smlc_loc_req = r
          /\ h2.conn[c].smlc_subscr = h.conn[c].smlc_subscr
          /\ h2.sccp = h.sccp /\ h2.sent = h.sent
  BY <1>2, <1>3, <1>4, <1>5 DEF Held
<1> QED
  BY <1>6 DEF r

\* Whatever is sent before it, the end of the request is an end.
LEMMA SendAndCleanup ==
  ASSUME NEW h, NEW c \in ConnIds, Core(h), NEW n \in {0, 1}, NEW state, Held(h, c, n, state),
         NEW failing, NEW cell_id, NEW r \in ResponsesFor(cell_id),
         Encoding(r) \in failing => "enc_cause" \in failing
  PROVE  Ending(h, smlc_loc_req_fsm_cleanup(lb_conn_send_bssmap_le(h, c, r, failing), c), c, n, failing, cell_id)
<1> DEFINE g == lb_conn_send_bssmap_le(h, c, r, failing)
           h2 == smlc_loc_req_fsm_cleanup(g, c)
<1>1. r \in Pdu
  BY DEF ResponsesFor, Pdu
<1>2. /\ Core(g) /\ OnlyConn(h, g, c)
      /\ g.conn = h.conn
  BY <1>1, SendEffect
<1>3. \/ g.sent[c] = Append(h.sent[c], r) /\ h.sccp[c] # NULL
      \/ g.sent[c] = h.sent[c] /\ Mute(h, c, failing)
  <2>1. h.conn[c] # NULL
    BY DEF Held
  <2>2. \/ g.sent[c] = Append(h.sent[c], r) /\ h.sccp[c] # NULL
        \/ /\ g.sent[c] = h.sent[c]
           /\ Encoding(r) \in failing \/ "send_co" \in failing \/ h.sccp[c] = NULL
    BY <1>1, <2>1, SendReaches
  <2> HIDE DEF g
  <2> QED
    BY <2>2 DEF Mute
<1> HIDE DEF g
<1>4. Held(g, c, n, state)
  BY <1>2 DEF Held
<1>5. /\ Core(h2) /\ OnlyConn(g, h2, c) /\ Ended(h2, c, n)
      /\ h2.sent = g.sent
  BY <1>2, <1>4, CleanupOutcome
<1> HIDE DEF h2
<1>6. OnlyConn(h, h2, c)
  BY <1>2, <1>5 DEF OnlyConn
<1>7. Ending(h, h2, c, n, failing, cell_id)
  BY <1>3, <1>5, <1>6 DEF Ending, Answering, Silent
<1> QED
  BY <1>7 DEF g, h2

\* Any failure of a request that waits or has the timing advance.
LEMMA FailOutcome ==
  ASSUME NEW h, NEW c \in ConnIds, Core(h), NEW n \in {0, 1}, NEW state \in {"WAIT_TA", "GOT_TA"},
         Held(h, c, n, state), NEW cause \in LcsCauses, NEW failing, NEW cell_id
  PROVE  Ending(h, smlc_loc_req_fail(h, c, cause, failing), c, n, failing, cell_id)
<1> DEFINE g == InState(h, c, "FAILED")
<1>1. MayEnter(h, c, "FAILED")
  BY DEF MayEnter, OutStates, Held
<1>2. Core(g) /\ OnlyConn(h, g, c) /\ Held(g, c, n, "FAILED") /\ g.sccp = h.sccp /\ g.sent = h.sent
  BY InStateEffect DEF LocReqStates
<1> HIDE DEF g
<1>3. Failure(cause) \in ResponsesFor(cell_id) /\ Encoding(Failure(cause)) = "enc_cause"
  BY DEF ResponsesFor, Encoding, Failure
<1>4. Ending(g, smlc_loc_req_fsm_cleanup(lb_conn_send_bssmap_le(g, c, Failure(cause), failing), c),
             c, n, failing, cell_id)
  BY <1>2, <1>3, SendAndCleanup
<1>5. smlc_loc_req_fail(h, c, cause, failing)
        = smlc_loc_req_fsm_cleanup(lb_conn_send_bssmap_le(g, c, Failure(cause), failing), c)
  BY <1>1 DEF smlc_loc_req_fail, smlc_loc_req_failed_onenter, g
<1> QED
  BY <1>2, <1>4, <1>5, EndingAfter

----------------------------------------------------------------------------
(* The timing advance arrives.                                             *)

\* The database holds well-formed entries; see CellLocationsProofs.
CellsOK == cell_locations \in Seq(Cells!CellLocation)

\* The entry that a lookup returns is one of the list.
LEMMA FirstIsMember ==
  ASSUME NEW indices \in SUBSET Nat, indices # {}
  PROVE  Cells!First(indices) \in indices
<1>1. CP!NoPartAssumption
  BY DataAssumption DEF CP!NoPartAssumption
<1> QED
  BY <1>1, CP!FirstIsLeast DEF Cells!First, CP!First

\* A location that is found is the position of a configured cell that matches.
LEMMA PositionType ==
  ASSUME CellsOK, NEW cell_id
  PROVE  LET lat_lon == Cells!cell_location_from_ta(cell_locations, cell_id)
         IN  \/ lat_lon = NoPart
             \/ /\ lat_lon \in Positions
                /\ \E i \in DOMAIN cell_locations, exact \in BOOLEAN :
                     /\ cell_locations[i].lat_lon = lat_lon
                     /\ Cells!gsm0808_cell_ids_match(cell_locations[i].cell_id, cell_id, exact)
<1> DEFINE exact == Cells!MatchingIn(cell_locations, cell_id, TRUE)
           loose == Cells!MatchingIn(cell_locations, cell_id, FALSE)
           i == Cells!cell_location_find(cell_locations, cell_id)
<1>1. exact \in SUBSET Nat /\ loose \in SUBSET Nat
  <2>1. DOMAIN cell_locations \subseteq Nat
    BY DEF CellsOK
  <2> QED
    BY <2>1 DEF Cells!MatchingIn
<1> HIDE DEF exact, loose
<1>2. /\ exact # {} => Cells!First(exact) \in exact
      /\ loose # {} => Cells!First(loose) \in loose
  BY <1>1, FirstIsMember
<1>3. \/ i = 0
      \/ /\ i \in DOMAIN cell_locations
         /\ \E b \in BOOLEAN : Cells!gsm0808_cell_ids_match(cell_locations[i].cell_id, cell_id, b)
  <2>1. i = IF exact # {} THEN Cells!First(exact) ELSE IF loose # {} THEN Cells!First(loose) ELSE 0
    BY DEF Cells!cell_location_find, exact, loose
  <2>2. \A j \in exact \cup loose :
          /\ j \in DOMAIN cell_locations
          /\ \E b \in BOOLEAN : Cells!gsm0808_cell_ids_match(cell_locations[j].cell_id, cell_id, b)
    BY Zenon DEF exact, loose, Cells!MatchingIn
  <2> HIDE DEF i
  <2> QED
    BY <1>2, <2>1, <2>2, Zenon
<1> HIDE DEF i
<1>4. i \in DOMAIN cell_locations => cell_locations[i].lat_lon \in Positions
  <2>1. \A j \in DOMAIN cell_locations : cell_locations[j] \in Cells!CellLocation
    BY DEF CellsOK
  <2> QED
    BY <2>1 DEF Cells!CellLocation
<1>5. Cells!cell_location_from_ta(cell_locations, cell_id) = IF i = 0 THEN NoPart ELSE cell_locations[i].lat_lon
  BY DEF Cells!cell_location_from_ta, i
<1> QED
  BY <1>3, <1>4, <1>5

\* The timing advance is known: a response goes out and ends the request.
LEMMA GotTaOutcome ==
  ASSUME NEW h, NEW c \in ConnIds, Core(h), NEW n \in {0, 1}, Held(h, c, n, "GOT_TA"),
         NEW failing, CellsOK
  PROVE  Ending(h, smlc_loc_req_got_ta_onenter(h, c, failing), c, n, failing,
                h.conn[c].smlc_loc_req.latest_cell_id)
<1> DEFINE cell_id == h.conn[c].smlc_loc_req.latest_cell_id
           lat_lon == Cells!cell_location_from_ta(cell_locations, cell_id)
           h2 == smlc_loc_req_got_ta_onenter(h, c, failing)
<1>1. lat_lon = NoPart \/ lat_lon \in Positions
  BY PositionType
<1>2. lat_lon \in Positions => Location(lat_lon) \in ResponsesFor(cell_id)
  BY DEF ResponsesFor
<1>3. Encoding(Location(lat_lon)) = "enc_location"
  BY DEF Encoding, Location
<1>4. \/ \E cause \in LcsCauses : h2 = smlc_loc_req_fail(h, c, cause, failing)
      \/ /\ lat_lon # NoPart
         /\ SendSucceeds(h, c, Location(lat_lon), failing)
         /\ h2 = smlc_loc_req_fsm_cleanup(lb_conn_send_bssmap_le(h, c, Location(lat_lon), failing), c)
  <2> HIDE DEF lat_lon
  <2> QED
    BY DEF smlc_loc_req_got_ta_onenter, LcsCauses, lat_lon
<1> HIDE DEF h2, lat_lon, cell_id
<1>5. ASSUME NEW cause \in LcsCauses, h2 = smlc_loc_req_fail(h, c, cause, failing)
      PROVE  Ending(h, h2, c, n, failing, cell_id)
  BY <1>5, FailOutcome
<1>6. ASSUME lat_lon \in Positions, SendSucceeds(h, c, Location(lat_lon), failing),
             h2 = smlc_loc_req_fsm_cleanup(lb_conn_send_bssmap_le(h, c, Location(lat_lon), failing), c)
      PROVE  Ending(h, h2, c, n, failing, cell_id)
  <2>1. Encoding(Location(lat_lon)) \notin failing
    BY <1>6 DEF SendSucceeds
  <2> QED
    BY <1>2, <1>6, <2>1, SendAndCleanup
<1>7. Ending(h, h2, c, n, failing, cell_id)
  BY <1>1, <1>4, <1>5, <1>6
<1> QED
  BY <1>7 DEF h2, cell_id

\* The change to GOT_TA is allowed from WAIT_TA.
LEMMA EnterGotTaOutcome ==
  ASSUME NEW h, NEW c \in ConnIds, Core(h), NEW n \in {0, 1}, Held(h, c, n, "WAIT_TA"),
         NEW failing, CellsOK
  PROVE  Ending(h, EnterGotTa(h, c, failing), c, n, failing, h.conn[c].smlc_loc_req.latest_cell_id)
<1> DEFINE g == InState(h, c, "GOT_TA")
           cell_id == h.conn[c].smlc_loc_req.latest_cell_id
<1>1. MayEnter(h, c, "GOT_TA")
  BY DEF MayEnter, OutStates, Held
<1>2. /\ Core(g) /\ OnlyConn(h, g, c) /\ Held(g, c, n, "GOT_TA")
      /\ g.conn[c].smlc_loc_req = [h.conn[c].smlc_loc_req EXCEPT !.state = "GOT_TA"]
      /\ g.sccp = h.sccp /\ g.sent = h.sent
  <2>1. "GOT_TA" \in LocReqStates
    BY DEF LocReqStates
  <2> QED
    BY <2>1, InStateEffect
<1>3. g.conn[c].smlc_loc_req.latest_cell_id = cell_id
  <2>1. h.conn[c].smlc_loc_req \in LocReq
    BY ConnFields DEF Core, Held
  <2> HIDE DEF g
  <2> QED
    BY <1>2, <2>1 DEF LocReq
<1> HIDE DEF g, cell_id
<1>4. Ending(g, smlc_loc_req_got_ta_onenter(g, c, failing), c, n, failing, cell_id)
  BY <1>2, <1>3, GotTaOutcome, ZenonT(30)
<1>5. EnterGotTa(h, c, failing) = smlc_loc_req_got_ta_onenter(g, c, failing)
  BY <1>1 DEF EnterGotTa, g
<1>6. Ending(h, EnterGotTa(h, c, failing), c, n, failing, cell_id)
  BY <1>2, <1>4, <1>5, EndingAfter
<1> QED
  BY <1>6 DEF cell_id

\* What the request knows changes before it enters GOT_TA.
LEMMA NewTaOutcome ==
  ASSUME NEW h, NEW c \in ConnIds, Core(h), NEW n \in {0, 1}, Held(h, c, n, "WAIT_TA"),
         NEW failing, CellsOK, NEW r \in LocReq, r.state = "WAIT_TA"
  PROVE  Ending(h, EnterGotTa([h EXCEPT !.conn[c].smlc_loc_req = r], c, failing), c, n, failing,
                r.latest_cell_id)
<1> DEFINE g == [h EXCEPT !.conn[c].smlc_loc_req = r]
<1>1. r # NULL
  BY DataAssumption
<1>2. /\ Core(g) /\ OnlyConn(h, g, c) /\ g.sccp = h.sccp /\ g.sent = h.sent
      /\ Held(g, c, n, "WAIT_TA") /\ g.conn[c].smlc_loc_req = r
  BY <1>1, RequestChange DEF Held
<1> HIDE DEF g
<1>3. Ending(g, EnterGotTa(g, c, failing), c, n, failing, r.latest_cell_id)
  BY <1>2, EnterGotTaOutcome
<1>4. Ending(h, EnterGotTa(g, c, failing), c, n, failing, r.latest_cell_id)
  BY <1>2, <1>3, EndingAfter
<1> QED
  BY <1>4 DEF g

\* A TA Response, or the report of a handover.
LEMMA RxTaReportOutcome ==
  ASSUME NEW h, NEW c \in ConnIds, Core(h), NEW n \in {0, 1}, Held(h, c, n, "WAIT_TA"),
         NEW failing, CellsOK, NEW ci \in Cis
  PROVE  Ending(h, RxTaReport(h, c, ci, failing), c, n, failing,
                update_ci(h.conn[c].smlc_loc_req.latest_cell_id, ci))
<1> DEFINE old == h.conn[c].smlc_loc_req
           r == [old EXCEPT !.ta_present = TRUE, !.latest_cell_id = update_ci(@, ci)]
<1>1. h \in Heap /\ h.conn[c] \in Conn /\ old \in LocReq /\ old.state = "WAIT_TA"
  BY ConnFields DEF Core, Held
<1>2. update_ci(old.latest_cell_id, ci) \in Cells!CellId
  BY <1>1 DEF LocReq, update_ci, Cells!CellId
<1>3. r \in LocReq /\ r.state = "WAIT_TA" /\ r.latest_cell_id = update_ci(old.latest_cell_id, ci)
  BY <1>1, <1>2 DEF LocReq
<1>4. [h EXCEPT !.conn[c].smlc_loc_req.ta_present = TRUE,
                !.conn[c].smlc_loc_req.latest_cell_id = update_ci(@, ci)]
        = [h EXCEPT !.conn[c].smlc_loc_req = r]
  <2> DEFINE id == update_ci(old.latest_cell_id, ci)
             conn == [h.conn EXCEPT ![c].smlc_loc_req.ta_present = TRUE,
                                    ![c].smlc_loc_req.latest_cell_id = id]
  <2> HIDE DEF id
  <2>1. conn = [h.conn EXCEPT ![c].smlc_loc_req = [old EXCEPT !.ta_present = TRUE, !.latest_cell_id = id]]
    BY <1>1 DEF Heap, Conn, LocReq
  <2>2. [h EXCEPT !.conn[c].smlc_loc_req.ta_present = TRUE,
                  !.conn[c].smlc_loc_req.latest_cell_id = id] = [h EXCEPT !.conn = conn]
    BY <1>1 DEF Heap, Conn, LocReq
  <2>3. [h EXCEPT !.conn[c].smlc_loc_req = [old EXCEPT !.ta_present = TRUE, !.latest_cell_id = id]]
          = [h EXCEPT !.conn = conn]
    BY <1>1, <2>1 DEF Heap, Conn, LocReq
  <2> QED
    BY <2>2, <2>3 DEF id
<1> HIDE DEF r
<1> QED
  BY <1>3, <1>4, NewTaOutcome DEF RxTaReport

----------------------------------------------------------------------------
(* The Perform Location Request.                                           *)

\* The heap with other objects for a connection and a subscriber.
With(h, c, s, conn, subscr) == [h EXCEPT !.conn[c] = conn, !.subscr[s] = subscr]

\* A connection and a subscriber that are put into the heap.
LEMMA WithEffect ==
  ASSUME NEW h \in Heap, NEW c \in ConnIds, NEW s \in Imsis, NEW k \in Conn, NEW u \in Subscr
  PROVE  LET g == With(h, c, s, k, u)
         IN  /\ g \in Heap
             /\ g.conn[c] = k /\ g.conn[c] # NULL /\ g.subscr[s] = u
             /\ \A d \in ConnIds \ {c} : g.conn[d] = h.conn[d]
             /\ \A t \in Imsis \ {s} : g.subscr[t] = h.subscr[t]
             /\ g.ahead = h.ahead /\ g.lb_peers = h.lb_peers /\ g.sccp = h.sccp
             /\ g.sent = h.sent /\ g.unitdata = h.unitdata /\ g.fault = h.fault
             /\ \A k2 : [g EXCEPT !.conn[c] = k2] = With(h, c, s, k2, u)
             /\ \A u2 : [g EXCEPT !.subscr[s] = u2] = With(h, c, s, k, u2)
<1> DEFINE conn == [h.conn EXCEPT ![c] = k]
           subscr == [h.subscr EXCEPT ![s] = u]
           g == With(h, c, s, k, u)
<1>1. g = [h EXCEPT !.conn = conn, !.subscr = subscr]
  BY DEF With, Heap
<1>2. /\ conn \in [ConnIds -> Conn \cup {NULL}]
      /\ conn[c] = k
      /\ \A d \in ConnIds \ {c} : conn[d] = h.conn[d]
  BY HeapFields
<1>3. /\ subscr \in [Imsis -> Subscr \cup {NULL}]
      /\ subscr[s] = u
      /\ \A t \in Imsis \ {s} : subscr[t] = h.subscr[t]
  BY HeapFields
<1>4. k # NULL
  BY DataAssumption
<1>5. /\ \A k2 : [conn EXCEPT ![c] = k2] = [h.conn EXCEPT ![c] = k2]
      /\ \A u2 : [subscr EXCEPT ![s] = u2] = [h.subscr EXCEPT ![s] = u2]
  BY HeapFields
<1> HIDE DEF g
<1>6. /\ \A k2 : [g EXCEPT !.conn[c] = k2] = [h EXCEPT !.conn = [conn EXCEPT ![c] = k2], !.subscr = subscr]
      /\ \A u2 : [g EXCEPT !.subscr[s] = u2] = [h EXCEPT !.conn = conn, !.subscr = [subscr EXCEPT ![s] = u2]]
  BY <1>1 DEF Heap
<1>7. /\ \A k2 : [g EXCEPT !.conn[c] = k2] = With(h, c, s, k2, u)
      /\ \A u2 : [g EXCEPT !.subscr[s] = u2] = With(h, c, s, k, u2)
  BY <1>5, <1>6 DEF With, Heap
<1> HIDE DEF conn, subscr
<1>8. /\ g.conn = conn /\ g.subscr = subscr
      /\ g.ahead = h.ahead /\ g.lb_peers = h.lb_peers /\ g.sccp = h.sccp
      /\ g.sent = h.sent /\ g.unitdata = h.unitdata /\ g.fault = h.fault
      /\ g \in Heap
  BY <1>1, <1>2, <1>3 DEF Heap
<1> QED
  BY <1>2, <1>3, <1>4, <1>7, <1>8 DEF g

\* The connection found for "no subscriber" is the one that has just been
\* allocated: the lookup in smlc_loc_req.c:128 finds the connection itself.
LEMMA FindsItself ==
  ASSUME NEW h, NEW c \in ConnIds, h.conn[c] # NULL, h.conn[c].smlc_subscr = NULL,
         \A d \in lb_conns(h) \ {c} : <<c, d>> \in h.ahead /\ <<d, c>> \notin h.ahead
  PROVE  FirstConnOf(h, NULL) = c
<1> DEFINE found == {d \in lb_conns(h) : h.conn[d].smlc_subscr = NULL}
<1>1. c \in found /\ found \subseteq lb_conns(h)
  BY DEF lb_conns
<1>2. \A d \in found \ {c} : <<c, d>> \in h.ahead
  BY <1>1
<1>3. \A e \in found : (\A d \in found \ {e} : <<e, d>> \in h.ahead) => e = c
  BY <1>1
<1> HIDE DEF found
<1>4. (CHOOSE e \in found : \A d \in found \ {e} : <<e, d>> \in h.ahead) = c
  BY <1>1, <1>2, <1>3
<1> QED
  BY <1>1, <1>4 DEF FirstConnOf, found

\* SetSubscriber() in one step.
LEMMA SetSubscriberIs ==
  ASSUME NEW h, NEW c \in ConnIds, Core(h), Fresh(h, c), NEW imsi \in Imsis
  PROVE  SetSubscriber(h, c, imsi)
           = With(h, c, imsi, [h.conn[c] EXCEPT !.smlc_subscr = imsi],
                  SubscrUse(Cardinality(Users(h, imsi)) + 1, 0))
<1> DEFINE users == Users(h, imsi)
           n == Cardinality(users)
           token == "smlc_loc_req_start"
           busy == [ConnUse(1, 0) EXCEPT ![token] = @ + 1]
           k0 == h.conn[c]
           k1 == [k0 EXCEPT !.use_count = busy]
           k2 == [k1 EXCEPT !.smlc_subscr = imsi]
           k3 == [k0 EXCEPT !.smlc_subscr = imsi]
           u1 == SubscrUse(n, 1)
           u2 == SubscrUse(n + 1, 1)
           u3 == SubscrUse(n + 1, 0)
           h1 == With(h, c, imsi, k0, u1)
           h2 == With(h, c, imsi, k1, u1)
           g == With(h, c, imsi, k2, u1)
           h3 == With(h, c, imsi, k2, u2)
           h5 == With(h, c, imsi, k2, u3)
           h6 == With(h, c, imsi, k3, u3)
<1>1. h \in Heap /\ k0 \in Conn /\ k0.use_count = ConnUse(1, 0) /\ k0.smlc_subscr = NULL
  BY ConnFields DEF Core, Fresh
<1>2. n \in Nat /\ n + 1 \in Nat /\ n \in Int /\ n + 1 \in Int /\ 0 \in Int /\ 1 \in Int
  BY UsersFinite
<1>3. /\ SubscrUse(n, 1) \in Subscr
      /\ SubscrUse(n + 1, 1) \in Subscr
      /\ SubscrUse(n + 1, 0) \in Subscr
  <2> HIDE DEF n
  <2> DEFINE m == n + 1
  <2>1. m \in Int
    BY <1>2
  <2> QED
    BY <1>2, <2>1, SubscrUseValue, Zenon
<1>4. /\ busy \in [ConnTokens -> Int]
      /\ busy[token] = 1
      /\ [busy EXCEPT ![token] = @ - 1] = ConnUse(1, 0)
  BY DEF ConnUse, ConnTokens
<1> HIDE DEF n, busy
<1>5. /\ k1 \in Conn /\ k2 \in Conn /\ k3 \in Conn
      /\ k1.use_count = busy /\ k2.use_count = busy
      /\ k3 = [k2 EXCEPT !.use_count = ConnUse(1, 0)]
  BY <1>1, <1>4 DEF Conn
<1>6. /\ h1 \in Heap /\ h2 \in Heap /\ g \in Heap /\ h3 \in Heap /\ h5 \in Heap /\ h6 \in Heap
      /\ h1.conn[c] = k0 /\ h2.conn[c] = k1 /\ h5.conn[c] = k2 /\ h6.conn[c] = k3
      /\ h1.conn[c] # NULL /\ h5.conn[c] # NULL
      /\ h1.ahead = h.ahead /\ \A d \in ConnIds \ {c} : h1.conn[d] = h.conn[d]
      /\ g.subscr[imsi] = u1 /\ h3.subscr[imsi] = u2
      /\ [h1 EXCEPT !.conn[c] = k1] = h2
      /\ [h2 EXCEPT !.conn[c] = k2] = g
      /\ [g EXCEPT !.subscr[imsi] = u2] = h3
      /\ [h3 EXCEPT !.subscr[imsi] = u3] = h5
      /\ [h5 EXCEPT !.conn[c] = k3] = h6
  <2> HIDE DEF k0, k1, k2, k3, u1, u2, u3
  <2>1. h \in Heap /\ k0 \in Conn /\ k1 \in Conn /\ k2 \in Conn /\ k3 \in Conn
          /\ u1 \in Subscr /\ u2 \in Subscr /\ u3 \in Subscr
    BY <1>1, <1>3, <1>5 DEF k0, u1, u2, u3
  <2>2. ASSUME NEW k \in Conn, NEW u \in Subscr
        PROVE  /\ With(h, c, imsi, k, u) \in Heap
               /\ With(h, c, imsi, k, u).conn[c] = k
               /\ With(h, c, imsi, k, u).conn[c] # NULL
               /\ With(h, c, imsi, k, u).subscr[imsi] = u
               /\ With(h, c, imsi, k, u).ahead = h.ahead
               /\ \A d \in ConnIds \ {c} : With(h, c, imsi, k, u).conn[d] = h.conn[d]
    BY <2>1, WithEffect
  <2>3. ASSUME NEW k \in Conn, NEW u \in Subscr, NEW x
        PROVE  /\ [With(h, c, imsi, k, u) EXCEPT !.conn[c] = x] = With(h, c, imsi, x, u)
               /\ [With(h, c, imsi, k, u) EXCEPT !.subscr[imsi] = x] = With(h, c, imsi, k, x)
    BY <2>1, WithEffect
  <2>4. /\ h1 \in Heap /\ h1.conn[c] = k0 /\ h1.conn[c] # NULL
        /\ h1.ahead = h.ahead /\ \A d \in ConnIds \ {c} : h1.conn[d] = h.conn[d]
    BY <2>1, <2>2, Zenon
  <2>5. h2 \in Heap /\ h2.conn[c] = k1 /\ g \in Heap /\ g.subscr[imsi] = u1
    BY <2>1, <2>2, Zenon
  <2>6. h3 \in Heap /\ h3.subscr[imsi] = u2 /\ h5 \in Heap /\ h5.conn[c] = k2 /\ h5.conn[c] # NULL
    BY <2>1, <2>2, Zenon
  <2>7. h6 \in Heap /\ h6.conn[c] = k3
    BY <2>1, <2>2, Zenon
  <2>8. [h1 EXCEPT !.conn[c] = k1] = h2 /\ [h2 EXCEPT !.conn[c] = k2] = g
    BY <2>1, <2>3
  <2>9. [g EXCEPT !.subscr[imsi] = u2] = h3 /\ [h3 EXCEPT !.subscr[imsi] = u3] = h5
    BY <2>1, <2>3
  <2>10. [h5 EXCEPT !.conn[c] = k3] = h6
    BY <2>1, <2>3
  <2> HIDE DEF h1, h2, g, h3, h5, h6
  <2> QED
    BY <2>4, <2>5, <2>6, <2>7, <2>8, <2>9, <2>10
<1>7. smlc_subscr_find_or_create(h, imsi, token) = h1
  <2>1. smlc_subscr_find_or_create(h, imsi, token) = [h EXCEPT !.subscr[imsi] = u1]
    BY <1>1, FoundOrCreated DEF Core, SubscrExact, Users, n
  <2>2. [h.conn EXCEPT ![c] = k0] = h.conn
    BY <1>1, HeapFields
  <2> QED
    BY <1>1, <2>1, <2>2 DEF With, Heap
<1>8. FirstConnOf(h1, h1.conn[c].smlc_subscr) = c
  <2> HIDE DEF h1
  <2>1. lb_conns(h1) = lb_conns(h)
    BY <1>6 DEF lb_conns, Fresh
  <2> QED
    BY <1>1, <1>6, <2>1, FindsItself DEF Fresh
<1>9. lb_conn_get(h1, c, token) = h2
  <2> HIDE DEF h1, h2
  <2>1. lb_conn_get(h1, c, token) = [h1 EXCEPT !.conn[c] = k1]
    BY <1>1, <1>6 DEF lb_conn_get, Heap, Conn, busy
  <2> QED
    BY <1>6, <2>1
<1>10. smlc_subscr_get([h2 EXCEPT !.conn[c].smlc_subscr = imsi], imsi, "Lb-conn") = h3
  <2>1. [h2 EXCEPT !.conn[c].smlc_subscr = imsi] = g
    <3> HIDE DEF h2, k1, g
    <3> QED
      BY <1>6 DEF Heap
  <2> HIDE DEF g, h3, h2
  <2>2. smlc_subscr_get(g, imsi, "Lb-conn") = [g EXCEPT !.subscr[imsi] = u2]
    BY <1>2, <1>6, SubscrGet
  <2> QED
    BY <1>6, <2>1, <2>2
<1>11. smlc_subscr_put(h3, imsi, token) = h5
  <2> HIDE DEF h3, h5
  <2>1. 1 > 0 => smlc_subscr_put(h3, imsi, token)
                   = [h3 EXCEPT !.subscr[imsi] = IF (n + 1) + (1 - 1) = 0 THEN NULL
                                                 ELSE SubscrUse(n + 1, 1 - 1)]
    BY <1>2, <1>6, SubscrPut
  <2>2. (n + 1) + (1 - 1) # 0 /\ 1 - 1 = 0 /\ 1 > 0
    BY <1>2
  <2> QED
    BY <1>6, <2>1, <2>2
<1>12. lb_conn_put(h5, c, token) = h6
  <2> DEFINE put == [h5 EXCEPT !.conn[c].use_count[token] = @ - 1]
  <2>1. put = h6
    <3>1. [k2 EXCEPT !.use_count[token] = @ - 1] = k3
      BY <1>4, <1>5 DEF Conn
    <3> HIDE DEF h5, h6, k2, k3
    <3>2. put = [h5 EXCEPT !.conn[c] = [k2 EXCEPT !.use_count[token] = @ - 1]]
      BY <1>5, <1>6 DEF Heap, Conn
    <3> QED
      BY <1>6, <3>1, <3>2
  <2>2. h6.conn[c].use_count = ConnUse(1, 0)
    <3> HIDE DEF h6
    <3> QED
      BY <1>1, <1>6 DEF Conn
  <2>3. ConnUse(1, 0)[token] = 0 /\ ConnTotal(ConnUse(1, 0)) = 1 + 0
    BY <1>2, ConnUseValue, Zenon
  <2> HIDE DEF h5, h6
  <2>4. lb_conn_put(h5, c, token)
          = IF put.conn[c].use_count[token] < 0 THEN Fault(h5, "use count below zero")
            ELSE IF ConnTotal(put.conn[c].use_count) = 0 THEN lb_conn_close(put, c) ELSE put
    BY <1>6 DEF lb_conn_put
  <2> HIDE DEF put
  <2>5. put.conn[c].use_count[token] = 0 /\ ConnTotal(put.conn[c].use_count) = 1 + 0
    BY <2>1, <2>2, <2>3, Zenon
  <2> QED
    BY <2>1, <2>4, <2>5
<1> HIDE DEF h1, h2, h3, h5, h6
<1>13. SetSubscriber(h, c, imsi) = h6
  BY <1>7, <1>8, <1>9, <1>10, <1>11, <1>12, DataAssumption DEF SetSubscriber
<1> QED
  BY <1>13 DEF h6, n

\* A connection that has no request yet, in the handler that has allocated it.
Idle(h, c) ==
    /\ h.conn[c] # NULL
    /\ h.conn[c].smlc_loc_req = NULL
    /\ h.conn[c].use_count = ConnUse(1, 0)
    /\ h.sent[c] = <<>>

\* The subscriber of a new connection gains one use, that of the connection.
LEMMA SetSubscriberEffect ==
  ASSUME NEW h, NEW c \in ConnIds, Core(h), Fresh(h, c), h.sent[c] = <<>>, NEW imsi \in Imsis
  PROVE  LET h2 == SetSubscriber(h, c, imsi)
         IN  /\ Core(h2) /\ OnlyConn(h, h2, c) /\ Idle(h2, c)
             /\ h2.conn[c].smlc_subscr = imsi
             /\ h2.sccp = h.sccp /\ h2.sent = h.sent
<1> DEFINE n == Cardinality(Users(h, imsi))
           k == [h.conn[c] EXCEPT !.smlc_subscr = imsi]
           u == SubscrUse(n + 1, 0)
           h2 == SetSubscriber(h, c, imsi)
<1>1. h \in Heap /\ h.fault = {} /\ h.conn[c] \in Conn
  BY ConnFields DEF Core, Fresh
<1>2. n \in Nat /\ n + 1 \in Int /\ n + 1 # 0
  BY UsersFinite
<1>3. u \in Subscr
  <2> DEFINE m == n + 1
  <2>1. m \in Int /\ 0 \in Int
    BY <1>2
  <2> HIDE DEF m
  <2>2. SubscrUse(m, 0) \in Subscr
    BY <2>1, SubscrUseValue, Zenon
  <2> QED
    BY <2>2 DEF m
<1>4. /\ k \in Conn /\ k.smlc_subscr = imsi /\ k.smlc_loc_req = NULL
      /\ k.use_count = ConnUse(1, 0)
      /\ k.closing = h.conn[c].closing /\ k.lb_peer = h.conn[c].lb_peer
  BY <1>1 DEF Conn, Fresh
<1> HIDE DEF k, u
<1>5. h2 = With(h, c, imsi, k, u)
  BY SetSubscriberIs DEF k, u
<1>6. /\ h2 \in Heap
      /\ h2.conn[c] = k /\ h2.conn[c] # NULL /\ h2.subscr[imsi] = u
      /\ \A d \in ConnIds \ {c} : h2.conn[d] = h.conn[d]
      /\ \A t \in Imsis \ {imsi} : h2.subscr[t] = h.subscr[t]
      /\ h2.ahead = h.ahead /\ h2.lb_peers = h.lb_peers /\ h2.sccp = h.sccp
      /\ h2.sent = h.sent /\ h2.unitdata = h.unitdata /\ h2.fault = h.fault
  BY <1>1, <1>3, <1>4, <1>5, WithEffect
<1> HIDE DEF h2
<1>7. ASSUME NEW t \in Imsis
      PROVE  h2.subscr[t] = UsedBy(Users(h2, t))
  <2>1. CASE t = imsi
    <3>1. Users(h2, imsi) = Users(h, imsi) \cup {c} /\ c \notin Users(h, imsi)
      BY <1>4, <1>6, DataAssumption DEF Users, Fresh
    <3>2. IsFiniteSet(Users(h, imsi))
      BY UsersFinite
    <3>3. Cardinality(Users(h2, imsi)) = n + 1
      BY <3>1, <3>2, FS_AddElement
    <3>4. Users(h2, imsi) # {}
      BY <3>1
    <3> QED
      BY <1>6, <2>1, <3>3, <3>4 DEF UsedBy, u
  <2>2. CASE t # imsi
    <3>1. Users(h2, t) = Users(h, t)
      BY <1>4, <1>6, <2>2, DataAssumption DEF Users, Fresh
    <3> QED
      BY <1>6, <2>2, <3>1 DEF Core, SubscrExact
  <2> QED
    BY <2>1, <2>2
<1>8. ListExact(h2)
  <2>1. lb_conns(h2) = lb_conns(h)
    BY <1>6 DEF lb_conns, Fresh
  <2> QED
    BY <1>6, <2>1 DEF Core, ListExact
<1>9. ASSUME NEW d \in ConnIds
      PROVE  Attached(h2, d)
  <2>1. Attached(h, d)
    BY DEF Core
  <2>2. CASE d = c
    BY <1>4, <1>6, <2>1, <2>2 DEF Attached, Fresh
  <2>3. CASE d # c
    BY <1>6, <2>1, <2>3 DEF Attached
  <2> QED
    BY <2>2, <2>3
<1>10. Core(h2)
  BY <1>1, <1>6, <1>7, <1>8, <1>9 DEF Core, SubscrExact
<1>11. OnlyConn(h, h2, c) /\ Idle(h2, c)
  BY <1>4, <1>6 DEF OnlyConn, Idle
<1> QED
  BY <1>4, <1>6, <1>10, <1>11 DEF h2

\* A request that starts waits for the timing advance, or ends at once.
LEMMA StartOutcome ==
  ASSUME NEW h, NEW c \in ConnIds, Core(h), Idle(h, c), NEW pdu \in PerformLocReq, NEW failing, CellsOK
  PROVE  LET h2 == StartLocReq(h, c, pdu, failing)
         IN  \/ Waiting(h, h2, c, 1, h.conn[c].smlc_subscr)
             \/ Ending(h, h2, c, 1, failing, pdu.cell_id)
<1> DEFINE r == [state |-> "INIT", latest_cell_id |-> pdu.cell_id, ta_present |-> FALSE]
           h1 == [h EXCEPT !.conn[c].smlc_loc_req = r]
           h2 == lb_conn_get(h1, c, "smlc_loc_req")
           h3 == InState(h2, c, "WAIT_TA")
<1>1. r \in LocReq /\ r.state = "INIT" /\ r # NULL /\ r.latest_cell_id = pdu.cell_id
  <2>1. pdu.cell_id \in Cells!CellId
    BY DataAssumption DEF PerformLocReq
  <2>2. r \in LocReq
    BY <2>1 DEF LocReq, LocReqStates
  <2> QED
    BY <2>2, DataAssumption
<1> HIDE DEF r
<1>2. /\ Core(h1) /\ OnlyConn(h, h1, c)
      /\ h1.conn[c] # NULL /\ h1.conn[c].smlc_loc_req = r
      /\ h1.conn[c].use_count = ConnUse(1, 0)
      /\ h1.conn[c].smlc_subscr = h.conn[c].smlc_subscr
      /\ h1.sccp = h.sccp /\ h1.sent = h.sent
  BY <1>1, RequestChange DEF Idle
<1> HIDE DEF h1
<1>3. h2 = WithUse(h1, c, ConnUse(1, 1))
  BY <1>2, GetEffect
<1>4. ConnUse(1, 1) \in [ConnTokens -> Int]
  BY ConnUseValue
<1>5. h1.conn[c] \in Conn
  BY <1>2, ConnFields DEF Core
<1>6. /\ Core(h2) /\ OnlyConn(h1, h2, c)
      /\ h2.conn[c] = [h1.conn[c] EXCEPT !.use_count = ConnUse(1, 1)]
      /\ h2.conn[c] # NULL
      /\ h2.sccp = h1.sccp /\ h2.sent = h1.sent
  BY <1>2, <1>3, <1>4, UseChange
<1> HIDE DEF h2
<1>7. /\ Held(h2, c, 1, "INIT") /\ h2.conn[c].smlc_loc_req = r
      /\ h2.conn[c].smlc_subscr = h.conn[c].smlc_subscr
  BY <1>1, <1>2, <1>5, <1>6 DEF Held, Conn
<1>8. /\ Core(h3) /\ OnlyConn(h2, h3, c) /\ Held(h3, c, 1, "WAIT_TA")
      /\ h3.conn[c].smlc_loc_req = [h2.conn[c].smlc_loc_req EXCEPT !.state = "WAIT_TA"]
      /\ h3.conn[c].smlc_subscr = h2.conn[c].smlc_subscr
      /\ h3.sccp = h2.sccp /\ h3.sent = h2.sent
  <2>1. "WAIT_TA" \in LocReqStates
    BY DEF LocReqStates
  <2>2. Core(h2)
    BY <1>6
  <2> QED
    BY <1>7, <2>1, <2>2, InStateEffect
<1> HIDE DEF h3
<1>9. /\ OnlyConn(h, h3, c) /\ h3.sccp = h.sccp /\ h3.sent = h.sent /\ h3.sent[c] = <<>>
      /\ h3.conn[c].smlc_subscr = h.conn[c].smlc_subscr
  BY <1>2, <1>6, <1>7, <1>8 DEF OnlyConn, Idle
<1>10. CASE pdu.ta_layer3
  <2> DEFINE old == h3.conn[c].smlc_loc_req
             r2 == [old EXCEPT !.ta_present = TRUE]
             g == [h3 EXCEPT !.conn[c].smlc_loc_req = r2]
  <2>1. h3 \in Heap /\ h3.conn[c] \in Conn /\ old \in LocReq /\ old.state = "WAIT_TA"
    BY <1>8, ConnFields DEF Core, Held
  <2>2. r2 \in LocReq /\ r2.state = "WAIT_TA" /\ r2.latest_cell_id = pdu.cell_id
    BY <1>1, <1>7, <1>8, <2>1 DEF LocReq
  <2>3. [h3 EXCEPT !.conn[c].smlc_loc_req.ta_present = TRUE] = g
    BY <2>1 DEF Heap, Conn, LocReq
  <2> HIDE DEF r2
  <2>4. Ending(h3, EnterGotTa(g, c, failing), c, 1, failing, pdu.cell_id)
    BY <1>8, <2>2, NewTaOutcome
  <2>5. StartLocReq(h, c, pdu, failing) = EnterGotTa(g, c, failing)
    BY <1>10, <2>3 DEF StartLocReq, smlc_loc_req_wait_ta_onenter, h3, h2, h1, r
  <2> QED
    BY <1>9, <2>4, <2>5, EndingAfter
<1>11. CASE ~pdu.ta_layer3
  <2> DEFINE g == lb_conn_send_bssmap_le(h3, c, TaRequest, failing)
  <2>1. /\ Core(g) /\ OnlyConn(h3, g, c)
        /\ g.conn = h3.conn /\ g.sccp = h3.sccp
        /\ g.sent[c] \in {h3.sent[c], Append(h3.sent[c], TaRequest)}
    <3>1. TaRequest \in Pdu
      BY PduTypes
    <3>2. Core(h3)
      BY <1>8
    <3> QED
      BY <3>1, <3>2, SendEffect
  <2>2. StartLocReq(h, c, pdu, failing) = g
    BY <1>11 DEF StartLocReq, smlc_loc_req_wait_ta_onenter, h3, h2, h1, r
  <2> HIDE DEF g
  <2>3. Held(g, c, 1, "WAIT_TA") /\ Open(g, c)
    BY <1>8, <1>9, <2>1 DEF Held, Open, Asked
  <2> QED
    BY <1>8, <1>9, <2>1, <2>2, <2>3 DEF Waiting, OnlyConn
<1> QED
  BY <1>10, <1>11

----------------------------------------------------------------------------
(* The handlers.                                                           *)

\* smlc_loc_req_start(), on a connection that has just been allocated.
LEMMA FreshStart ==
  ASSUME NEW h, NEW c \in ConnIds, Core(h), Fresh(h, c), h.sent[c] = <<>>,
         NEW pdu \in PerformLocReq, NEW failing, CellsOK
  PROVE  LET h2 == smlc_loc_req_start(h, c, pdu, failing)
         IN  \/ Waiting(h, h2, c, 1, pdu.imsi)
             \/ Ending(h, h2, c, 1, failing, pdu.cell_id)
<1> DEFINE h1 == SetSubscriber(h, c, pdu.imsi)
<1>1. Idle(h, c) /\ h.conn[c].smlc_subscr = NULL
  BY DEF Idle, Fresh
<1>2. CASE pdu.imsi = NULL
  <2>1. smlc_loc_req_start(h, c, pdu, failing) = StartLocReq(h, c, pdu, failing)
    BY <1>2 DEF smlc_loc_req_start, Fresh
  <2> QED
    BY <1>1, <1>2, <2>1, StartOutcome
<1>3. CASE pdu.imsi # NULL
  <2>1. smlc_loc_req_start(h, c, pdu, failing) = StartLocReq(h1, c, pdu, failing)
    BY <1>3 DEF smlc_loc_req_start, Fresh
  <2>2. pdu.imsi \in Imsis
    BY <1>3 DEF PerformLocReq
  <2>3. /\ Core(h1) /\ OnlyConn(h, h1, c) /\ Idle(h1, c)
        /\ h1.conn[c].smlc_subscr = pdu.imsi
        /\ h1.sccp = h.sccp /\ h1.sent = h.sent
    BY <2>2, SetSubscriberEffect
  <2> HIDE DEF h1
  <2> DEFINE h2 == StartLocReq(h1, c, pdu, failing)
  <2>4. \/ Waiting(h1, h2, c, 1, pdu.imsi)
        \/ Ending(h1, h2, c, 1, failing, pdu.cell_id)
    BY <2>3, StartOutcome
  <2> HIDE DEF h2
  <2>5. Waiting(h1, h2, c, 1, pdu.imsi) => Waiting(h, h2, c, 1, pdu.imsi)
    BY <2>3 DEF Waiting, OnlyConn
  <2>6. Ending(h1, h2, c, 1, failing, pdu.cell_id) => Ending(h, h2, c, 1, failing, pdu.cell_id)
    BY <2>3, EndingAfter
  <2> QED
    BY <2>1, <2>4, <2>5, <2>6 DEF h2
<1> QED
  BY <1>2, <1>3

\* A message on a connection that has just been allocated.
LEMMA FreshMessage ==
  ASSUME NEW h, NEW c \in ConnIds, Core(h), Fresh(h, c), h.sent[c] = <<>>,
         NEW msg \in Message, NEW failing, CellsOK
  PROVE  LET h2 == smlc_loc_req_rx_bssap_le(h, c, msg, failing)
         IN  \/ msg \in PerformLocReq /\ Waiting(h, h2, c, 1, msg.imsi)
             \/ msg \in PerformLocReq /\ Ending(h, h2, c, 1, failing, msg.cell_id)
             \/ Silent(h, h2, c, 1)
             \/ h2 = Fault(h, "null request")
<1> DEFINE h2 == smlc_loc_req_rx_bssap_le(h, c, msg, failing)
<1>1. CASE msg.type = "unsupported"
  <2>1. h2 = h
    BY <1>1 DEF smlc_loc_req_rx_bssap_le
  <2>2. Silent(h, h, c, 1)
    BY DEF Silent, Ended, Fresh, OnlyConn
  <2> QED
    BY <2>1, <2>2
<1>2. CASE msg.type = "perform_loc_req"
  <2>1. h2 = smlc_loc_req_start(h, c, msg, failing)
    BY <1>2 DEF smlc_loc_req_rx_bssap_le
  <2>2. msg \in PerformLocReq
    BY <1>2 DEF Message, PerformLocReq, TaReport, PlainMessage
  <2> QED
    BY <2>1, <2>2, FreshStart
<1>3. CASE msg.type \notin {"unsupported", "perform_loc_req"}
  BY <1>3 DEF smlc_loc_req_rx_bssap_le, Fresh
<1> QED
  BY <1>1, <1>2, <1>3

\* The cell whose position an event is answered with.
AskedCell(h, c, msg) ==
    LET latest == h.conn[c].smlc_loc_req.latest_cell_id
    IN  IF msg.type \in {"ta_response", "bsslap_reset"} THEN update_ci(latest, msg.ci) ELSE latest

\* A message on a connection whose request waits for the timing advance.
LEMMA WaitingMessage ==
  ASSUME NEW h, NEW c \in ConnIds, Core(h), Held(h, c, 0, "WAIT_TA"),
         NEW msg \in Message, NEW failing, CellsOK
  PROVE  LET h2 == smlc_loc_req_rx_bssap_le(h, c, msg, failing)
         IN  \/ h2 = h
             \/ Ending(h, h2, c, 0, failing, AskedCell(h, c, msg))
             \/ msg.type = "perform_loc_abort" /\ Silent(h, h2, c, 0)
<1> DEFINE h2 == smlc_loc_req_rx_bssap_le(h, c, msg, failing)
<1>1. CASE msg.type \in {"unsupported", "perform_loc_req"}
  BY <1>1 DEF smlc_loc_req_rx_bssap_le, smlc_loc_req_start, Held
<1>2. CASE msg.type \in {"ta_response", "bsslap_reset"}
  <2>1. h2 = RxTaReport(h, c, msg.ci, failing)
    BY <1>2 DEF smlc_loc_req_rx_bssap_le, Held
  <2>2. msg.ci \in Cis
    BY <1>2 DEF Message, PerformLocReq, TaReport, PlainMessage
  <2>3. AskedCell(h, c, msg) = update_ci(h.conn[c].smlc_loc_req.latest_cell_id, msg.ci)
    BY <1>2 DEF AskedCell
  <2> QED
    BY <2>1, <2>2, <2>3, RxTaReportOutcome
<1>3. CASE msg.type = "perform_loc_abort"
  <2> DEFINE g == smlc_loc_req_fsm_cleanup(h, c)
  <2>1. h2 = g
    BY <1>3 DEF smlc_loc_req_rx_bssap_le, Held
  <2>2. Core(g) /\ OnlyConn(h, g, c) /\ Ended(g, c, 0) /\ g.sent = h.sent
    BY CleanupOutcome
  <2> HIDE DEF g
  <2> QED
    BY <1>3, <2>1, <2>2 DEF Silent
<1>4. CASE msg.type \in {"bsslap_abort", "bsslap_reject"}
  <2>1. h2 = smlc_loc_req_fail(h, c, "REQUEST_ABORTED", failing)
    BY <1>4 DEF smlc_loc_req_rx_bssap_le, Held
  <2>2. "REQUEST_ABORTED" \in LcsCauses
    BY DEF LcsCauses
  <2> QED
    BY <2>1, <2>2, FailOutcome
<1>5. msg.type \in {"unsupported", "perform_loc_req", "ta_response", "bsslap_reset",
                    "perform_loc_abort", "bsslap_abort", "bsslap_reject"}
  BY DEF Message, PerformLocReq, TaReport, PlainMessage
<1> QED
  BY <1>1, <1>2, <1>3, <1>4, <1>5

\* Timer T-12.
LEMMA TimerOutcome ==
  ASSUME NEW h, NEW c \in ConnIds, Core(h), Held(h, c, 0, "WAIT_TA"), NEW failing, NEW cell_id
  PROVE  Ending(h, smlc_loc_req_fsm_timer_cb(h, c, failing), c, 0, failing, cell_id)
<1>1. "SYSTEM_FAILURE" \in LcsCauses
  BY DEF LcsCauses
<1> QED
  BY <1>1, FailOutcome DEF smlc_loc_req_fsm_timer_cb

\* An outcome in the terms of the invariant.
LEMMA IsOutcome ==
  ASSUME NEW h, NEW h2, NEW c \in ConnIds, NEW n, Open(h, c)
  PROVE  /\ \A s : Waiting(h, h2, c, n, s) => Outcome(h, h2, c, n)
         /\ \A failing, cell_id : Ending(h, h2, c, n, failing, cell_id) => Outcome(h, h2, c, n)
         /\ Silent(h, h2, c, n) => Outcome(h, h2, c, n)
<1>1. ASSUME NEW s, Waiting(h, h2, c, n, s)
      PROVE  Outcome(h, h2, c, n)
  BY <1>1 DEF Waiting, Outcome
<1>2. Silent(h, h2, c, n) => Outcome(h, h2, c, n)
  BY DEF Silent, Outcome, Open
<1>3. ASSUME NEW cell_id, Answering(h, h2, c, n, cell_id)
      PROVE  Outcome(h, h2, c, n)
  <2>1. PICK r \in ResponsesFor(cell_id) : h2.sent[c] = Append(h.sent[c], r)
    BY <1>3 DEF Answering
  <2>2. r \in Responses
    BY PduTypes DEF ResponsesFor
  <2>3. Done(h2, c)
    BY <2>1, <2>2 DEF Done, Open
  <2> QED
    BY <1>3, <2>3 DEF Answering, Outcome
<1> QED
  BY <1>1, <1>2, <1>3 DEF Ending
============================================================================
