--------------------------- MODULE OsmoSmlcProofs ---------------------------
(***************************************************************************)
(* Theorems about the OsmoSMLC process, for every number of BSCs, SCCP      *)
(* connections, subscribers and cells, and for every set of outages.        *)
(***************************************************************************)
EXTENDS OsmoSmlc, LbPeerProofs

\* What is true of the heap between two handlers.
HeapInv == HeapOK(g_smlc) \/ Failed(g_smlc)

Inv == HeapInv /\ Cells!TypeOK

----------------------------------------------------------------------------
(* The cell location database.                                             *)

\* The process runs the database's commands and nothing else changes it.
LEMMA CellsStep == [Next]_vars => [Cells!Next]_(Cells!cellVars)
  BY DEF Next, vars, cellVars, Cells!cellVars, Cells!Next, Handle, N_CONNECT, N_CONNECT_Empty, N_DATA, N_DISCONNECT,
         N_UNITDATA, TimeoutT12, T12Runs, TimeoutT13, T13Runs, Vty, Restart

\* The process implements the cell location database: the commands of the VTY
\* and the reading of the configuration file at every start reach the list only
\* as module CellLocations says, whatever the BSCs send (smlc_data.h:14).
THEOREM DatabaseRefinement == Spec => Cells!Spec
<1>1. Init => Cells!Init
  BY DEF Init
<1> QED
  BY <1>1, CellsStep, PTL DEF Spec, Cells!Spec

\* The list that the requests are answered from is well formed.
LEMMA CellsTyped == Spec => []Cells!TypeOK
<1>1. CP!NoPartAssumption
  BY DataAssumption DEF CP!NoPartAssumption
<1>2. CP!Spec => []CP!TypeOK
  BY <1>1, CP!TypeCorrect
<1>3. Cells!Init => CP!Init
  BY DEF Cells!Init, CP!Init
<1>4. [Cells!Next]_(Cells!cellVars) => [CP!Next]_(CP!cellVars)
  <2>2. ASSUME NEW cell_id, NEW list
        PROVE  Cells!cell_location_find(list, cell_id) = CP!cell_location_find(list, cell_id)
    BY Zenon DEF Cells!cell_location_find, CP!cell_location_find, Cells!MatchingIn, CP!MatchingIn,
           Cells!First, CP!First, Cells!gsm0808_cell_ids_match, CP!gsm0808_cell_ids_match,
           Cells!Agree, CP!Agree, Cells!Common, CP!Common
  <2>3. Cells!ConfigId = CP!ConfigId /\ Cells!LacCi = CP!LacCi /\ Cells!Cgi = CP!Cgi
    BY DEF Cells!ConfigId, CP!ConfigId, Cells!LacCi, CP!LacCi, Cells!Cgi, CP!Cgi
  <2>4. ASSUME NEW cell_id, NEW lat_lon, Cells!SetLocation(cell_id, lat_lon)
        PROVE  CP!SetLocation(cell_id, lat_lon)
    BY <2>2, <2>4, Zenon DEF Cells!SetLocation, CP!SetLocation, Cells!cell_location_set, CP!cell_location_set
  <2>5. ASSUME NEW cell_id, Cells!RemoveLocation(cell_id)
        PROVE  CP!RemoveLocation(cell_id)
    BY <2>2, <2>5, Zenon DEF Cells!RemoveLocation, CP!RemoveLocation, Cells!cell_location_remove, CP!cell_location_remove,
           Cells!RemoveAt, CP!RemoveAt
  <2>6. Cells!Vty => CP!Vty
    BY <2>3, <2>4, <2>5 DEF Cells!Vty, CP!Vty, Cells!cfg_cells_lac_ci, CP!cfg_cells_lac_ci,
           Cells!cfg_cells_cgi, CP!cfg_cells_cgi, Cells!cfg_cells_no_lac_ci, CP!cfg_cells_no_lac_ci,
           Cells!cfg_cells_no_cgi, CP!cfg_cells_no_cgi, Cells!config_write_cells, CP!config_write_cells
  <2>7. Cells!ReadFile => CP!ReadFile
    BY <2>2, Zenon DEF Cells!ReadFile, CP!ReadFile, Cells!ReadLine, CP!ReadLine, Cells!ReadEnd, CP!ReadEnd,
           Cells!cell_location_set, CP!cell_location_set
  <2>8. Cells!Restart => CP!Restart
    BY DEF Cells!Restart, CP!Restart
  <2> QED
    BY <2>6, <2>7, <2>8 DEF Cells!Next, CP!Next, Cells!cellVars, CP!cellVars
<1>5. CP!TypeOK => Cells!TypeOK
  BY DEF CP!TypeOK, Cells!TypeOK, CP!CellLocation, Cells!CellLocation, CP!ConfigId, Cells!ConfigId,
         CP!LacCi, Cells!LacCi, CP!Cgi, Cells!Cgi
<1> QED
  BY <1>2, <1>3, <1>4, <1>5, DatabaseRefinement, PTL DEF Cells!Spec, CP!Spec

----------------------------------------------------------------------------
(* The heap.                                                               *)

\* A process that has just been started.
LEMMA EmptyHeapOK == HeapOK(EmptyHeap)
<1> DEFINE h == EmptyHeap
<1>1. /\ h.conn = [c \in ConnIds |-> NULL] /\ h.subscr = [s \in Imsis |-> NULL]
      /\ h.sccp = [c \in ConnIds |-> NULL] /\ h.sent = [c \in ConnIds |-> <<>>]
      /\ h.ahead = {} /\ h.fault = {}
      /\ h \in Heap
  BY DEF EmptyHeap, Heap
<1> HIDE DEF h
<1>2. ListExact(h)
  BY <1>1 DEF ListExact
<1>3. SubscrExact(h)
  BY <1>1 DEF SubscrExact, UsedBy, Users
<1>4. ASSUME NEW c \in ConnIds
      PROVE  Attached(h, c) /\ Quiet(h, c) /\ SentOK(h, c)
  BY <1>1 DEF Attached, Quiet, SentOK, Open, Asked
<1>5. HeapOK(h)
  BY <1>1, <1>2, <1>3, <1>4 DEF HeapOK, Core
<1> QED
  BY <1>5 DEF h

\* A handler starts from a heap that is in order.
LEMMA BeforeOK ==
  ASSUME HeapOK(g_smlc)
  PROVE  /\ HeapOK(Before)
         /\ Before.lb_peers = g_smlc.lb_peers /\ Before.conn = g_smlc.conn
         /\ Before.sccp = g_smlc.sccp /\ Before.sent = g_smlc.sent
<1> DEFINE g == Before
<1>1. g_smlc \in Heap
  BY DEF HeapOK, Core
<1>2. /\ g \in Heap
      /\ g.conn = g_smlc.conn /\ g.ahead = g_smlc.ahead /\ g.subscr = g_smlc.subscr /\ g.fault = g_smlc.fault
      /\ g.lb_peers = g_smlc.lb_peers /\ g.sccp = g_smlc.sccp /\ g.sent = g_smlc.sent
  BY <1>1 DEF Before, Heap
<1> HIDE DEF g
<1>3. ASSUME NEW c \in ConnIds
      PROVE  Attached(g, c) /\ SentOK(g, c)
  <2>1. Attached(g_smlc, c) /\ SentOK(g_smlc, c)
    BY DEF HeapOK, Core
  <2> QED
    BY <1>2, <2>1 DEF Attached, SentOK, Open, Done
<1>4. HeapOK(g)
  BY <1>2, <1>3, SameObjects
<1> QED
  BY <1>2, <1>4 DEF g

\* The SCCP provider has opened connection c, and no object has its id.
LEMMA OpenedOK ==
  ASSUME NEW h, HeapOK(h), NEW c \in ConnIds, NEW p \in Peers, h.conn[c] = NULL
  PROVE  LET g == Opened(h, c, p)
         IN  HeapOK(g) /\ g.conn = h.conn /\ g.sccp[c] = p /\ g.sent[c] = <<>>
<1> DEFINE g == Opened(h, c, p)
           sccp == [h.sccp EXCEPT ![c] = p]
           sent == [h.sent EXCEPT ![c] = <<>>]
<1>1. h \in Heap
  BY DEF HeapOK, Core
<1>2. /\ sccp \in [ConnIds -> Peers \cup {NULL}] /\ sccp[c] = p
      /\ sent \in [ConnIds -> Seq(Pdu)] /\ sent[c] = <<>>
      /\ \A d \in ConnIds \ {c} : sccp[d] = h.sccp[d] /\ sent[d] = h.sent[d]
  BY <1>1, HeapFields
<1>3. g = [h EXCEPT !.sccp = sccp, !.sent = sent]
  BY <1>1 DEF Heap, Opened
<1> HIDE DEF g, sccp, sent
<1>4. /\ g \in Heap /\ g.sccp = sccp /\ g.sent = sent
      /\ g.conn = h.conn /\ g.ahead = h.ahead /\ g.subscr = h.subscr /\ g.fault = h.fault
      /\ g.lb_peers = h.lb_peers
  BY <1>1, <1>2, <1>3 DEF Heap
<1>5. ASSUME NEW d \in ConnIds
      PROVE  Attached(g, d) /\ SentOK(g, d)
  <2>1. Attached(h, d) /\ SentOK(h, d)
    BY DEF HeapOK, Core
  <2>2. CASE d = c
    BY <1>2, <1>4, <2>2 DEF Attached, SentOK, Open, Asked
  <2>3. CASE d # c
    BY <1>2, <1>4, <2>1, <2>3 DEF Attached, SentOK, Open, Done
  <2> QED
    BY <2>2, <2>3
<1>6. HeapOK(g)
  BY <1>4, <1>5, SameObjects
<1> QED
  BY <1>2, <1>4, <1>6 DEF g

\* The SCCP provider has opened connection c while an object still has its id:
\* the connection is refused, and nothing is sent on it.
LEMMA RefusedOK ==
  ASSUME NEW h, HeapOK(h), NEW c \in ConnIds, NEW p \in Peers, h.conn[c] # NULL
  PROVE  HeapOK(sccp_lb_disconnect(Opened(h, c, p), c))
<1> DEFINE sccp == [h.sccp EXCEPT ![c] = NULL]
           sent == [h.sent EXCEPT ![c] = <<>>]
           g == sccp_lb_disconnect(Opened(h, c, p), c)
<1>1. h \in Heap
  BY DEF HeapOK, Core
<1>2. /\ sccp \in [ConnIds -> Peers \cup {NULL}] /\ sccp[c] = NULL
      /\ sent \in [ConnIds -> Seq(Pdu)] /\ sent[c] = <<>>
      /\ \A d \in ConnIds \ {c} : sccp[d] = h.sccp[d] /\ sent[d] = h.sent[d]
  BY <1>1, HeapFields
<1>3. g = [h EXCEPT !.sccp = sccp, !.sent = sent]
  <2>1. [[h.sccp EXCEPT ![c] = p] EXCEPT ![c] = NULL] = sccp
    BY <1>1, HeapFields
  <2> QED
    BY <1>1, <2>1 DEF Heap, Opened, sccp_lb_disconnect
<1> HIDE DEF g, sccp, sent
<1>4. /\ g \in Heap /\ g.sccp = sccp /\ g.sent = sent
      /\ g.conn = h.conn /\ g.ahead = h.ahead /\ g.subscr = h.subscr /\ g.fault = h.fault
      /\ g.lb_peers = h.lb_peers
  BY <1>1, <1>2, <1>3 DEF Heap
<1>5. ASSUME NEW d \in ConnIds
      PROVE  Attached(g, d) /\ SentOK(g, d)
  <2>1. Attached(h, d) /\ SentOK(h, d)
    BY DEF HeapOK, Core
  <2>2. CASE d = c
    BY <1>2, <1>4, <2>1, <2>2 DEF Attached, SentOK, Open, Asked
  <2>3. CASE d # c
    BY <1>2, <1>4, <2>1, <2>3 DEF Attached, SentOK, Open, Done
  <2> QED
    BY <2>2, <2>3
<1>6. HeapOK(g)
  BY <1>4, <1>5, SameObjects
<1> QED
  BY <1>6 DEF g

----------------------------------------------------------------------------
(* Every action keeps the heap in order, or the process fails.             *)

\* A connection is opened or refused.
LEMMA StepConnect ==
  ASSUME HeapInv, CellsOK,
         NEW c \in ConnIds, NEW p \in Peers, NEW msg \in Message, NEW failing \in Outages,
         N_CONNECT(c, p, msg, failing)
  PROVE  HeapInv'
<1> DEFINE h == Opened(Before, c, p)
           g == UpCoInitial(h, p, c, msg, failing)
<1>1. HeapOK(g_smlc) /\ g_smlc' = g
  BY DEF N_CONNECT, Running, HeapInv, Failed, Handle, Opened
<1>2. HeapOK(Before)
  BY <1>1, BeforeOK
<1>3. Before.conn[c] = NULL => HeapOK(g) \/ Failed(g)
  <2> SUFFICES ASSUME Before.conn[c] = NULL
               PROVE  HeapOK(g) \/ Failed(g)
    OBVIOUS
  <2>1. HeapOK(h) /\ h.conn[c] = NULL /\ h.sccp[c] = p /\ h.sent[c] = <<>>
    BY <1>2, OpenedOK
  <2> HIDE DEF h
  <2> QED
    BY <2>1, InitialOK
<1>4. Before.conn[c] # NULL => HeapOK(g)
  <2> SUFFICES ASSUME Before.conn[c] # NULL
               PROVE  HeapOK(g)
    OBVIOUS
  <2>1. h.conn = Before.conn
    BY <1>2 DEF Opened, HeapOK, Core, Heap
  <2>2. g = sccp_lb_disconnect(h, c)
    BY <2>1 DEF UpCoInitial, lb_conns
  <2>3. HeapOK(sccp_lb_disconnect(h, c))
    BY <1>2, RefusedOK
  <2> QED
    BY <2>2, <2>3
<1> HIDE DEF g
<1> QED
  BY <1>1, <1>3, <1>4 DEF HeapInv

\* A message on a connection.
LEMMA StepData ==
  ASSUME HeapInv, CellsOK,
         NEW c \in ConnIds, NEW msg \in Message, NEW failing \in Outages,
         N_DATA(c, msg, failing)
  PROVE  HeapInv'
<1>1. HeapOK(g_smlc) /\ g_smlc' = UpCo(Before, c, msg, failing)
  BY DEF N_DATA, Running, HeapInv, Failed, Handle
<1>2. HeapOK(UpCo(Before, c, msg, failing))
  BY <1>1, BeforeOK, FurtherOK
<1> QED
  BY <1>1, <1>2 DEF HeapInv

\* A connection is closed by the BSC.
LEMMA StepDisconnect ==
  ASSUME HeapInv, CellsOK,
         NEW c \in ConnIds, NEW msg \in Message \cup {NULL}, NEW failing \in Outages,
         N_DISCONNECT(c, msg, failing)
  PROVE  HeapInv'
<1> DEFINE gone == sccp_lb_disconnect(Before, c)
           received == IF msg = NULL THEN gone ELSE UpCo(gone, c, msg, failing)
<1>1. HeapOK(g_smlc) /\ g_smlc' = sccp_lb_disconnect(received, c)
  BY DEF N_DISCONNECT, Running, HeapInv, Failed, Handle, sccp_lb_disconnect
<1>2. HeapOK(gone)
  BY <1>1, BeforeOK, Disconnect
<1> HIDE DEF gone
<1>3. HeapOK(received)
  BY <1>2, FurtherOK
<1> HIDE DEF received
<1>4. HeapOK(sccp_lb_disconnect(received, c))
  BY <1>3, Disconnect
<1> QED
  BY <1>1, <1>4 DEF HeapInv

\* A connectionless message.
LEMMA StepUnitdata ==
  ASSUME HeapInv,
         NEW p \in Peers, NEW type \in {"RESET", "RESET_ACK", "unsupported"}, NEW failing \in Outages,
         N_UNITDATA(p, type, failing)
  PROVE  HeapInv'
<1> DEFINE g == UpCl(Before, p, type, failing)
<1>1. HeapOK(g_smlc) /\ g_smlc' = g
  BY DEF N_UNITDATA, Running, HeapInv, Failed, Handle
<1>2. HeapOK(g) \/ Failed(g)
  BY <1>1, BeforeOK, ConnectionlessOK
<1> HIDE DEF g
<1> QED
  BY <1>1, <1>2 DEF HeapInv

\* The timer of a request expires.
LEMMA StepT12 ==
  ASSUME HeapInv, NEW c \in ConnIds, NEW failing \in Outages, TimeoutT12(c, failing)
  PROVE  HeapInv'
<1> DEFINE g == smlc_loc_req_fsm_timer_cb(Before, c, failing)
<1>1. HeapOK(g_smlc) /\ g_smlc' = g /\ g_smlc.conn[c] # NULL
  BY DEF TimeoutT12, T12Runs, Pending, lb_conns, Running, HeapInv, Failed, Handle
<1>2. HeapOK(Before) /\ Before.conn[c] # NULL
  BY <1>1, BeforeOK
<1>3. Core(Before) /\ Held(Before, c, 0, "WAIT_TA") /\ Open(Before, c)
  BY <1>2 DEF HeapOK, Quiet, SentOK
<1>4. Ending(Before, g, c, 0, failing, Before.conn[c].smlc_loc_req.latest_cell_id)
  BY <1>3, TimerOutcome
<1> HIDE DEF g
<1>5. HeapOK(g)
  BY <1>2, <1>3, <1>4, ConnOK
<1> QED
  BY <1>1, <1>5 DEF HeapInv

\* The timer of a RESET expires.
LEMMA StepT13 ==
  ASSUME HeapInv, NEW p \in Peers, TimeoutT13(p)
  PROVE  HeapInv'
<1>1. /\ HeapOK(g_smlc) /\ g_smlc.lb_peers[p] = "WAIT_RX_RESET_ACK"
      /\ g_smlc' = lb_peer_state_chg(Before, p, "WAIT_RX_RESET")
  BY DEF TimeoutT13, T13Runs, Running, HeapInv, Failed, Handle
<1>2. HeapOK(Before) /\ Before.lb_peers[p] # "READY"
  BY <1>1, BeforeOK
<1>3. "WAIT_RX_RESET" \in PeerStates
  BY DEF PeerStates
<1>4. HeapOK(lb_peer_state_chg(Before, p, "WAIT_RX_RESET"))
  BY <1>2, <1>3, StateChange
<1> QED
  BY <1>1, <1>4 DEF HeapInv

\* Every action, and every step of the database.
LEMMA StepInv == Inv /\ [Next]_vars => HeapInv'
<1> SUFFICES ASSUME Inv, [Next]_vars
             PROVE  HeapInv'
  OBVIOUS
<1>1. HeapInv /\ CellsOK
  BY DEF Inv, Cells!TypeOK, CellsOK
<1>2. ASSUME NEW c \in ConnIds, NEW failing \in Outages, NEW p \in Peers, NEW msg \in Message,
             N_CONNECT(c, p, msg, failing)
      PROVE  HeapInv'
  BY <1>1, <1>2, StepConnect
<1>3. ASSUME NEW c \in ConnIds, NEW failing \in Outages, NEW msg \in Message,
             N_DATA(c, msg, failing)
      PROVE  HeapInv'
  BY <1>1, <1>3, StepData
<1>4. ASSUME NEW c \in ConnIds, NEW failing \in Outages, NEW msg \in Message \cup {NULL},
             N_DISCONNECT(c, msg, failing)
      PROVE  HeapInv'
  BY <1>1, <1>4, StepDisconnect
<1>5. ASSUME NEW c \in ConnIds, NEW failing \in Outages, TimeoutT12(c, failing)
      PROVE  HeapInv'
  BY <1>1, <1>5, StepT12
<1>6. ASSUME NEW p \in Peers, NEW failing \in Outages, NEW type \in {"RESET", "RESET_ACK", "unsupported"},
             N_UNITDATA(p, type, failing)
      PROVE  HeapInv'
  BY <1>1, <1>6, StepUnitdata
<1>7. ASSUME NEW p \in Peers, TimeoutT13(p)
      PROVE  HeapInv'
  BY <1>1, <1>7, StepT13
<1>8. CASE Vty
  BY <1>1, <1>8 DEF Vty, HeapInv
<1>9. CASE Restart
  <2>1. g_smlc' = EmptyHeap
    BY <1>9 DEF Restart
  <2> QED
    BY <2>1, EmptyHeapOK DEF HeapInv
<1>10. CASE N_CONNECT_Empty
  <2>1. HeapOK(g_smlc) /\ g_smlc' = Before
    BY <1>1, <1>10 DEF N_CONNECT_Empty, Running, HeapInv, Failed, Handle
  <2> QED
    BY <2>1, BeforeOK DEF HeapInv
<1>11. CASE UNCHANGED vars
  BY <1>1, <1>11 DEF vars, HeapInv
<1> QED
  BY <1>2, <1>3, <1>4, <1>5, <1>6, <1>7, <1>8, <1>9, <1>10, <1>11 DEF Next

\* The heap is in order between two handlers until the process fails in one of
\* the two ways that RequestlessIsSurvived and MessagesAreFreedOnce are about.
THEOREM HeapInOrder == Spec => []Inv
<1>1. Init => HeapInv
  BY EmptyHeapOK DEF Init, HeapInv
<1>2. HeapInv /\ Cells!TypeOK /\ [Next]_vars => HeapInv'
  BY StepInv DEF Inv
<1>3. Spec => []HeapInv
  BY <1>1, <1>2, CellsTyped, PTL DEF Spec
<1> QED
  BY <1>3, CellsTyped, PTL DEF Inv

----------------------------------------------------------------------------
(* What follows for the properties that module OsmoSmlc states.            *)

\* The heap and the database hold well-formed objects only.
THEOREM TypeCorrect == Spec => []TypeOK
<1>1. Inv => TypeOK
  BY DEF Inv, HeapInv, HeapOK, Core, Failed, TypeOK
<1> QED
  BY <1>1, HeapInOrder, PTL

\* No handler leaves a use count behind or takes the last one away too early: a
\* connection is held by its pending request alone, whatever fails meanwhile.
THEOREM ConnsAreHeld == Spec => []HeldByRequest
<1>1. Inv => HeldByRequest
  <2> SUFFICES ASSUME Inv, g_smlc.fault = {}, NEW c \in Alive
               PROVE  /\ ~g_smlc.conn[c].closing
                      /\ g_smlc.conn[c].smlc_loc_req # NULL
                      /\ g_smlc.conn[c].smlc_loc_req.state = "WAIT_TA"
                      /\ g_smlc.conn[c].use_count = [t \in ConnTokens |-> IF t = "smlc_loc_req" THEN 1 ELSE 0]
    BY DEF HeldByRequest
  <2>1. HeapOK(g_smlc) /\ c \in ConnIds /\ g_smlc.conn[c] # NULL
    BY DEF Inv, HeapInv, Failed, Alive, lb_conns
  <2>2. Attached(g_smlc, c) /\ Held(g_smlc, c, 0, "WAIT_TA")
    BY <2>1 DEF HeapOK, Core, Quiet
  <2>3. ConnUse(0, 1) = [t \in ConnTokens |-> IF t = "smlc_loc_req" THEN 1 ELSE 0]
    BY DEF ConnUse, ConnTokens
  <2> QED
    BY <2>1, <2>2, <2>3 DEF Attached, Held
<1> QED
  BY <1>1, HeapInOrder, PTL

\* A peer never leaves READY with a connection that it still serves.
THEOREM ConnsAreServed == Spec => []OnlyReadyPeersHaveConns
<1>1. Inv => OnlyReadyPeersHaveConns
  <2> SUFFICES ASSUME Inv, g_smlc.fault = {}, NEW c \in Alive
               PROVE  /\ g_smlc.conn[c].lb_peer # NULL
                      /\ g_smlc.lb_peers[g_smlc.conn[c].lb_peer] = "READY"
    BY DEF OnlyReadyPeersHaveConns
  <2>1. HeapOK(g_smlc) /\ c \in ConnIds /\ g_smlc.conn[c] # NULL
    BY DEF Inv, HeapInv, Failed, Alive, lb_conns
  <2>2. Attached(g_smlc, c)
    BY <2>1 DEF HeapOK, Core
  <2> QED
    BY <2>1, <2>2, DataAssumption DEF Attached
<1> QED
  BY <1>1, HeapInOrder, PTL

\* An SCCP connection id that is handed out again never joins one BSC's
\* connection to another BSC's request.
THEOREM PeersAgree == Spec => []SamePeerOnBothSides
<1>1. Inv => SamePeerOnBothSides
  <2> SUFFICES ASSUME Inv, g_smlc.fault = {}, NEW c \in Alive
               PROVE  g_smlc.sccp[c] \in {NULL, g_smlc.conn[c].lb_peer}
    BY DEF SamePeerOnBothSides
  <2>1. HeapOK(g_smlc) /\ c \in ConnIds /\ g_smlc.conn[c] # NULL
    BY DEF Inv, HeapInv, Failed, Alive, lb_conns
  <2>2. Attached(g_smlc, c)
    BY <2>1 DEF HeapOK, Core
  <2> QED
    BY <2>1, <2>2 DEF Attached
<1> QED
  BY <1>1, HeapInOrder, PTL

\* Every subscriber is freed with its last connection and not before.
THEOREM SubscrUseExact == Spec => []SubscrUseIsExact
<1>1. Inv => SubscrUseIsExact
  <2> SUFFICES ASSUME Inv, g_smlc.fault = {}, NEW s \in Imsis
               PROVE  LET users == {c \in Alive : g_smlc.conn[c].smlc_subscr = s}
                      IN  IF users = {} THEN g_smlc.subscr[s] = NULL
                          ELSE /\ s \in subscribers(g_smlc)
                               /\ g_smlc.subscr[s]["Lb-conn"] = Cardinality(users)
                               /\ g_smlc.subscr[s]["smlc_loc_req_start"] = 0
    BY DEF SubscrUseIsExact
  <2> DEFINE users == Users(g_smlc, s)
             n == Cardinality(users)
  <2>1. {c \in Alive : g_smlc.conn[c].smlc_subscr = s} = users
    BY DEF Alive, lb_conns, Users
  <2>2. g_smlc.subscr[s] = UsedBy(users)
    BY DEF Inv, HeapInv, Failed, HeapOK, Core, SubscrExact
  <2>3. n \in Int /\ 0 \in Int
    BY UsersFinite
  <2> HIDE DEF users, n
  <2>4. /\ SubscrUse(n, 0) # NULL
        /\ SubscrUse(n, 0)["Lb-conn"] = n
        /\ SubscrUse(n, 0)["smlc_loc_req_start"] = 0
    BY <2>3, SubscrUseValue, Zenon
  <2>5. UsedBy(users) = IF users = {} THEN NULL ELSE SubscrUse(n, 0)
    BY DEF UsedBy, n
  <2> QED
    BY <2>1, <2>2, <2>4, <2>5 DEF subscribers, n
<1> QED
  BY <1>1, HeapInOrder, PTL

\* No handler uses a freed object or takes a use count below zero.
THEOREM NoUseFault == Spec => []NoUseCountFault
<1>1. Inv => NoUseCountFault
  BY DEF Inv, HeapInv, HeapOK, Core, Failed, NoUseCountFault
<1> QED
  BY <1>1, HeapInOrder, PTL

\* A set with at most one element has at most one.
LEMMA AtMostOne ==
  ASSUME NEW S, NEW x, S \subseteq {x}
  PROVE  Cardinality(S) <= 1
<1>1. S = {} \/ S = {x}
  OBVIOUS
<1>2. Cardinality({}) = 0 /\ Cardinality({x}) = 1
  BY FS_EmptySet, FS_Singleton
<1> QED
  BY <1>1, <1>2

\* The TA Request is at place 1 and the response at the last place.
LEMMA SentPlaces ==
  ASSUME NEW h \in Heap, NEW c \in ConnIds, SentOK(h, c)
  PROVE  LET sent == h.sent[c]
             responses == {i \in DOMAIN sent : IsResponse(sent[i])}
         IN  /\ responses \subseteq {Len(sent)}
             /\ DOMAIN sent \ responses \subseteq {1}
             /\ responses # {} => h.sccp[c] = NULL /\ h.conn[c] = NULL
<1> DEFINE sent == h.sent[c]
           responses == {i \in DOMAIN sent : IsResponse(sent[i])}
<1>1. ~IsResponse(TaRequest)
  BY DEF IsResponse, TaRequest
<1>2. CASE Open(h, c)
  <2>1. \A i \in DOMAIN sent : i = 1 /\ sent[i] = TaRequest
    BY <1>2 DEF Open, Asked
  <2> HIDE DEF sent
  <2>2. responses = {} /\ DOMAIN sent \subseteq {1}
    BY <1>1, <2>1
  <2> QED
    BY <2>2 DEF sent
<1>3. CASE Done(h, c) /\ h.conn[c] = NULL /\ h.sccp[c] = NULL
  <2>1. PICK asked \in Asked, r \in Responses : sent = Append(asked, r)
    BY <1>3 DEF Done
  <2>2. CASE asked = <<>>
    <3>1. sent = <<r>> /\ Len(sent) = 1 /\ DOMAIN sent = {1}
      BY <2>1, <2>2
    <3> QED
      BY <1>3, <3>1
  <2>3. CASE asked = <<TaRequest>>
    <3>1. /\ Len(sent) = 2 /\ DOMAIN sent = {1, 2}
          /\ sent[1] = TaRequest /\ sent[2] = r
      BY <2>1, <2>3
    <3>2. IsResponse(r)
      BY DEF Responses
    <3> HIDE DEF sent
    <3> QED
      BY <1>1, <1>3, <3>1, <3>2 DEF sent
  <2> QED
    BY <2>2, <2>3 DEF Asked
<1> QED
  BY <1>2, <1>3 DEF SentOK

\* Whatever the BSC sends, and whatever fails, it gets one TA Request and one
\* response at most on a connection, and the response ends the connection.
THEOREM ResponseEndsConn == Spec => []AnsweredOnce
<1>1. Inv => AnsweredOnce
  <2> SUFFICES ASSUME Inv, NEW c \in ConnIds
               PROVE  LET sent == g_smlc.sent[c]
                          responses == {i \in DOMAIN sent : IsResponse(sent[i])}
                      IN  /\ Cardinality(responses) <= 1
                          /\ Cardinality(DOMAIN sent \ responses) <= 1
                          /\ responses # {} => /\ IsResponse(sent[Len(sent)])
                                               /\ g_smlc.sccp[c] = NULL
                                               /\ c \notin Alive
    BY DEF AnsweredOnce
  <2> DEFINE sent == g_smlc.sent[c]
             responses == {i \in DOMAIN sent : IsResponse(sent[i])}
  <2>1. g_smlc \in Heap /\ SentOK(g_smlc, c)
    BY DEF Inv, HeapInv, HeapOK, Core, Failed
  <2>2. /\ responses \subseteq {Len(sent)}
        /\ DOMAIN sent \ responses \subseteq {1}
        /\ responses # {} => g_smlc.sccp[c] = NULL /\ g_smlc.conn[c] = NULL
    BY <2>1, SentPlaces
  <2>3. Cardinality(responses) <= 1 /\ Cardinality(DOMAIN sent \ responses) <= 1
    BY <2>2, AtMostOne
  <2>4. responses # {} => IsResponse(sent[Len(sent)])
    BY <2>2
  <2> QED
    BY <2>2, <2>3, <2>4 DEF Alive, lb_conns
<1> QED
  BY <1>1, HeapInOrder, PTL
\* Discarding the connections of a peer one after the other does what the models
\* of the RESET procedure take it to do in one step (lb_peer.c:91-98).
THEOREM DiscardIsTheLoop == Spec => []DiscardAllIsTheLoop
<1>1. Inv => DiscardAllIsTheLoop
  <2> SUFFICES ASSUME Inv, g_smlc.fault = {}, NEW p \in Peers
               PROVE  DiscardLoop(g_smlc, p) = lb_peer_discard_all_conns(g_smlc, p)
    BY DEF DiscardAllIsTheLoop
  <2>1. HeapOK(g_smlc)
    BY DEF Inv, HeapInv, Failed
  <2>2. Loopable(g_smlc)
    BY <2>1 DEF HeapOK, Core, Attached, Loopable
  <2> QED
    BY <2>2, LoopIsDiscardAll
<1> QED
  BY <1>1, HeapInOrder, PTL

----------------------------------------------------------------------------
(* Liveness.                                                               *)

\* While the configuration file is read, nothing is allocated yet.
Starting == line # 0 => g_smlc = EmptyHeap

LEMMA NothingYet == Spec => []Starting
<1>1. Init => Starting
  BY DEF Init, Starting
<1>2. Starting /\ [Next]_vars => Starting'
  <2> SUFFICES ASSUME Starting, [Next]_vars
               PROVE  Starting'
    OBVIOUS
  <2>1. CASE Restart
    BY <2>1 DEF Restart, Starting
  <2>2. CASE Vty
    BY <2>2 DEF Vty, Starting, Cells!Vty, Cells!cfg_cells_lac_ci, Cells!cfg_cells_cgi, Cells!cfg_cells_no_lac_ci,
           Cells!cfg_cells_no_cgi, Cells!config_write_cells, Cells!SetLocation, Cells!RemoveLocation,
           Cells!ReadFile, Cells!ReadLine, Cells!ReadEnd
  <2>3. CASE UNCHANGED vars
    BY <2>3 DEF vars, Starting
  <2>4. CASE Running /\ UNCHANGED cellVars
    BY <2>4 DEF Running, cellVars, Starting
  <2> QED
    BY <2>1, <2>2, <2>3, <2>4
       DEF Next, Handle, N_CONNECT, N_CONNECT_Empty, N_DATA, N_DISCONNECT, N_UNITDATA,
           TimeoutT12, T12Runs, TimeoutT13, T13Runs
<1> QED
  BY <1>1, <1>2, PTL DEF Spec

\* What T-12 does is never nothing: it takes away the connection of the request.
LEMMA T12Ends ==
  ASSUME HeapInv, NEW c \in ConnIds, T12Runs(c), NEW failing \in Outages
  PROVE  smlc_loc_req_fsm_timer_cb(Before, c, failing).conn[c] = NULL
<1> DEFINE g == smlc_loc_req_fsm_timer_cb(Before, c, failing)
<1>1. HeapOK(g_smlc) /\ g_smlc.conn[c] # NULL
  BY DEF T12Runs, Pending, lb_conns, Running, HeapInv, Failed
<1>2. HeapOK(Before) /\ Before.conn[c] # NULL
  BY <1>1, BeforeOK
<1>3. Core(Before) /\ Held(Before, c, 0, "WAIT_TA") /\ Open(Before, c)
  BY <1>2 DEF HeapOK, Quiet, SentOK
<1>4. Ending(Before, g, c, 0, failing, Before.conn[c].smlc_loc_req.latest_cell_id)
  BY <1>3, TimerOutcome
<1> HIDE DEF g
<1>5. Outcome(Before, g, c, 0)
  BY <1>3, <1>4, IsOutcome
<1>6. Ended(g, c, 0)
  BY <1>4 DEF Ending, Answering, Silent
<1> QED
  BY <1>6 DEF Ended, g

\* A request that is pending in the main loop has its T-12 running, and T-12 can
\* expire: the fairness is about every request, and asks for nothing impossible.
LEMMA PendingRunsT12 ==
  ASSUME HeapInv, Starting, NEW c \in ConnIds, Pending(c), g_smlc.fault = {}
  PROVE  T12CanExpire(c)
<1>1. HeapOK(g_smlc) /\ g_smlc.conn[c] # NULL
  BY DEF Pending, lb_conns, HeapInv, Failed
<1>2. Quiet(g_smlc, c)
  BY <1>1 DEF HeapOK
<1>3. g_smlc.conn[c].smlc_loc_req.state = "WAIT_TA"
  BY <1>1, <1>2 DEF Quiet, Held
<1>4. line = 0
  BY <1>1 DEF Starting, EmptyHeap
<1>5. T12Runs(c)
  BY <1>3, <1>4 DEF T12Runs, Running
<1>6. PICK failing \in Outages : TRUE
  BY DataAssumption
<1>7. smlc_loc_req_fsm_timer_cb(Before, c, failing).conn[c] = NULL
  BY <1>5, T12Ends
<1> QED
  BY <1>1, <1>5, <1>7 DEF T12CanExpire

\* A process that has failed does nothing any more until it is started again.
LEMMA FailedRests == g_smlc.fault # {} /\ [Next]_vars => g_smlc' = g_smlc \/ g_smlc' = EmptyHeap
<1> SUFFICES ASSUME g_smlc.fault # {}, [Next]_vars
             PROVE  g_smlc' = g_smlc \/ g_smlc' = EmptyHeap
  OBVIOUS
<1>1. CASE Restart
  BY <1>1 DEF Restart
<1>2. CASE Vty \/ UNCHANGED vars
  BY <1>2 DEF Vty, vars
<1>3. ~Running
  BY DEF Running
<1> QED
  BY <1>1, <1>2, <1>3 DEF Next, N_CONNECT, N_CONNECT_Empty, N_DATA, N_DISCONNECT, N_UNITDATA,
                          TimeoutT12, T12Runs, TimeoutT13, T13Runs

\* Every request ends, for any number of BSCs, connections and outages: when the
\* process fails it loses the request with everything else, and when it does not
\* the request has its T-12 (smlc_loc_req.c:101-107, 382-383).
THEOREM EveryRequestEnds == FairSpec => RequestsEnd
<1> SUFFICES ASSUME NEW c \in ConnIds
             PROVE  FairSpec => (Pending(c) ~> ~Pending(c))
  BY DEF RequestsEnd
<1> DEFINE T12 == T12Expires(c)
           alive == g_smlc.fault = {}
<1>1. Fairness => \/ []<>~T12CanExpire(c)
                  \/ []<><<T12>>_vars
  BY DEF Fairness
<1>2. Fairness => []<>alive
  BY DEF Fairness
<1>3. Inv /\ Starting /\ alive /\ Pending(c) => T12CanExpire(c)
  BY PendingRunsT12 DEF Inv
<1>4. Inv /\ <<T12>>_vars => ~Pending(c)'
  <2> SUFFICES ASSUME Inv, NEW failing \in Outages, TimeoutT12(c, failing)
               PROVE  ~Pending(c)'
    BY DEF T12Expires
  <2>1. T12Runs(c) /\ g_smlc' = smlc_loc_req_fsm_timer_cb(Before, c, failing)
    BY DEF TimeoutT12, Handle
  <2>2. g_smlc'.conn[c] = NULL
    BY <2>1, T12Ends DEF Inv
  <2> QED
    BY <2>2 DEF Pending, lb_conns
<1>5. Pending(c) /\ ~alive /\ [Next]_vars => ~alive' \/ ~Pending(c)'
  <2> SUFFICES ASSUME Pending(c), ~alive, [Next]_vars
               PROVE  ~alive' \/ ~Pending(c)'
    OBVIOUS
  <2>1. CASE g_smlc' = g_smlc
    BY <2>1
  <2>2. CASE g_smlc' = EmptyHeap
    BY <2>2 DEF EmptyHeap, Pending, lb_conns
  <2> QED
    BY <2>1, <2>2, FailedRests
<1> HIDE DEF T12, alive
<1> QED
  BY <1>1, <1>2, <1>3, <1>4, <1>5, HeapInOrder, NothingYet, PTL DEF FairSpec, Spec

\* A RESET that the BSC does not acknowledge is given up, unless the BSC opens one
\* connection after the other meanwhile (lb_peer.c:205-260, 332-337).
THEOREM EveryResetEnds == FairSpec => ResetGivesUp
<1> SUFFICES ASSUME NEW p \in Peers
             PROVE  FairSpec =>
                      (<>[][~CoFrom(p)]_vars =>
                         (g_smlc.lb_peers[p] = "WAIT_RX_RESET_ACK" ~> g_smlc.lb_peers[p] # "WAIT_RX_RESET_ACK"))
  BY DEF ResetGivesUp
<1> DEFINE W == g_smlc.lb_peers[p] = "WAIT_RX_RESET_ACK"
           T13 == TimeoutT13(p)
           Co == CoFrom(p)
           alive == g_smlc.fault = {}
<1>1. Fairness => []<>~T13Runs(p) \/ []<><<T13 \/ Co>>_vars
  BY DEF Fairness
<1>2. Fairness => []<>alive
  BY DEF Fairness
<1>3. EmptyHeap.lb_peers[p] # "WAIT_RX_RESET_ACK"
  <2>1. EmptyHeap.lb_peers[p] = NULL
    BY DEF EmptyHeap
  <2> QED
    BY <2>1, DataAssumption DEF PeerStates
<1>4. Starting /\ alive /\ W => T13Runs(p)
  BY <1>3 DEF Starting, T13Runs, Running
<1>5. Inv /\ T13 => ~W'
  <2> SUFFICES ASSUME Inv, T13
               PROVE  ~W'
    OBVIOUS
  <2>1. HeapOK(g_smlc) /\ g_smlc' = lb_peer_state_chg(Before, p, "WAIT_RX_RESET")
    BY DEF TimeoutT13, T13Runs, Running, Inv, HeapInv, Failed, Handle
  <2>2. Before \in Heap
    BY <2>1, BeforeOK DEF HeapOK, Core
  <2>3. g_smlc'.lb_peers[p] = "WAIT_RX_RESET"
    BY <2>1, <2>2, HeapFields DEF lb_peer_state_chg, Heap
  <2> QED
    BY <2>3
<1>6. W /\ ~alive /\ [Next]_vars => ~alive' \/ ~W'
  <2> SUFFICES ASSUME W, ~alive, [Next]_vars
               PROVE  ~alive' \/ ~W'
    OBVIOUS
  <2>1. CASE g_smlc' = g_smlc
    BY <2>1
  <2>2. CASE g_smlc' = EmptyHeap
    BY <1>3, <2>2
  <2> QED
    BY <2>1, <2>2, FailedRests
<1>7. g_smlc.lb_peers[p] # "WAIT_RX_RESET_ACK" <=> ~W
  OBVIOUS
<1> QED
  BY <1>1, <1>2, <1>4, <1>5, <1>6, <1>7, HeapInOrder, NothingYet, PTL DEF FairSpec, Spec
============================================================================
