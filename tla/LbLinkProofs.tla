---------------------------- MODULE LbLinkProofs ----------------------------
(***************************************************************************)
(* What the BSC and the OsmoSMLC process know of each other's connections,  *)
(* for every number of connections, subscribers and cells, whatever is lost *)
(* or overtaken between them, and whatever fails in the process.            *)
(***************************************************************************)
EXTENDS LbLink, LcsServiceProofs

\* The process behaves on the link as module OsmoSmlc says.
LEMMA LinkStep == [LinkNext]_linkVars => [Next]_vars
<1> SUFFICES ASSUME [LinkNext]_linkVars
             PROVE  [Next]_vars
  OBVIOUS
<1>1. Bsc \in Peers /\ BscConns \subseteq ConnIds
  BY LinkAssumption
<1>2. PerformLocReq \subseteq Message /\ TaReport \cup PlainMessage \subseteq Message
  BY DEF Message
<1>3. ASSUME NEW c \in BscConns, SmlcConnect(c)
      PROVE  Next
  BY <1>1, <1>2, <1>3 DEF SmlcConnect, Next
<1>4. ASSUME NEW c \in BscConns, SmlcData(c)
      PROVE  Next
  BY <1>1, <1>2, <1>4 DEF SmlcData, Next
<1>5. ASSUME NEW c \in BscConns, SmlcDisconnect(c) \/ SmlcT12(c)
      PROVE  Next
  BY <1>1, <1>5 DEF SmlcDisconnect, SmlcT12, Next
<1>6. ASSUME NEW type \in Kinds, SmlcUnitdata(type)
      PROVE  Next
  BY <1>1, <1>6 DEF SmlcUnitdata, Kinds, Next
<1>7. SmlcT13 \/ SmlcVty \/ SmlcRestart => Next
  BY <1>1 DEF SmlcT13, SmlcVty, SmlcRestart, Next
<1>8. OtherBscs => Next
  BY DEF OtherBscs, Next
<1>9. BscStart \/ BscSendsReset \/ BscRxReset \/ BscRxResetAck \/ Loss => UNCHANGED vars
  BY DEF BscStart, BscSendsReset, BscRxReset, BscRxResetAck, Loss
<1>10. ASSUME NEW c \in BscConns, BscOpens(c) \/ BscGivesUp(c) \/ BscSeesRelease(c)
      PROVE  UNCHANGED vars
  BY <1>10 DEF BscOpens, BscGivesUp, BscSeesRelease
<1> QED
  BY <1>3, <1>4, <1>5, <1>6, <1>7, <1>8, <1>9, <1>10 DEF LinkNext, linkVars

\* What is true of the process alone is true of it on the link.
LEMMA LinkedProcess == LinkSpec => Spec
<1>1. LinkInit => Init
  BY DEF LinkInit
<1> QED
  BY <1>1, LinkStep, PTL DEF LinkSpec, Spec

LEMMA LinkedInv == LinkSpec => []Inv
  BY LinkedProcess, HeapInOrder, PTL

----------------------------------------------------------------------------
(* What the handlers do that the link runs.                                *)

\* The request of connection c, in heap h.
Asking(h, c) == h.conn[c] # NULL /\ h.conn[c].smlc_loc_req # NULL

\* A Perform Location Request opens a connection.
LEMMA ConnectStep ==
  ASSUME HeapOK(g_smlc), CellsOK, NEW c \in ConnIds, NEW p \in Peers, NEW msg \in PerformLocReq,
         NEW failing, N_CONNECT(c, p, msg, failing)
  PROVE  /\ Others(g_smlc, g_smlc', c)
         /\ g_smlc'.lb_peers[p] = "READY" <=> g_smlc.lb_peers[p] = "READY"
         /\ g_smlc'.lb_peers[p] = "READY" /\ g_smlc'.fault = {} /\ g_smlc'.sccp[c] # NULL => Asking(g_smlc', c)
         /\ Asking(g_smlc', c) /\ g_smlc'.sccp[c] # NULL => g_smlc'.conn[c].smlc_subscr = msg.imsi
<1> DEFINE o == Opened(Before, c, p)
           g == g_smlc'
<1>1. /\ HeapOK(Before) /\ Before \in Heap
      /\ Before.conn = g_smlc.conn /\ Before.sccp = g_smlc.sccp /\ Before.sent = g_smlc.sent
      /\ Before.lb_peers = g_smlc.lb_peers
  BY BeforeOK DEF HeapOK, Core
<1>2. /\ o \in Heap /\ o.lb_peers = g_smlc.lb_peers
      /\ o.conn = g_smlc.conn /\ o.sccp[c] = p /\ o.sent[c] = <<>>
      /\ Others(g_smlc, o, c)
  BY <1>1, OpenedFields DEF Others, SameConn
<1>3. g = UpCoInitial(o, p, c, msg, failing) /\ msg \in Message
  BY DEF N_CONNECT, Handle, Message
<1>4. g_smlc.conn[c] = NULL => HeapOK(o)
  BY <1>1, OpenedOK
<1> HIDE DEF o, g
<1>5. CASE g_smlc.conn[c] # NULL
  <2>1. g = sccp_lb_disconnect(o, c)
    BY <1>2, <1>3, <1>5 DEF UpCoInitial, lb_conns
  <2>2. Others(g_smlc, g, c) /\ g.lb_peers = g_smlc.lb_peers /\ g.sccp[c] = NULL
    BY <1>2, <2>1, DisconnectFields DEF Others, SameConn
  <2> QED
    BY <2>2 DEF g
<1>6. CASE g_smlc.conn[c] = NULL
  <2>1. \/ o.lb_peers[p] = "READY" /\ Began(o, g, c, msg, failing)
        \/ o.lb_peers[p] # "READY" /\ Turned(o, g, p, c)
    BY <1>2, <1>3, <1>4, <1>6, InitialOK
  <2>2. CASE Began(o, g, c, msg, failing)
    <3>1. OnlyConn(o, g, c)
      BY <2>2 DEF Began, Waiting, Ending, Answering, Silent
    <3>2. Others(g_smlc, g, c) /\ g.lb_peers = g_smlc.lb_peers
      BY <1>2, <3>1 DEF OnlyConn, Others, SameConn
    <3>3. \/ Asking(g, c) /\ g.conn[c].smlc_subscr = msg.imsi
          \/ g.conn[c] = NULL /\ g.sccp[c] = NULL
          \/ g.fault # {} /\ ~Asking(g, c)
      BY <2>2 DEF Began, Waiting, Ending, Answering, Silent, Held, Ended, Failed, Asking
    <3> QED
      BY <3>2, <3>3 DEF g, Asking
  <2>3. CASE o.lb_peers[p] # "READY" /\ Turned(o, g, p, c)
    <3>1. Others(g_smlc, g, c) /\ g.lb_peers[p] # "READY" /\ g.conn[c] = NULL
      BY <1>2, <1>6, <2>3 DEF Turned, Others, SameConn
    <3> QED
      BY <1>2, <2>3, <3>1 DEF g, Asking
  <2> QED
    BY <2>1, <2>2, <2>3
<1> QED
  BY <1>5, <1>6

\* A RESET, a RESET ACKNOWLEDGE or T-13.  Without a RESET procedure with the peer
\* no peer becomes READY and no connection goes.
LEMMA UnitdataStep ==
  ASSUME HeapOK(g_smlc), NEW p \in Peers, NEW failing, NEW type \in Kinds, N_UNITDATA(p, type, failing)
  PROVE  /\ g_smlc'.sccp = g_smlc.sccp
         /\ \A c \in ConnIds : g_smlc'.conn[c] \in {g_smlc.conn[c], NULL}
         /\ \/ type = "RESET"
            \/ type = "RESET_ACK" /\ g_smlc.lb_peers[p] = "WAIT_RX_RESET_ACK"
            \/ /\ g_smlc'.conn = g_smlc.conn
               /\ g_smlc'.lb_peers[p] = "READY" => g_smlc.lb_peers[p] = "READY"
         /\ type = "RESET_ACK" =>
              (g_smlc'.lb_peers[p] = "READY" <=> g_smlc.lb_peers[p] \in {"READY", "WAIT_RX_RESET_ACK"})
<1> DEFINE g == g_smlc'
<1>1. /\ HeapOK(Before) /\ Before \in Heap
      /\ Before.conn = g_smlc.conn /\ Before.sccp = g_smlc.sccp /\ Before.lb_peers = g_smlc.lb_peers
  BY BeforeOK DEF HeapOK, Core
<1>2. g = UpCl(Before, p, type, failing)
  BY DEF N_UNITDATA, Handle
<1> HIDE DEF g
<1>3. \/ Discarded(Before, g, p)
      \/ g.conn = Before.conn /\ g.sccp = Before.sccp
  BY <1>1, <1>2, ConnectionlessOK DEF Kinds
<1>4. g.sccp = g_smlc.sccp /\ \A c \in ConnIds : g.conn[c] \in {g_smlc.conn[c], NULL}
  BY <1>1, <1>3 DEF Discarded
<1>5. CASE type = "RESET_ACK" /\ g_smlc.lb_peers[p] # "WAIT_RX_RESET_ACK"
  <2> DEFINE known == lb_peer_find_or_create(Before, p)
  <2>1. known.lb_peers[p] \in {g_smlc.lb_peers[p], "WAIT_RX_RESET"}
    <3>1. lb_peer_state_chg(Before, p, "WAIT_RX_RESET").lb_peers[p] = "WAIT_RX_RESET"
      BY <1>1, PeerFields
    <3> QED
      BY <1>1, <3>1 DEF lb_peer_find_or_create, lb_peer_state_chg
  <2>2. known.conn = g_smlc.conn
    BY <1>1, FindOrCreate
  <2> HIDE DEF known
  <2>3. g = known
    BY <1>2, <1>5, <2>1 DEF UpCl, known
  <2>4. g_smlc.lb_peers[p] = "READY" => known = Before
    <3>1. NULL # "READY"
      BY DataAssumption DEF PeerStates
    <3> QED
      BY <1>1, <3>1 DEF known, lb_peer_find_or_create
  <2> QED
    BY <1>1, <1>4, <1>5, <2>1, <2>2, <2>3, <2>4 DEF g
<1>6. CASE type = "RESET_ACK" /\ g_smlc.lb_peers[p] = "WAIT_RX_RESET_ACK"
  <2>1. lb_peer_find_or_create(Before, p) = Before
    <3>1. NULL # "WAIT_RX_RESET_ACK"
      BY DataAssumption DEF PeerStates
    <3> QED
      BY <1>1, <1>6, <3>1 DEF lb_peer_find_or_create
  <2>2. g = lb_peer_state_chg(Before, p, "READY")
    BY <1>1, <1>2, <1>6, <2>1 DEF UpCl
  <2>3. g.lb_peers[p] = "READY"
    BY <1>1, <2>2, PeerFields
  <2> QED
    BY <1>4, <1>6, <2>3 DEF g
<1> QED
  BY <1>4, <1>5, <1>6 DEF g, Kinds

LEMMA T13Step ==
  ASSUME HeapOK(g_smlc), NEW p \in Peers, TimeoutT13(p)
  PROVE  /\ g_smlc'.conn = g_smlc.conn /\ g_smlc'.sccp = g_smlc.sccp
         /\ g_smlc'.lb_peers[p] # "READY"
<1>1. Before \in Heap /\ Before.conn = g_smlc.conn /\ Before.sccp = g_smlc.sccp
  BY BeforeOK DEF HeapOK, Core
<1> QED
  BY <1>1, PeerFields DEF TimeoutT13, T13Runs, Handle

----------------------------------------------------------------------------
(* What another BSC can change.                                            *)

\* What the program has under the ids of the BSC is the BSC's.
OwnIds == \A c \in BscConns : g_smlc.conn[c] # NULL => g_smlc.conn[c].lb_peer = Bsc

\* Whatever another BSC does, the program deals with this one as before.
LEMMA OthersStep ==
  ASSUME HeapOK(g_smlc), CellsOK, OwnIds, OtherBscs
  PROVE  /\ \A c \in BscConns : SameConn(g_smlc, g_smlc', c)
         /\ g_smlc'.lb_peers[Bsc] = g_smlc.lb_peers[Bsc]
         /\ to_bsc' = to_bsc
<1> DEFINE g == g_smlc'
           Apart == /\ \A c \in BscConns : SameConn(g_smlc, g, c)
                    /\ g.lb_peers[Bsc] = g_smlc.lb_peers[Bsc]
                    /\ \A m \in g.unitdata : m.to # Bsc
<1>1. /\ HeapOK(Before) /\ Before \in Heap /\ Before.unitdata = {}
      /\ Before.conn = g_smlc.conn /\ Before.sccp = g_smlc.sccp /\ Before.sent = g_smlc.sent
      /\ Before.lb_peers = g_smlc.lb_peers
  BY BeforeOK, BeforeSends
<1>2. Bsc \in Peers /\ BscConns \subseteq ConnIds
  BY LinkAssumption
<1>3. ASSUME NEW p \in Peers \ {Bsc}, OnlyPeer(Before, g, p)
      PROVE  g.lb_peers[Bsc] = g_smlc.lb_peers[Bsc] /\ \A m \in g.unitdata : m.to # Bsc
  BY <1>1, <1>2, <1>3 DEF OnlyPeer
<1>4. ASSUME NEW c \in ConnIds \ BscConns, Others(g_smlc, g, c)
      PROVE  \A d \in BscConns : SameConn(g_smlc, g, d)
  BY <1>2, <1>4 DEF Others
<1>5. ASSUME NEW c \in ConnIds \ BscConns, NEW failing \in Outages, NEW p \in Peers \ {Bsc},
             NEW msg \in Message, N_CONNECT(c, p, msg, failing)
      PROVE  Apart
  <2>1. Opens(g_smlc, g, c, p)
    BY <1>5, ConnectEffect DEF N_CONNECT, Handle
  <2>2. Others(g_smlc, g, c)
    BY <2>1 DEF Opens
  <2>3. OnlyPeer(Before, g, p)
    BY <1>5, ConnectOnlyPeer
  <2> QED
    BY <1>3, <1>4, <2>2, <2>3
<1>6. ASSUME NEW c \in ConnIds \ BscConns, NEW failing \in Outages,
             \/ \E msg \in Message : N_DATA(c, msg, failing)
             \/ \E msg \in Message \cup {NULL} : N_DISCONNECT(c, msg, failing)
             \/ TimeoutT12(c, failing)
      PROVE  Apart
  <2>1. Others(g_smlc, g, c) /\ g.lb_peers = g_smlc.lb_peers /\ g.unitdata = {}
    BY <1>6, ConnStep
  <2> QED
    BY <1>4, <2>1
<1>7. ASSUME NEW p \in Peers \ {Bsc}, NEW failing, NEW type \in {"RESET", "RESET_ACK", "unsupported"},
             N_UNITDATA(p, type, failing)
      PROVE  Apart
  <2>1. g = UpCl(Before, p, type, failing)
    BY <1>7 DEF N_UNITDATA, Handle
  <2>2. OnlyPeer(Before, g, p)
    BY <1>7, UnitdataOnlyPeer
  <2> HIDE DEF g
  <2>3. \/ Discarded(Before, g, p)
        \/ g.conn = Before.conn /\ g.sccp = Before.sccp /\ g.sent = Before.sent
    BY <1>1, <2>1, ConnectionlessOK
  <2>4. \A c \in BscConns : c \notin ConnsOf(Before, p)
    BY <1>1, <1>2 DEF OwnIds, HeapOK, Core, ConnsOf, lb_conns
  <2>5. \A c \in BscConns : SameConn(g_smlc, g, c)
    BY <1>1, <1>2, <2>3, <2>4 DEF Discarded, SameConn
  <2> QED
    BY <1>3, <2>2, <2>5 DEF g
<1>8. ASSUME NEW p \in Peers \ {Bsc}, TimeoutT13(p)
      PROVE  Apart
  <2>1. OnlyPeer(Before, g, p)
    BY <1>8, UnitdataOnlyPeer
  <2>2. g.conn = g_smlc.conn /\ g.sccp = g_smlc.sccp /\ g.sent = g_smlc.sent
    BY <1>1, <1>8, PeerFields DEF TimeoutT13, Handle
  <2> QED
    BY <1>3, <2>1, <2>2 DEF SameConn
<1>9. ASSUME N_CONNECT_Empty
      PROVE  Apart
  BY <1>1, <1>9 DEF N_CONNECT_Empty, Handle, SameConn
<1>10. Apart
  BY <1>5, <1>6, <1>7, <1>8, <1>9 DEF OtherBscs
<1> QED
  BY <1>10 DEF OtherBscs, Sends

\* The handlers run in the main loop, in order.
LEMMA HandlerRuns ==
  ASSUME Inv, NEW c, NEW type \in Kinds,
         SmlcConnect(c) \/ SmlcData(c) \/ SmlcDisconnect(c) \/ SmlcT12(c) \/ SmlcUnitdata(type) \/ SmlcT13
           \/ OtherBscs
  PROVE  HeapOK(g_smlc) /\ CellsOK /\ line = 0
<1>1. Running
  BY DEF SmlcConnect, SmlcData, SmlcDisconnect, SmlcT12, SmlcUnitdata, SmlcT13, OtherBscs,
         N_CONNECT, N_CONNECT_Empty, N_DATA, N_DISCONNECT, N_UNITDATA, TimeoutT12, T12Runs, TimeoutT13, T13Runs
<1> QED
  BY <1>1 DEF Running, Inv, HeapInv, Failed, Cells!TypeOK, CellsOK

LEMMA OwnStep == Inv /\ OwnIds /\ [LinkNext]_linkVars => OwnIds'
<1> SUFFICES ASSUME Inv, OwnIds, [LinkNext]_linkVars, NEW c \in BscConns, g_smlc'.conn[c] # NULL
             PROVE  g_smlc'.conn[c].lb_peer = Bsc
  BY DEF OwnIds
<1>1. Bsc \in Peers /\ BscConns \subseteq ConnIds
  BY LinkAssumption
<1>2. ASSUME g_smlc'.conn[c] = g_smlc.conn[c]
      PROVE  g_smlc'.conn[c].lb_peer = Bsc
  BY <1>2 DEF OwnIds
<1>3. CASE UNCHANGED g_smlc
  BY <1>2, <1>3
<1>4. ASSUME NEW d \in BscConns, SmlcConnect(d)
      PROVE  g_smlc'.conn[c].lb_peer = Bsc
  <2>1. HeapOK(g_smlc) /\ CellsOK
    BY <1>4, HandlerRuns DEF Kinds
  <2>2. PICK msg \in PerformLocReq, failing \in Outages : N_CONNECT(d, Bsc, msg, failing)
    BY <1>4 DEF SmlcConnect
  <2>3. Opens(g_smlc, g_smlc', d, Bsc)
    BY <1>1, <2>1, <2>2, ConnectEffect DEF N_CONNECT, Handle, Message
  <2> QED
    BY <1>1, <1>2, <2>3 DEF Opens, Others, SameConn
<1>5. ASSUME NEW d \in BscConns, SmlcData(d) \/ SmlcDisconnect(d) \/ SmlcT12(d)
      PROVE  g_smlc'.conn[c].lb_peer = Bsc
  <2>1. HeapOK(g_smlc) /\ CellsOK
    BY <1>5, HandlerRuns DEF Kinds
  <2>2. \E failing \in Outages :
          \/ \E msg \in Message : N_DATA(d, msg, failing)
          \/ \E msg \in Message \cup {NULL} : N_DISCONNECT(d, msg, failing)
          \/ TimeoutT12(d, failing)
    BY <1>5 DEF SmlcData, SmlcDisconnect, SmlcT12, Message
  <2>3. Others(g_smlc, g_smlc', d) /\ g_smlc'.conn[d] \in {g_smlc.conn[d], NULL}
    BY <1>1, <2>1, <2>2, ConnStep
  <2> QED
    BY <1>1, <1>2, <2>1, <2>3 DEF Others, SameConn
<1>6. ASSUME NEW type \in Kinds, SmlcUnitdata(type)
      PROVE  g_smlc'.conn[c].lb_peer = Bsc
  <2>1. HeapOK(g_smlc)
    BY <1>6, HandlerRuns
  <2>2. PICK failing \in Outages : N_UNITDATA(Bsc, type, failing)
    BY <1>6 DEF SmlcUnitdata
  <2>3. g_smlc'.conn[c] \in {g_smlc.conn[c], NULL}
    BY <1>1, <2>1, <2>2, UnitdataStep
  <2> QED
    BY <1>2, <2>1, <2>3
<1>7. CASE SmlcT13
  <2>1. HeapOK(g_smlc)
    BY <1>7, HandlerRuns DEF Kinds
  <2>2. g_smlc'.conn = g_smlc.conn
    BY <1>1, <1>7, <2>1, T13Step DEF SmlcT13
  <2> QED
    BY <1>2, <2>1, <2>2
<1>8. CASE OtherBscs
  <2>1. HeapOK(g_smlc) /\ CellsOK
    BY <1>8, HandlerRuns DEF Kinds
  <2>2. g_smlc'.conn[c] = g_smlc.conn[c]
    BY <1>8, <2>1, OthersStep DEF SameConn
  <2> QED
    BY <1>2, <2>1, <2>2
<1>9. CASE SmlcRestart
  BY <1>1, <1>9 DEF SmlcRestart, Restart, EmptyHeap
<1> QED
  BY <1>3, <1>4, <1>5, <1>6, <1>7, <1>8, <1>9
     DEF LinkNext, linkVars, vars, BscStart, BscSendsReset, BscRxReset, BscRxResetAck, BscOpens,
         BscGivesUp, BscSeesRelease, Loss, SmlcVty, Vty

LEMMA OwnInvariance == LinkSpec => []OwnIds
<1>1. LinkInit => OwnIds
  BY LinkAssumption DEF LinkInit, Init, EmptyHeap, OwnIds
<1> QED
  BY <1>1, OwnStep, LinkedInv, PTL DEF LinkSpec

----------------------------------------------------------------------------
(* The invariant of the link.                                              *)

\* A BSC that has not finished its RESET procedure has no connections; one whose
\* N-CONNECT is on its way cannot have been cut off by a restart; and a RESET
\* procedure stands between a restart and the next service.
BscOK ==
    /\ bsc = "resetting" => \A c \in BscConns : held[c] = "none"
    /\ \A c \in connecting : held[c] \in {"none", "open"}
    /\ \A c \in BscConns : held[c] = "half_open" => g_smlc.lb_peers[Bsc] # "READY"

LinkInv == LinkTypeOK /\ BscOK /\ BothKnowTheConns /\ ServedAsAsked

LEMMA LinkInitInv == LinkInit => LinkInv
<1> SUFFICES ASSUME LinkInit
             PROVE  LinkInv
  OBVIOUS
<1>1. g_smlc = EmptyHeap /\ held = Nothing /\ connecting = {}
  BY DEF LinkInit, Init
<1>2. LinkTypeOK
  BY DEF LinkInit, LinkTypeOK, Nothing, HeldStates
<1> QED
  BY <1>1, <1>2 DEF LinkInv, BscOK, BothKnowTheConns, Listening, ServedAsAsked, Nothing

\* The subscriber of a connection that the BSC holds is not forgotten.
LEMMA ForgetsFields ==
  ASSUME LinkTypeOK, Forgets
  PROVE  /\ asked' \in [BscConns -> Imsis \cup {NULL}]
         /\ \A c \in BscConns : held'[c] # "none" \/ c \in connecting' => asked'[c] = asked[c]
  BY DEF LinkTypeOK, Forgets

\* The BSC starts, resets, or hears of the other end's reset.
LEMMA BscResets ==
  ASSUME LinkInv, BscStart \/ BscSendsReset \/ BscRxReset \/ BscRxResetAck \/ Loss
  PROVE  LinkInv'
<1>1. UNCHANGED vars
  BY DEF BscStart, BscSendsReset, BscRxReset, BscRxResetAck, Loss
<1>2. CASE BscStart \/ BscRxReset
  <2>1. held' = Nothing /\ connecting' = connecting /\ Forgets
    BY <1>2 DEF BscStart, BscRxReset
  <2>2. LinkTypeOK'
    BY <1>2, <2>1, ForgetsFields DEF LinkInv, LinkTypeOK, BscStart, BscRxReset, Nothing, HeldStates, Kinds
  <2>3. \A c \in BscConns : held'[c] = "none"
    BY <2>1 DEF Nothing
  <2>4. BscOK'
    BY <2>2, <2>3 DEF BscOK, LinkTypeOK
  <2>5. BothKnowTheConns' /\ ServedAsAsked'
    BY <2>3 DEF BothKnowTheConns, Listening, ServedAsAsked
  <2> QED
    BY <2>2, <2>4, <2>5 DEF LinkInv
<1>3. CASE BscSendsReset \/ BscRxResetAck \/ Loss
  <2>1. UNCHANGED <<held, asked, connecting>> /\ bsc' \in {bsc, "ready"}
    BY <1>3 DEF BscSendsReset, BscRxResetAck, Loss, bscVars
  <2>2. LinkTypeOK'
    BY <1>3, <2>1 DEF LinkInv, LinkTypeOK, BscSendsReset, BscRxResetAck, Loss, Kinds, bscVars
  <2> QED
    BY <1>1, <2>1, <2>2 DEF LinkInv, BscOK, BothKnowTheConns, Listening, Pending, lb_conns, ServedAsAsked, vars
<1> QED
  BY <1>2, <1>3

\* The BSC opens a connection, or forgets one.
LEMMA BscOpensOrForgets ==
  ASSUME LinkInv, NEW c \in BscConns,
         BscOpens(c) \/ BscGivesUp(c) \/ BscSeesRelease(c)
  PROVE  LinkInv'
<1>1. UNCHANGED g_smlc
  BY DEF BscOpens, BscGivesUp, BscSeesRelease, vars
<1>2. CASE BscOpens(c)
  <2>1. LinkTypeOK'
    <3>1. PICK imsi \in Imsis : asked' = [asked EXCEPT ![c] = imsi]
      BY <1>2 DEF BscOpens
    <3> QED
      BY <1>2, <3>1 DEF LinkInv, LinkTypeOK, BscOpens, HeldStates
  <2>2. /\ held'[c] = "open" /\ c \in connecting' /\ g_smlc.sccp[c] = NULL
        /\ \A d \in BscConns \ {c} : held'[d] = held[d] /\ asked'[d] = asked[d] /\ (d \in connecting' <=> d \in connecting)
        /\ bsc' = "ready"
    BY <1>2 DEF LinkInv, LinkTypeOK, BscOpens, Free
  <2>3. BscOK'
    BY <1>1, <2>1, <2>2 DEF LinkInv, BscOK, LinkTypeOK
  <2>4. BothKnowTheConns' /\ ServedAsAsked'
    BY <1>1, <2>2 DEF LinkInv, BothKnowTheConns, Listening, Pending, lb_conns, ServedAsAsked
  <2> QED
    BY <2>1, <2>3, <2>4 DEF LinkInv
<1>3. CASE BscGivesUp(c) \/ BscSeesRelease(c)
  <2>1. /\ held' = [held EXCEPT ![c] = "none"] /\ UNCHANGED <<bsc, connecting, to_bsc, to_smlc>>
        /\ Forgets
    BY <1>3 DEF BscGivesUp, BscSeesRelease
  <2>2. LinkTypeOK'
    BY <2>1, ForgetsFields DEF LinkInv, LinkTypeOK, HeldStates
  <2>3. /\ held'[c] = "none"
        /\ \A d \in BscConns \ {c} : held'[d] = held[d]
        /\ \A d \in BscConns : held'[d] # "none" => asked'[d] = asked[d]
    BY <2>1, ForgetsFields DEF LinkInv, LinkTypeOK
  <2>4. BscOK'
    BY <1>1, <2>1, <2>2, <2>3 DEF LinkInv, BscOK, LinkTypeOK
  <2>5. BothKnowTheConns' /\ ServedAsAsked'
    BY <1>1, <2>1, <2>3 DEF LinkInv, BothKnowTheConns, Listening, Pending, lb_conns, ServedAsAsked
  <2> QED
    BY <2>2, <2>4, <2>5 DEF LinkInv
<1> QED
  BY <1>2, <1>3

\* What the program sends is of the two kinds.
LEMMA SendsKinds ==
  ASSUME LinkTypeOK, g_smlc' \in Heap, Sends
  PROVE  to_bsc' \in SUBSET Kinds
<1>1. g_smlc'.unitdata \in SUBSET Unitdata
  BY HeapFields
<1>2. \A m \in g_smlc'.unitdata : m.type \in Kinds
  BY <1>1 DEF Unitdata, Kinds
<1> QED
  BY <1>2 DEF Sends, LinkTypeOK

\* A handler that the program runs for connection c disturbs no other.
LEMMA OthersKeep ==
  ASSUME NEW c \in ConnIds, NEW d \in ConnIds \ {c}, Others(g_smlc, g_smlc', c)
  PROVE  Pending(d)' = Pending(d) /\ g_smlc'.sccp[d] = g_smlc.sccp[d] /\ g_smlc'.conn[d] = g_smlc.conn[d]
  BY DEF Others, SameConn, Pending, lb_conns

\* The program receives the N-CONNECT.
LEMMA ConnectKeeps ==
  ASSUME LinkInv, HeapOK(g_smlc), CellsOK, g_smlc' \in Heap, NEW c \in BscConns, SmlcConnect(c)
  PROVE  LinkInv'
<1>1. Bsc \in Peers /\ BscConns \subseteq ConnIds
  BY LinkAssumption
<1>2. PICK msg \in PerformLocReq, failing \in Outages : msg.imsi = asked[c] /\ N_CONNECT(c, Bsc, msg, failing)
  BY DEF SmlcConnect
<1>3. /\ Others(g_smlc, g_smlc', c)
      /\ g_smlc'.lb_peers[Bsc] = "READY" => g_smlc.lb_peers[Bsc] = "READY"
      /\ g_smlc'.lb_peers[Bsc] = "READY" /\ g_smlc'.fault = {} /\ g_smlc'.sccp[c] # NULL => Asking(g_smlc', c)
      /\ Asking(g_smlc', c) /\ g_smlc'.sccp[c] # NULL => g_smlc'.conn[c].smlc_subscr = msg.imsi
  BY <1>1, <1>2, ConnectStep
<1>4. /\ UNCHANGED <<bsc, held, to_smlc>> /\ Forgets /\ Sends
      /\ c \in connecting /\ connecting' = connecting \ {c}
  BY DEF SmlcConnect, Arriving
<1>5. LinkTypeOK'
  BY <1>4, ForgetsFields, SendsKinds DEF LinkInv, LinkTypeOK
<1>6. BscOK'
  BY <1>3, <1>4 DEF LinkInv, BscOK
<1>7. held[c] \in {"none", "open"} /\ g_smlc.fault = {}
  BY <1>4 DEF LinkInv, BscOK, HeapOK, Core
<1>8. \A d \in BscConns : held[d] # "none" => asked'[d] = asked[d]
  BY <1>4, ForgetsFields DEF LinkInv
<1>9. Pending(c)' = Asking(g_smlc', c)
  BY <1>1 DEF Pending, lb_conns, Asking
<1>10. BothKnowTheConns'
  <2> SUFFICES ASSUME g_smlc'.fault = {}, g_smlc'.lb_peers[Bsc] = "READY", NEW d \in BscConns, Listening(d)'
               PROVE  Pending(d)'
    BY DEF BothKnowTheConns
  <2>1. CASE d = c
    BY <1>3, <1>4, <1>7, <1>9, <2>1 DEF Listening
  <2>2. CASE d # c
    <3>1. Listening(d)
      BY <1>1, <1>3, <1>4, <2>2, OthersKeep DEF Listening
    <3> QED
      BY <1>1, <1>3, <1>7, <2>2, <3>1, OthersKeep DEF LinkInv, BothKnowTheConns
  <2> QED
    BY <2>1, <2>2
<1>11. ServedAsAsked'
  <2> SUFFICES ASSUME NEW d \in BscConns, held'[d] # "none", Pending(d)', g_smlc'.sccp[d] # NULL
               PROVE  g_smlc'.conn[d].smlc_subscr = asked'[d]
    BY DEF ServedAsAsked
  <2>1. CASE d = c
    BY <1>2, <1>3, <1>4, <1>8, <1>9, <2>1
  <2>2. CASE d # c
    BY <1>1, <1>3, <1>4, <1>8, <2>2, OthersKeep DEF LinkInv, ServedAsAsked
  <2> QED
    BY <2>1, <2>2
<1> QED
  BY <1>5, <1>6, <1>10, <1>11 DEF LinkInv

\* The program receives a message or the end of a connection, or T-12 expires.
LEMMA ConnKeeps ==
  ASSUME LinkInv, HeapOK(g_smlc), CellsOK, g_smlc' \in Heap, NEW c \in BscConns,
         SmlcData(c) \/ SmlcDisconnect(c) \/ SmlcT12(c)
  PROVE  LinkInv'
<1>1. BscConns \subseteq ConnIds
  BY LinkAssumption
<1>2. \E failing \in Outages :
        \/ \E msg \in Message : N_DATA(c, msg, failing)
        \/ \E msg \in Message \cup {NULL} : N_DISCONNECT(c, msg, failing)
        \/ TimeoutT12(c, failing)
  BY DEF SmlcData, SmlcDisconnect, SmlcT12, Message
<1>3. /\ Others(g_smlc, g_smlc', c)
      /\ g_smlc'.lb_peers = g_smlc.lb_peers
      /\ g_smlc'.sccp[c] = NULL \/ SameConn(g_smlc, g_smlc', c)
  BY <1>1, <1>2, ConnStep
<1>4. UNCHANGED <<bscVars, to_smlc>> /\ Sends
  BY DEF SmlcData, SmlcDisconnect, SmlcT12
<1>5. LinkTypeOK'
  BY <1>4, SendsKinds DEF LinkInv, LinkTypeOK, bscVars
<1>6. BscOK'
  BY <1>3, <1>4 DEF LinkInv, BscOK, bscVars
<1>7. g_smlc.fault = {}
  BY DEF HeapOK, Core
<1>8. SameConn(g_smlc, g_smlc', c) =>
        Pending(c)' = Pending(c) /\ g_smlc'.sccp[c] = g_smlc.sccp[c] /\ g_smlc'.conn[c] = g_smlc.conn[c]
  BY DEF SameConn, Pending, lb_conns
<1>9. BothKnowTheConns'
  <2> SUFFICES ASSUME g_smlc'.fault = {}, g_smlc'.lb_peers[Bsc] = "READY", NEW d \in BscConns, Listening(d)'
               PROVE  Pending(d)'
    BY DEF BothKnowTheConns
  <2>1. g_smlc.lb_peers[Bsc] = "READY" /\ held[d] = "open" /\ g_smlc'.sccp[d] # NULL
    BY <1>3, <1>4 DEF LinkInv, BscOK, Listening, bscVars
  <2>2. /\ Pending(d)' = Pending(d) /\ g_smlc'.sccp[d] = g_smlc.sccp[d]
    BY <1>1, <1>3, <1>8, <2>1, OthersKeep
  <2>3. Listening(d)
    BY <1>4, <2>1, <2>2 DEF Listening, bscVars
  <2> QED
    BY <1>7, <2>1, <2>2, <2>3 DEF LinkInv, BothKnowTheConns
<1>10. ServedAsAsked'
  <2> SUFFICES ASSUME NEW d \in BscConns, held'[d] # "none", Pending(d)', g_smlc'.sccp[d] # NULL
               PROVE  g_smlc'.conn[d].smlc_subscr = asked'[d]
    BY DEF ServedAsAsked
  <2>1. /\ Pending(d)' = Pending(d) /\ g_smlc'.sccp[d] = g_smlc.sccp[d]
        /\ g_smlc'.conn[d] = g_smlc.conn[d]
    BY <1>1, <1>3, <1>8, OthersKeep
  <2> QED
    BY <1>4, <2>1 DEF LinkInv, ServedAsAsked, bscVars
<1> QED
  BY <1>5, <1>6, <1>9, <1>10 DEF LinkInv

\* The program takes part in a RESET procedure.
LEMMA ResetKeeps ==
  ASSUME LinkInv, HeapOK(g_smlc), g_smlc' \in Heap, NEW type \in Kinds, SmlcUnitdata(type)
  PROVE  LinkInv'
<1>1. PICK failing \in Outages : N_UNITDATA(Bsc, type, failing)
  BY DEF SmlcUnitdata
<1>2. /\ g_smlc'.sccp = g_smlc.sccp
      /\ \A c \in BscConns : g_smlc'.conn[c] \in {g_smlc.conn[c], NULL}
      /\ \/ type = "RESET"
         \/ type = "RESET_ACK" /\ g_smlc.lb_peers[Bsc] = "WAIT_RX_RESET_ACK"
         \/ /\ g_smlc'.conn = g_smlc.conn
            /\ g_smlc'.lb_peers[Bsc] = "READY" => g_smlc.lb_peers[Bsc] = "READY"
  BY <1>1, LinkAssumption, UnitdataStep
<1>3. /\ UNCHANGED <<bsc, asked, connecting>> /\ Sends /\ to_smlc' = to_smlc \ {type}
      /\ held' = [c \in BscConns |-> IF Late(type) /\ Listening(c) THEN "overtaken" ELSE held[c]]
  BY DEF SmlcUnitdata
<1>4. \A c \in BscConns : held'[c] = IF Late(type) /\ Listening(c) THEN "overtaken" ELSE held[c]
  BY <1>3
<1>5. LinkTypeOK'
  <2>1. held' \in [BscConns -> HeldStates]
    BY <1>3 DEF LinkInv, LinkTypeOK, HeldStates
  <2> QED
    BY <1>3, <2>1, SendsKinds DEF LinkInv, LinkTypeOK, Kinds
<1>6. \A c \in BscConns : Listening(c)' => Listening(c) /\ held'[c] = held[c] /\ ~Late(type)
  BY <1>2, <1>3, <1>4 DEF Listening
<1>7. \/ \A c \in BscConns : ~Listening(c)'
      \/ /\ g_smlc'.conn = g_smlc.conn
         /\ g_smlc'.lb_peers[Bsc] = "READY" => g_smlc.lb_peers[Bsc] = "READY"
  <2>1. CASE type = "RESET" /\ bsc = "resetting"
    <3>1. \A c \in BscConns : ~Listening(c)
      BY <2>1 DEF LinkInv, BscOK, Listening
    <3> QED
      BY <1>6, <3>1
  <2>2. CASE type = "RESET" /\ bsc # "resetting"
    BY <1>6, <2>2 DEF LinkInv, LinkTypeOK, Late
  <2>3. CASE type = "RESET_ACK" /\ g_smlc.lb_peers[Bsc] = "WAIT_RX_RESET_ACK"
    BY <1>6, <2>3 DEF Late
  <2> QED
    BY <1>2, <2>1, <2>2, <2>3
<1>8. BscOK'
  <2>1. \A c \in BscConns : held[c] = "half_open" => Listening(c)
    BY DEF LinkInv, BscOK, Listening
  <2>2. \A c \in BscConns : held'[c] = "half_open" => Listening(c)' /\ held[c] = "half_open"
    BY <1>2, <1>3, <1>4, <2>1 DEF Listening
  <2>3. \A c \in BscConns : held'[c] = "half_open" => g_smlc'.lb_peers[Bsc] # "READY"
    BY <1>7, <2>2 DEF LinkInv, BscOK
  <2>4. \A c \in connecting : c \in BscConns /\ held'[c] = held[c]
    BY <1>4 DEF LinkInv, LinkTypeOK, Listening
  <2>5. bsc = "resetting" => \A c \in BscConns : held'[c] = "none"
    BY <1>4 DEF LinkInv, BscOK, Listening
  <2> QED
    BY <1>3, <2>3, <2>4, <2>5 DEF LinkInv, BscOK
<1>9. BothKnowTheConns'
  <2> SUFFICES ASSUME g_smlc'.fault = {}, g_smlc'.lb_peers[Bsc] = "READY", NEW d \in BscConns, Listening(d)'
               PROVE  Pending(d)'
    BY DEF BothKnowTheConns
  <2>1. g_smlc'.conn = g_smlc.conn /\ g_smlc.lb_peers[Bsc] = "READY" /\ Listening(d)
    BY <1>6, <1>7
  <2>2. g_smlc.fault = {}
    BY DEF HeapOK, Core
  <2>3. Pending(d)
    BY <2>1, <2>2 DEF LinkInv, BothKnowTheConns
  <2> QED
    BY <2>1, <2>3 DEF Pending, lb_conns
<1>10. ServedAsAsked'
  <2> SUFFICES ASSUME NEW d \in BscConns, held'[d] # "none", Pending(d)', g_smlc'.sccp[d] # NULL
               PROVE  g_smlc'.conn[d].smlc_subscr = asked'[d]
    BY DEF ServedAsAsked
  <2>1. g_smlc'.conn[d] = g_smlc.conn[d] /\ Pending(d)
    BY <1>2 DEF Pending, lb_conns
  <2>2. held[d] # "none"
    BY <1>4 DEF Listening
  <2> QED
    BY <1>2, <1>3, <2>1, <2>2 DEF LinkInv, ServedAsAsked
<1> QED
  BY <1>5, <1>8, <1>9, <1>10 DEF LinkInv

\* T-13 expires, the operator changes the list, or the program starts again.
LEMMA RestKeeps ==
  ASSUME LinkInv, HeapInv, g_smlc' \in Heap, SmlcT13 \/ SmlcVty \/ SmlcRestart
  PROVE  LinkInv'
<1>1. Bsc \in Peers /\ BscConns \subseteq ConnIds
  BY LinkAssumption
<1>2. CASE SmlcT13
  <2>1. HeapOK(g_smlc)
    BY <1>2 DEF SmlcT13, TimeoutT13, T13Runs, Running, HeapInv, Failed
  <2>2. /\ g_smlc'.conn = g_smlc.conn /\ g_smlc'.sccp = g_smlc.sccp
        /\ g_smlc'.lb_peers[Bsc] # "READY"
    BY <1>1, <1>2, <2>1, T13Step DEF SmlcT13
  <2>3. UNCHANGED <<bscVars, to_smlc>> /\ Sends
    BY <1>2 DEF SmlcT13
  <2>4. LinkTypeOK'
    BY <2>3, SendsKinds DEF LinkInv, LinkTypeOK, bscVars
  <2>5. BscOK' /\ BothKnowTheConns'
    BY <2>2, <2>3 DEF LinkInv, BscOK, BothKnowTheConns, bscVars
  <2>6. ServedAsAsked'
    BY <2>2, <2>3 DEF LinkInv, ServedAsAsked, Pending, lb_conns, bscVars
  <2> QED
    BY <2>4, <2>5, <2>6 DEF LinkInv
<1>3. CASE SmlcVty
  <2>1. UNCHANGED <<g_smlc, bsc, held, asked, connecting, to_bsc, to_smlc>>
    BY <1>3 DEF SmlcVty, Vty, bscVars
  <2> QED
    BY <2>1 DEF LinkInv, LinkTypeOK, BscOK, BothKnowTheConns, Listening, ServedAsAsked, Pending, lb_conns
<1>4. CASE SmlcRestart
  <2>1. /\ g_smlc' = EmptyHeap
        /\ UNCHANGED <<bsc, asked, connecting, to_bsc, to_smlc>>
        /\ held' = [c \in BscConns |-> IF held[c] = "open" /\ Listening(c) THEN "half_open" ELSE held[c]]
    BY <1>4 DEF SmlcRestart, Restart
  <2>2. /\ g_smlc'.lb_peers[Bsc] # "READY"
        /\ \A c \in BscConns : g_smlc'.conn[c] = NULL
    BY <1>1, <2>1, DataAssumption DEF EmptyHeap, PeerStates
  <2>3. \A c \in BscConns : held'[c] = IF held[c] = "open" /\ Listening(c) THEN "half_open" ELSE held[c]
    BY <2>1
  <2>4. LinkTypeOK'
    <3>1. held' \in [BscConns -> HeldStates]
      BY <2>1 DEF LinkInv, LinkTypeOK, HeldStates
    <3> QED
      BY <2>1, <3>1 DEF LinkInv, LinkTypeOK
  <2>5. BscOK'
    <3>1. \A c \in connecting : c \in BscConns /\ held'[c] = held[c]
      BY <2>3 DEF LinkInv, LinkTypeOK, Listening
    <3>2. bsc = "resetting" => \A c \in BscConns : held'[c] = "none"
      BY <2>3 DEF LinkInv, BscOK
    <3> QED
      BY <2>1, <2>2, <3>1, <3>2 DEF LinkInv, BscOK
  <2>6. BothKnowTheConns' /\ ServedAsAsked'
    BY <2>2 DEF BothKnowTheConns, ServedAsAsked, Pending, lb_conns
  <2> QED
    BY <2>4, <2>5, <2>6 DEF LinkInv
<1> QED
  BY <1>2, <1>3, <1>4

\* Another BSC does something.
LEMMA OtherBscsKeep ==
  ASSUME LinkInv, OwnIds, HeapOK(g_smlc), CellsOK, OtherBscs
  PROVE  LinkInv'
<1>1. /\ \A c \in BscConns : SameConn(g_smlc, g_smlc', c)
      /\ g_smlc'.lb_peers[Bsc] = g_smlc.lb_peers[Bsc]
      /\ to_bsc' = to_bsc
  BY OthersStep
<1>2. UNCHANGED <<bsc, held, asked, connecting, to_smlc>> /\ g_smlc.fault = {}
  BY DEF OtherBscs, bscVars, HeapOK, Core
<1>3. \A c \in BscConns : /\ Pending(c)' = Pending(c) /\ Listening(c)' = Listening(c)
                         /\ g_smlc'.conn[c] = g_smlc.conn[c] /\ g_smlc'.sccp[c] = g_smlc.sccp[c]
  <2> TAKE c \in BscConns
  <2>1. g_smlc'.conn[c] = g_smlc.conn[c] /\ g_smlc'.sccp[c] = g_smlc.sccp[c]
    BY <1>1 DEF SameConn
  <2>2. c \in ConnIds
    BY LinkAssumption
  <2>3. Pending(c)' = Pending(c)
    BY <2>1, <2>2 DEF Pending, lb_conns
  <2>4. Listening(c)' = Listening(c)
    BY <1>2, <2>1 DEF Listening
  <2> QED
    BY <2>1, <2>3, <2>4
<1>4. LinkTypeOK' /\ BscOK'
  BY <1>1, <1>2 DEF LinkInv, LinkTypeOK, BscOK
<1>5. BothKnowTheConns' /\ ServedAsAsked'
  BY <1>1, <1>2, <1>3 DEF LinkInv, BothKnowTheConns, ServedAsAsked
<1> QED
  BY <1>4, <1>5 DEF LinkInv

\* Every step of either end keeps the invariant.
LEMMA LinkInvStep ==
  ASSUME LinkInv, OwnIds, Inv, HeapInv', [LinkNext]_linkVars
  PROVE  LinkInv'
<1>1. HeapInv /\ CellsOK /\ g_smlc' \in Heap
  BY DEF Inv, HeapInv, HeapOK, Core, Failed, Cells!TypeOK, CellsOK
<1>2. ASSUME NEW c \in BscConns, SmlcConnect(c) \/ SmlcData(c) \/ SmlcDisconnect(c) \/ SmlcT12(c)
      PROVE  LinkInv'
  <2>1. HeapOK(g_smlc)
    BY <1>2, HandlerRuns DEF Kinds
  <2> QED
    BY <1>1, <1>2, <2>1, ConnectKeeps, ConnKeeps
<1>3. ASSUME NEW type \in Kinds, SmlcUnitdata(type)
      PROVE  LinkInv'
  <2>1. HeapOK(g_smlc)
    BY <1>3, HandlerRuns
  <2> QED
    BY <1>1, <1>3, <2>1, ResetKeeps
<1>4. CASE OtherBscs
  BY <1>4, HandlerRuns, OtherBscsKeep DEF Kinds
<1>5. CASE UNCHANGED linkVars
  <2>1. UNCHANGED <<g_smlc, bsc, held, asked, connecting, to_bsc, to_smlc>>
    BY <1>5 DEF linkVars, vars, bscVars
  <2> QED
    BY <2>1 DEF LinkInv, LinkTypeOK, BscOK, BothKnowTheConns, Listening, ServedAsAsked, Pending, lb_conns
<1> QED
  BY <1>1, <1>2, <1>3, <1>4, <1>5, BscResets, BscOpensOrForgets, RestKeeps DEF LinkNext

LEMMA LinkInvariance == LinkSpec => []LinkInv
<1>1. Inv => HeapInv
  BY DEF Inv
<1>2. LinkInv /\ OwnIds /\ Inv /\ HeapInv' /\ [LinkNext]_linkVars => LinkInv'
  BY LinkInvStep
<1> QED
  BY <1>1, <1>2, LinkInitInv, LinkedInv, OwnInvariance, PTL DEF LinkSpec

----------------------------------------------------------------------------

\* The BSC and what is on its way are well formed.
THEOREM LinkTyped == LinkSpec => []LinkTypeOK
<1>1. LinkInv => LinkTypeOK
  BY DEF LinkInv
<1> QED
  BY <1>1, LinkInvariance, PTL

\* A BSC never waits on a connection that a READY program knows nothing of, but
\* when a RESET procedure has overtaken it: whatever connections the program
\* drops or leaves open on its way to READY, its RESETs account for.
THEOREM BothKnow == LinkSpec => []BothKnowTheConns
<1>1. LinkInv => BothKnowTheConns
  BY DEF LinkInv
<1> QED
  BY <1>1, LinkInvariance, PTL

\* A connection that the BSC opens anew under an id that the program still has is
\* never served with the request of its predecessor.
THEOREM Served == LinkSpec => []ServedAsAsked
<1>1. LinkInv => ServedAsAsked
  BY DEF LinkInv
<1> QED
  BY <1>1, LinkInvariance, PTL
----------------------------------------------------------------------------
(* Liveness.  What a step does to a connection.                            *)

\* While the N-CONNECT is on its way the program does not have the connection.
Unopened == \A c \in connecting : g_smlc.sccp[c] = NULL

\* What is true between two steps.
LinkOK == LinkInv /\ OwnIds /\ Inv /\ Starting /\ Unopened

\* The BSC holds a connection until it gives up or sees the release, or a RESET
\* procedure or a restart comes in between.
LEMMA HeldStep ==
  ASSUME LinkInv, [LinkNext]_linkVars, NEW c \in BscConns
  PROVE  \/ held'[c] \in {held[c], "none"}
         \/ held[c] = "none" /\ BscOpens(c)
         \/ Listening(c) /\ held'[c] = "overtaken"
         \/ held[c] = "open" /\ Listening(c) /\ held'[c] = "half_open"
<1>1. held \in [BscConns -> HeldStates]
  BY DEF LinkInv, LinkTypeOK
<1>2. CASE BscStart \/ BscRxReset
  BY <1>2 DEF BscStart, BscRxReset, Nothing
<1>3. CASE BscSendsReset \/ BscRxResetAck \/ Loss \/ SmlcT13 \/ OtherBscs \/ SmlcVty \/ UNCHANGED linkVars
  BY <1>3 DEF BscSendsReset, BscRxResetAck, Loss, SmlcT13, OtherBscs, SmlcVty, linkVars, bscVars
<1>4. ASSUME NEW d \in BscConns, BscOpens(d)
      PROVE  held'[c] = held[c] \/ (held[c] = "none" /\ BscOpens(c))
  BY <1>1, <1>4 DEF BscOpens, Free
<1>5. ASSUME NEW d \in BscConns, BscGivesUp(d) \/ BscSeesRelease(d)
      PROVE  held'[c] \in {held[c], "none"}
  BY <1>1, <1>5 DEF BscGivesUp, BscSeesRelease
<1>6. ASSUME NEW d \in BscConns, SmlcConnect(d) \/ SmlcData(d) \/ SmlcDisconnect(d) \/ SmlcT12(d)
      PROVE  held' = held
  BY <1>6 DEF SmlcConnect, SmlcData, SmlcDisconnect, SmlcT12, bscVars
<1>7. ASSUME NEW type \in Kinds, SmlcUnitdata(type)
      PROVE  held'[c] = held[c] \/ (Listening(c) /\ held'[c] = "overtaken")
  BY <1>7 DEF SmlcUnitdata
<1>8. CASE SmlcRestart
  BY <1>8 DEF SmlcRestart
<1> QED
  BY <1>2, <1>3, <1>4, <1>5, <1>6, <1>7, <1>8 DEF LinkNext

\* An N-CONNECT is on its way from BscOpens to SmlcConnect.
LEMMA ConnectingStep ==
  ASSUME LinkInv, [LinkNext]_linkVars, NEW c \in BscConns
  PROVE  /\ c \in connecting' => c \in connecting \/ BscOpens(c)
         /\ c \in connecting => c \in connecting' \/ SmlcConnect(c)
<1>1. connecting \in SUBSET BscConns
  BY DEF LinkInv, LinkTypeOK
<1>2. ASSUME NEW d \in BscConns, BscOpens(d) \/ BscGivesUp(d) \/ BscSeesRelease(d) \/ SmlcConnect(d)
      PROVE  /\ c \in connecting' => c \in connecting \/ BscOpens(c)
             /\ c \in connecting => c \in connecting' \/ SmlcConnect(c)
  BY <1>2 DEF BscOpens, BscGivesUp, BscSeesRelease, SmlcConnect
<1>3. CASE UNCHANGED connecting
  BY <1>3
<1> QED
  BY <1>2, <1>3 DEF LinkNext, linkVars, bscVars, BscStart, BscSendsReset, BscRxReset, BscRxResetAck, Loss,
                    SmlcData, SmlcDisconnect, SmlcT12, SmlcUnitdata, SmlcT13, OtherBscs, SmlcVty, SmlcRestart

\* The program has a connection from SmlcConnect on.
LEMMA SccpStep ==
  ASSUME LinkInv, OwnIds, Inv, [LinkNext]_linkVars, NEW c \in BscConns
  PROVE  /\ g_smlc'.sccp[c] \in {g_smlc.sccp[c], NULL} \/ SmlcConnect(c)
         /\ g_smlc'.sccp[c] # NULL /\ Pending(c)' => Pending(c) \/ SmlcConnect(c)
<1>1. Bsc \in Peers /\ BscConns \subseteq ConnIds
  BY LinkAssumption
<1>2. CASE UNCHANGED g_smlc
  BY <1>2 DEF Pending, lb_conns
<1>3. ASSUME NEW d \in BscConns, SmlcConnect(d)
      PROVE  \/ SmlcConnect(c)
             \/ g_smlc'.sccp[c] = g_smlc.sccp[c] /\ (Pending(c)' => Pending(c))
  <2>1. HeapOK(g_smlc) /\ CellsOK
    BY <1>3, HandlerRuns DEF Kinds
  <2>2. PICK msg \in PerformLocReq, failing \in Outages : N_CONNECT(d, Bsc, msg, failing)
    BY <1>3 DEF SmlcConnect
  <2>3. Others(g_smlc, g_smlc', d)
    BY <1>1, <2>1, <2>2, ConnectStep
  <2> QED
    BY <1>1, <1>3, <2>3, OthersKeep
<1>4. ASSUME NEW d \in BscConns, SmlcData(d) \/ SmlcDisconnect(d) \/ SmlcT12(d)
      PROVE  /\ g_smlc'.sccp[c] \in {g_smlc.sccp[c], NULL}
             /\ g_smlc'.sccp[c] # NULL /\ Pending(c)' => Pending(c)
  <2>1. HeapOK(g_smlc) /\ CellsOK
    BY <1>4, HandlerRuns DEF Kinds
  <2>2. \E failing \in Outages :
          \/ \E msg \in Message : N_DATA(d, msg, failing)
          \/ \E msg \in Message \cup {NULL} : N_DISCONNECT(d, msg, failing)
          \/ TimeoutT12(d, failing)
    BY <1>4 DEF SmlcData, SmlcDisconnect, SmlcT12, Message
  <2>3. Others(g_smlc, g_smlc', d) /\ (g_smlc'.sccp[d] = NULL \/ SameConn(g_smlc, g_smlc', d))
    BY <1>1, <2>1, <2>2, ConnStep
  <2>4. CASE c = d
    BY <2>3, <2>4 DEF SameConn, Pending, lb_conns
  <2>5. CASE c # d
    BY <1>1, <2>3, <2>5, OthersKeep
  <2> QED
    BY <2>4, <2>5
<1>5. ASSUME NEW type \in Kinds, SmlcUnitdata(type)
      PROVE  g_smlc'.sccp[c] = g_smlc.sccp[c] /\ (Pending(c)' => Pending(c))
  <2>1. HeapOK(g_smlc)
    BY <1>5, HandlerRuns
  <2>2. PICK failing \in Outages : N_UNITDATA(Bsc, type, failing)
    BY <1>5 DEF SmlcUnitdata
  <2>3. g_smlc'.sccp = g_smlc.sccp /\ g_smlc'.conn[c] \in {g_smlc.conn[c], NULL}
    BY <1>1, <2>1, <2>2, UnitdataStep
  <2> QED
    BY <2>3 DEF Pending, lb_conns
<1>6. CASE SmlcT13
  <2>1. HeapOK(g_smlc)
    BY <1>6, HandlerRuns DEF Kinds
  <2>2. g_smlc'.conn = g_smlc.conn /\ g_smlc'.sccp = g_smlc.sccp
    BY <1>1, <1>6, <2>1, T13Step DEF SmlcT13
  <2> QED
    BY <2>2 DEF Pending, lb_conns
<1>7. CASE OtherBscs
  <2>1. HeapOK(g_smlc) /\ CellsOK
    BY <1>7, HandlerRuns DEF Kinds
  <2>2. g_smlc'.conn[c] = g_smlc.conn[c] /\ g_smlc'.sccp[c] = g_smlc.sccp[c]
    BY <1>7, <2>1, OthersStep DEF SameConn
  <2> QED
    BY <2>2 DEF Pending, lb_conns
<1>8. CASE SmlcRestart
  BY <1>1, <1>8 DEF SmlcRestart, Restart, EmptyHeap, Pending, lb_conns
<1> QED
  BY <1>2, <1>3, <1>4, <1>5, <1>6, <1>7, <1>8
     DEF LinkNext, linkVars, vars, bscVars, BscStart, BscSendsReset, BscRxReset, BscRxResetAck, BscOpens,
         BscGivesUp, BscSeesRelease, Loss, SmlcVty, Vty

LEMMA UnopenedInvariance == LinkSpec => []LinkOK
<1>1. LinkInit => Unopened
  BY DEF LinkInit, Unopened
<1>2. LinkInv /\ OwnIds /\ Inv /\ Unopened /\ [LinkNext]_linkVars => Unopened'
  <2> SUFFICES ASSUME LinkInv, OwnIds, Inv, Unopened, [LinkNext]_linkVars, NEW c \in connecting'
               PROVE  g_smlc'.sccp[c] = NULL
    BY DEF Unopened
  <2>1. c \in BscConns
    <3>1. connecting' \in SUBSET BscConns
      <4>1. HeapInv'
        BY LinkStep, StepInv
      <4> QED
        BY <4>1, LinkInvStep DEF LinkInv, LinkTypeOK
    <3> QED
      BY <3>1
  <2>2. CASE BscOpens(c)
    BY <2>2 DEF BscOpens, Free, vars
  <2>3. CASE c \in connecting
    <3>1. ~SmlcConnect(c)
      BY DEF SmlcConnect
    <3>2. g_smlc'.sccp[c] \in {g_smlc.sccp[c], NULL}
      BY <2>1, <3>1, SccpStep
    <3> QED
      BY <2>3, <3>2 DEF Unopened
  <2> QED
    BY <2>1, <2>2, <2>3, ConnectingStep
<1>3. LinkSpec => []Starting
  BY LinkedProcess, NothingYet, PTL
<1> QED
  BY <1>1, <1>2, <1>3, LinkInvariance, LinkedInv, OwnInvariance, PTL DEF LinkSpec, LinkOK

\* The program runs while it has a connection, until it fails; and when it is
\* started again it has none.
LEMMA RunsWithConn ==
  ASSUME LinkOK, NEW c \in BscConns, g_smlc.sccp[c] # NULL
  PROVE  /\ g_smlc.fault = {} => Running
         /\ g_smlc.fault # {} /\ [LinkNext]_linkVars => g_smlc'.fault # {} \/ g_smlc'.sccp[c] = NULL
<1>1. c \in ConnIds
  BY LinkAssumption
<1>2. line = 0
  BY <1>1 DEF LinkOK, Starting, EmptyHeap
<1>3. ASSUME g_smlc.fault # {}, [LinkNext]_linkVars
      PROVE  g_smlc'.fault # {} \/ g_smlc'.sccp[c] = NULL
  <2>1. g_smlc' = g_smlc \/ g_smlc' = EmptyHeap
    BY <1>3, LinkStep, FailedRests
  <2> QED
    BY <1>1, <1>3, <2>1 DEF EmptyHeap
<1> QED
  BY <1>2, <1>3 DEF Running

\* A BSC that is READY for good goes on asking: a connection that it has given up
\* is released, its id is free again, and it opens it anew.
LEMMA GoesOnAsking ==
  ASSUME NEW c \in BscConns \ {Patient}
  PROVE  LinkFairSpec => (<>[](bsc = "ready") => []<><<ConnectHeard(c)>>_linkVars)
<1> DEFINE Sn == g_smlc.sccp[c] = NULL
           C == c \in connecting
           hn == held[c] = "none"
           Rdy == bsc = "ready"
           al == g_smlc.fault = {}
           Op == BscOpens(c)
           Con == SmlcConnect(c)
           ConH == ConnectHeard(c)
           Dis == SmlcDisconnect(c)
           Arr == Arriving(c)
           Forg == Forgotten(c)
           Fr == Free(c)
<1>1. c \in ConnIds
  BY LinkAssumption
<1>2. LinkFairness => /\ <>[]~(Running /\ Arr) \/ []<><<ConH>>_linkVars
                      /\ []<>~(Rdy /\ Fr) \/ []<><<Op>>_linkVars
                      /\ []<>hn
                      /\ []<>~(Running /\ Forg) \/ []<><<Dis>>_linkVars
                      /\ []<>Running
  <2>1. LinkFairness => ConnFairness(c) /\ AskFairness(c) /\ ResetFairness
    BY DEF LinkFairness
  <2> QED
    BY <2>1, PTL DEF ConnFairness, AskFairness, ResetFairness
<1>3. LinkOK /\ [LinkNext]_linkVars /\ C => C' \/ <<Con>>_linkVars
  <2> SUFFICES ASSUME LinkOK, [LinkNext]_linkVars, C, ~C'
               PROVE  <<Con>>_linkVars
    OBVIOUS
  <2>1. Con
    BY ConnectingStep DEF LinkOK
  <2>2. linkVars' # linkVars
    BY DEF linkVars, bscVars
  <2> QED
    BY <2>1, <2>2
<1>4. LinkOK /\ C => Arr
  BY DEF LinkOK, Unopened, Arriving
<1>5. Op => C'
  BY DEF BscOpens
<1>6. LinkOK /\ [LinkNext]_linkVars /\ hn => hn' \/ C'
  BY <1>5, HeldStep DEF LinkOK, Listening
<1>7. LinkOK /\ [LinkNext]_linkVars /\ Sn => Sn' \/ <<Con>>_linkVars
  <2> SUFFICES ASSUME LinkOK, [LinkNext]_linkVars, Sn, ~Sn'
               PROVE  <<Con>>_linkVars
    OBVIOUS
  <2>1. Con
    BY SccpStep DEF LinkOK
  <2>2. linkVars' # linkVars
    BY DEF linkVars, vars
  <2> QED
    BY <2>1, <2>2
<1>8. (hn /\ ~C /\ Sn => Fr) /\ (hn /\ ~Sn => Forg)
  BY DEF Free, Forgotten
<1>9. LinkOK /\ Dis => Sn'
  <2> SUFFICES ASSUME LinkOK, Dis
               PROVE  Sn'
    OBVIOUS
  <2>1. HeapOK(g_smlc) /\ CellsOK
    BY HandlerRuns DEF Kinds, LinkOK
  <2>2. PICK failing \in Outages : N_DISCONNECT(c, NULL, failing)
    BY DEF SmlcDisconnect
  <2>3. Before \in Heap
    BY <2>1, BeforeOK DEF HeapOK, Core
  <2>4. g_smlc' = sccp_lb_disconnect(sccp_lb_disconnect(Before, c), c)
    BY <2>2 DEF N_DISCONNECT, Handle, sccp_lb_disconnect
  <2>5. sccp_lb_disconnect(Before, c) \in Heap
    BY <1>1, <2>1, BeforeOK, Disconnect DEF HeapOK, Core
  <2> QED
    BY <1>1, <2>4, <2>5, DisconnectFields
<1>10. LinkOK /\ ~Sn /\ al => Running
  BY RunsWithConn
<1>11. LinkOK /\ [LinkNext]_linkVars /\ ~Sn /\ ~al => ~al' \/ Sn'
  BY RunsWithConn
<1>12. Running => al
  BY DEF Running
<1>13. Con => Running /\ Arr
  BY DEF SmlcConnect, N_CONNECT
<1> HIDE DEF Sn, C, hn, Rdy, al, Op, Con, ConH, Dis, Arr, Forg, Fr
<1>14. LinkFairSpec => (<>[]Rdy => []<><<ConH>>_linkVars)
  BY <1>2, <1>3, <1>4, <1>5, <1>6, <1>7, <1>8, <1>9, <1>10, <1>11, <1>12, <1>13, UnopenedInvariance, PTL
     DEF LinkFairSpec, LinkSpec
<1> QED
  BY <1>14 DEF Rdy, ConH

\* The BSC waits on connection Patient.
Waits == held[Patient] \in {"open", "half_open"}

\* It does, for a program that does not serve it.
CutOff == Waits /\ Listening(Patient) /\ g_smlc.lb_peers[Bsc] # "READY"

\* A BSC that waits for good comes to wait for a program that does not serve it:
\* the N-CONNECT arrives, T-12 ends the request if there is one, and without a
\* request a READY program has no connection on which the BSC waits.
LEMMA ComesToBeCutOff == LinkFairSpec => (<>[]Waits => <>[]CutOff)
<1> DEFINE c == Patient
           H == held[c] = "half_open"
           O == held[c] = "open"
           L == Listening(c)
           R == g_smlc.lb_peers[Bsc] = "READY"
           Sn == g_smlc.sccp[c] = NULL
           C == c \in connecting
           al == g_smlc.fault = {}
           Pend == Pending(c)
           Can == T12CanExpire(c)
           Con == ConnectHeard(c)
           T12 == SmlcT12(c)
           Arr == Arriving(c)
           Rel == Released(c)
<1>0. c \in BscConns /\ c \in ConnIds
  BY LinkAssumption
<1>1. LinkFairness => /\ <>[]~(Running /\ Arr) \/ []<><<Con>>_linkVars
                      /\ []<>~Can \/ []<><<T12>>_linkVars
                      /\ []<>~Rel
                      /\ []<>Running
  <2>1. LinkFairness => ConnFairness(c) /\ ResetFairness
    BY <1>0 DEF LinkFairness
  <2> QED
    BY <2>1, PTL DEF ConnFairness, ResetFairness
<1>2. (Waits <=> H \/ O) /\ (CutOff <=> Waits /\ L /\ ~R)
  BY DEF Waits, CutOff
<1>3. LinkOK /\ H => L /\ ~R
  BY <1>0 DEF LinkOK, LinkInv, BscOK, Listening
<1>4. LinkOK /\ [LinkNext]_linkVars /\ H => H' \/ ~Waits'
  BY <1>0, HeldStep DEF LinkOK, Waits
<1>5. LinkOK /\ C => Arr
  BY DEF LinkOK, Unopened, Arriving
<1>6. Con => ~C'
  BY DEF ConnectHeard, SmlcConnect
<1>7. LinkOK /\ [LinkNext]_linkVars /\ O /\ ~C => ~C'
  BY <1>0, ConnectingStep DEF LinkOK, BscOpens, Free
<1>8. O /\ ~C /\ Sn => Rel
  BY DEF Released
<1>9. LinkOK /\ [LinkNext]_linkVars /\ ~C /\ Sn => Sn'
  BY <1>0, SccpStep DEF LinkOK, SmlcConnect, Arriving
<1>10. O /\ ~C /\ ~Sn => L
  BY DEF Listening
<1>11. LinkOK /\ ~Sn /\ al => Running
  BY <1>0, RunsWithConn
<1>12. LinkOK /\ [LinkNext]_linkVars /\ ~Sn /\ ~al => ~al' \/ Sn'
  BY <1>0, RunsWithConn
<1>13. Running => al
  BY DEF Running
<1>14. LinkOK /\ al /\ Pend => Can
  BY <1>0, PendingRunsT12 DEF LinkOK, Inv
<1>15. LinkOK /\ T12 => ~Pend'
  <2> SUFFICES ASSUME LinkOK, T12
               PROVE  ~Pend'
    OBVIOUS
  <2>1. PICK failing \in Outages : TimeoutT12(c, failing)
    BY DEF SmlcT12
  <2>2. T12Runs(c) /\ g_smlc' = smlc_loc_req_fsm_timer_cb(Before, c, failing)
    BY <2>1 DEF TimeoutT12, Handle
  <2>3. g_smlc'.conn[c] = NULL
    BY <1>0, <2>2, T12Ends DEF LinkOK, Inv
  <2> QED
    BY <2>3 DEF Pending, lb_conns
<1>16. LinkOK /\ [LinkNext]_linkVars /\ ~Pend /\ ~C => ~Pend' \/ Sn'
  BY <1>0, SccpStep DEF LinkOK, SmlcConnect, Arriving
<1>17. LinkOK /\ al /\ R /\ L => Pend
  BY <1>0 DEF LinkOK, LinkInv, BothKnowTheConns
<1> HIDE DEF c, H, O, L, R, Sn, C, al, Pend, Can, Con, T12, Arr, Rel
<1>18. LinkFairSpec => (<>[]O => <>[](O /\ ~C /\ ~Sn /\ al))
  BY <1>1, <1>5, <1>6, <1>7, <1>8, <1>9, <1>11, <1>12, <1>13, UnopenedInvariance, PTL
     DEF LinkFairSpec, LinkSpec
<1>19. LinkFairSpec => (<>[](O /\ ~C /\ ~Sn /\ al) => <>[](O /\ L /\ ~R))
  BY <1>1, <1>10, <1>14, <1>15, <1>16, <1>17, UnopenedInvariance, PTL
     DEF LinkFairSpec, LinkSpec
<1>20. LinkFairSpec => (<>[]Waits => <>[]O \/ <>[]H)
  BY <1>2, <1>4, UnopenedInvariance, PTL DEF LinkFairSpec, LinkSpec
<1> QED
  BY <1>2, <1>3, <1>18, <1>19, <1>20, UnopenedInvariance, PTL DEF LinkFairSpec

\* A connection that is opened before the peer is READY makes it a RESET, which
\* T-13 waits with, unless it cannot be sent.
LEMMA RefusalSends ==
  ASSUME HeapOK(g_smlc), CellsOK, NEW c \in ConnIds, NEW p \in Peers, NEW msg, NEW failing,
         g_smlc.lb_peers[p] # "READY", g_smlc.conn[c] = NULL, N_CONNECT(c, p, msg, failing)
  PROVE  \/ /\ g_smlc'.unitdata = {[to |-> p, type |-> "RESET"]}
            /\ g_smlc'.lb_peers[p] = "WAIT_RX_RESET_ACK"
         \/ g_smlc'.unitdata = {} /\ failing \cap {"enc_cl", "send_cl"} # {}
<1> DEFINE o == Opened(Before, c, p)
           known == lb_peer_find_or_create(o, p)
           Reset(h) == lb_peer_reset(h, p, failing)
<1>1. Before \in Heap /\ Before.unitdata = {} /\ Before.lb_peers = g_smlc.lb_peers /\ Before.conn = g_smlc.conn
  BY BeforeSends, BeforeOK
<1>2. o \in Heap /\ o.unitdata = {} /\ o.lb_peers = g_smlc.lb_peers /\ o.conn[c] = NULL
  <2>1. o.unitdata = Before.unitdata
    BY <1>1 DEF Opened, Heap
  <2> QED
    BY <1>1, <2>1, OpenedFields
<1>3. g_smlc' = DispatchCo(known, p, c, TRUE, msg, failing)
  <2>1. g_smlc' = UpCoInitial(o, p, c, msg, failing)
    BY DEF N_CONNECT, Handle
  <2> HIDE DEF o
  <2> QED
    BY <1>2, <2>1 DEF UpCoInitial, lb_conns
<1> HIDE DEF o
<1>4. /\ known \in Heap /\ known.unitdata = {} /\ known.conn[c] = NULL
      /\ known.lb_peers[p] \in {"WAIT_RX_RESET", "WAIT_RX_RESET_ACK"}
  <2>1. CASE o.lb_peers[p] = NULL
    <3> DEFINE peers == [o.lb_peers EXCEPT ![p] = "WAIT_RX_RESET"]
    <3>1. known = [o EXCEPT !.lb_peers = peers]
      BY <1>2, <2>1 DEF lb_peer_find_or_create, Heap
    <3>2. peers \in [Peers -> PeerStates \cup {NULL}] /\ peers[p] = "WAIT_RX_RESET"
      BY <1>2, HeapFields DEF PeerStates
    <3> HIDE DEF known, peers
    <3> QED
      BY <1>2, <3>1, <3>2 DEF Heap
  <2>2. CASE o.lb_peers[p] # NULL
    <3>1. known = o
      BY <2>2 DEF lb_peer_find_or_create
    <3>2. o.lb_peers[p] \in PeerStates
      BY <1>2, <2>2, HeapFields
    <3> QED
      BY <1>2, <3>1, <3>2 DEF PeerStates
  <2> QED
    BY <2>1, <2>2
<1> HIDE DEF known
<1>5. ASSUME NEW h \in Heap, h.unitdata = {}
      PROVE  \/ /\ Reset(h).unitdata = {[to |-> p, type |-> "RESET"]}
                /\ Reset(h).lb_peers[p] = "WAIT_RX_RESET_ACK"
             \/ Reset(h).unitdata = {} /\ failing \cap {"enc_cl", "send_cl"} # {}
  <2> DEFINE changed == lb_peer_state_chg(h, p, "WAIT_RX_RESET_ACK")
             discarded == lb_peer_discard_all_conns(changed, p)
  <2>1. discarded.unitdata = {} /\ discarded.lb_peers[p] = "WAIT_RX_RESET_ACK"
    <3>1. changed \in Heap /\ changed.lb_peers[p] = "WAIT_RX_RESET_ACK" /\ changed.unitdata = {}
      BY <1>5, HeapFields DEF lb_peer_state_chg, Heap, PeerStates
    <3> HIDE DEF changed
    <3> QED
      BY <3>1 DEF lb_peer_discard_all_conns, Heap
  <2>2. DOMAIN discarded = DOMAIN h
    BY <1>5 DEF lb_peer_discard_all_conns, lb_peer_state_chg, Heap
  <2> HIDE DEF discarded
  <2>3. /\ Tx(discarded, p, "RESET").unitdata = discarded.unitdata \cup {[to |-> p, type |-> "RESET"]}
        /\ Tx(discarded, p, "RESET").lb_peers = discarded.lb_peers
    <3>1. "unitdata" \in DOMAIN discarded /\ "lb_peers" \in DOMAIN discarded
      BY <1>5, <2>2 DEF Heap
    <3> QED
      BY <3>1 DEF Tx
  <2>4. lb_peer_state_chg(discarded, p, "WAIT_RX_RESET").unitdata = {}
    BY <1>5, <2>1, <2>2 DEF lb_peer_state_chg, Heap
  <2>5. CASE failing \cap {"enc_cl", "send_cl"} # {}
    BY <2>4, <2>5 DEF lb_peer_reset, discarded
  <2>6. CASE failing \cap {"enc_cl", "send_cl"} = {}
    BY <2>1, <2>3, <2>6 DEF lb_peer_reset, discarded
  <2> QED
    BY <2>5, <2>6
<1>6. CASE known.lb_peers[p] = "WAIT_RX_RESET"
  <2>1. g_smlc' = Reset(known)
    BY <1>3, <1>4, <1>6 DEF DispatchCo, lb_peer_st_wait_rx_reset, lb_peer_disconnect, lb_conns
  <2> HIDE DEF Reset
  <2> QED
    BY <1>4, <1>5, <2>1
<1>7. CASE known.lb_peers[p] = "WAIT_RX_RESET_ACK"
  <2> DEFINE f == sccp_lb_disconnect(known, c)
  <2>1. g_smlc' = Reset(f)
    BY <1>3, <1>7 DEF DispatchCo, lb_peer_st_wait_rx_reset_ack
  <2>2. f \in Heap /\ f.unitdata = {}
    <3> DEFINE sccp == [known.sccp EXCEPT ![c] = NULL]
    <3>1. f = [known EXCEPT !.sccp = sccp] /\ sccp \in [ConnIds -> Peers \cup {NULL}]
      BY <1>4, HeapFields DEF sccp_lb_disconnect, Heap
    <3> HIDE DEF f, sccp
    <3> QED
      BY <1>4, <3>1 DEF Heap
  <2> HIDE DEF Reset, f
  <2> QED
    BY <1>5, <2>1, <2>2
<1> QED
  BY <1>4, <1>6, <1>7

\* A program that does not serve the BSC has no connection objects of it.
LEMMA UnservedHasNone ==
  ASSUME HeapOK(g_smlc), OwnIds, g_smlc.lb_peers[Bsc] # "READY"
  PROVE  \A c \in BscConns : g_smlc.conn[c] = NULL
<1>1. \A c \in BscConns : Attached(g_smlc, c)
  BY LinkAssumption DEF HeapOK, Core
<1> QED
  BY <1>1 DEF Attached, OwnIds, HeapOK, Core

\* A message that is sent is on its way.
LEMMA OneSent ==
  ASSUME NEW type, g_smlc'.unitdata = {[to |-> Bsc, type |-> type]}, Sends
  PROVE  to_bsc' = to_bsc \cup {type}
<1>1. {sent \in g_smlc'.unitdata : sent.to = Bsc} = {[to |-> Bsc, type |-> type]}
  OBVIOUS
<1>2. {m.type : m \in {[to |-> Bsc, type |-> type]}} = {type}
  OBVIOUS
<1> QED
  BY <1>1, <1>2 DEF Sends

\* While the BSC is cut off, the program sends nothing but a RESET for every
\* connection that the BSC opens, if it can, and the BSC, which would give up
\* waiting with it, receives none.
LEMMA CutOffStep ==
  ASSUME LinkOK, [LinkNext]_linkVars, CutOff, Waits'
  PROVE  /\ ~BscRxReset
         /\ "RESET_ACK" \in to_bsc' => "RESET_ACK" \in to_bsc
         /\ \A c \in BscConns : ConnectHeard(c) => "RESET" \in to_bsc'
<1>1. /\ bsc = "ready" /\ OwnIds
      /\ Bsc \in Peers /\ Patient \in BscConns /\ BscConns \subseteq ConnIds
  BY LinkAssumption DEF CutOff, Waits, LinkOK, LinkInv, LinkTypeOK, BscOK
<1>2. ~BscRxReset
  BY <1>1 DEF BscRxReset, Nothing, Waits
<1>3. ASSUME NEW c \in BscConns, SmlcConnect(c)
      PROVE  /\ to_bsc' \in {to_bsc, to_bsc \cup {"RESET"}}
             /\ ConnectHeard(c) => "RESET" \in to_bsc'
  <2>1. HeapOK(g_smlc) /\ CellsOK
    BY <1>3, HandlerRuns DEF Kinds, LinkOK
  <2>2. ASSUME NEW msg, NEW failing, N_CONNECT(c, Bsc, msg, failing)
        PROVE  \/ g_smlc'.unitdata = {[to |-> Bsc, type |-> "RESET"]}
               \/ g_smlc'.unitdata = {} /\ failing \cap {"enc_cl", "send_cl"} # {}
    BY <1>1, <2>1, <2>2, UnservedHasNone, RefusalSends DEF CutOff
  <2>3. g_smlc'.unitdata = {[to |-> Bsc, type |-> "RESET"]} => to_bsc' = to_bsc \cup {"RESET"}
    BY <1>3, OneSent DEF SmlcConnect
  <2>4. g_smlc'.unitdata = {} => to_bsc' = to_bsc
    BY <1>3 DEF SmlcConnect, Sends
  <2>5. \E msg \in PerformLocReq, failing \in Outages : N_CONNECT(c, Bsc, msg, failing)
    BY <1>3 DEF SmlcConnect
  <2>6. ConnectHeard(c) => g_smlc'.unitdata = {[to |-> Bsc, type |-> "RESET"]}
    BY <2>2 DEF ConnectHeard, ClWorks
  <2> QED
    BY <2>2, <2>3, <2>4, <2>5, <2>6
<1>4. ASSUME g_smlc'.unitdata = {}, Sends
      PROVE  to_bsc' = to_bsc
  BY <1>4 DEF Sends
<1>5. ASSUME NEW c \in BscConns, SmlcData(c)
      PROVE  to_bsc' = to_bsc
  <2>1. HeapOK(g_smlc)
    BY <1>5, HandlerRuns DEF Kinds, LinkOK
  <2>2. PICK msg \in Message, failing \in Outages : g_smlc' = UpCo(Before, c, msg, failing)
    BY <1>5 DEF SmlcData, N_DATA, Handle, Message
  <2>3. Before.conn[c] = NULL
    BY <1>1, <2>1, BeforeOK, UnservedHasNone DEF CutOff
  <2>4. g_smlc' = Before
    BY <2>2, <2>3 DEF UpCo, lb_conns
  <2> QED
    BY <1>4, <1>5, <2>1, <2>4, BeforeSends DEF SmlcData
<1>6. ASSUME NEW c \in BscConns, SmlcDisconnect(c)
      PROVE  to_bsc' = to_bsc
  <2>1. HeapOK(g_smlc)
    BY <1>6, HandlerRuns DEF Kinds, LinkOK
  <2>2. g_smlc' = sccp_lb_disconnect(sccp_lb_disconnect(Before, c), c)
    BY <1>6 DEF SmlcDisconnect, N_DISCONNECT, Handle, sccp_lb_disconnect
  <2>3. g_smlc'.unitdata = {}
    BY <2>1, <2>2, BeforeSends DEF sccp_lb_disconnect, Heap
  <2> QED
    BY <1>4, <1>6, <2>3 DEF SmlcDisconnect
<1>7. ASSUME NEW c \in BscConns, SmlcT12(c)
      PROVE  FALSE
  <2>1. HeapOK(g_smlc)
    BY <1>7, HandlerRuns DEF Kinds, LinkOK
  <2> QED
    BY <1>1, <1>7, <2>1, UnservedHasNone DEF SmlcT12, TimeoutT12, T12Runs, Pending, lb_conns, CutOff
<1>8. ASSUME NEW type \in Kinds, SmlcUnitdata(type)
      PROVE  to_bsc' = to_bsc
  <2>1. HeapOK(g_smlc)
    BY <1>8, LinkAssumption, HandlerRuns DEF LinkOK
  <2>2. ~Late(type)
    <3>1. held'[Patient] = IF Late(type) /\ Listening(Patient) THEN "overtaken" ELSE held[Patient]
      BY <1>1, <1>8 DEF SmlcUnitdata
    <3> QED
      BY <3>1 DEF CutOff, Waits
  <2>3. type = "RESET_ACK" /\ g_smlc.lb_peers[Bsc] # "WAIT_RX_RESET_ACK"
    BY <1>1, <2>2 DEF Late, Kinds
  <2> DEFINE known == lb_peer_find_or_create(Before, Bsc)
  <2>4. Before \in Heap /\ Before.unitdata = {} /\ Before.lb_peers = g_smlc.lb_peers
    BY <2>1, BeforeSends, BeforeOK
  <2>5. known.unitdata = {} /\ known.lb_peers[Bsc] # "WAIT_RX_RESET_ACK"
    <3>1. LET g == lb_peer_state_chg(Before, Bsc, "WAIT_RX_RESET")
          IN  g.unitdata = {} /\ g.lb_peers[Bsc] = "WAIT_RX_RESET"
      BY <1>1, <2>4, PeerFields
    <3> QED
      BY <2>3, <2>4, <3>1 DEF lb_peer_find_or_create, lb_peer_state_chg
  <2> HIDE DEF known
  <2>6. g_smlc' = known
    BY <1>8, <2>3, <2>5 DEF SmlcUnitdata, N_UNITDATA, Handle, UpCl, known
  <2> QED
    BY <1>4, <1>8, <2>5, <2>6 DEF SmlcUnitdata
<1>9. ASSUME SmlcT13
      PROVE  to_bsc' = to_bsc
  <2>1. HeapOK(g_smlc)
    BY <1>9, LinkAssumption, HandlerRuns DEF Kinds, LinkOK
  <2>2. g_smlc'.unitdata = {}
    BY <1>1, <1>9, <2>1, BeforeSends, PeerFields DEF SmlcT13, TimeoutT13, Handle
  <2> QED
    BY <1>4, <1>9, <2>2 DEF SmlcT13
<1>10. ASSUME BscStart \/ BscSendsReset \/ BscRxReset \/ BscRxResetAck \/ Loss \/ SmlcVty \/ SmlcRestart
                \/ UNCHANGED linkVars
       PROVE  to_bsc' \subseteq to_bsc
  BY <1>10 DEF BscStart, BscSendsReset, BscRxReset, BscRxResetAck, Loss, SmlcVty, SmlcRestart, linkVars
<1>11. ASSUME NEW c \in BscConns, BscOpens(c) \/ BscGivesUp(c) \/ BscSeesRelease(c)
       PROVE  to_bsc' = to_bsc
  BY <1>11 DEF BscOpens, BscGivesUp, BscSeesRelease
<1>12. ASSUME OtherBscs
      PROVE  to_bsc' = to_bsc
  BY <1>1, <1>12, HandlerRuns, OthersStep DEF Kinds, LinkOK
<1>13. "RESET_ACK" \in to_bsc' => "RESET_ACK" \in to_bsc
  BY <1>3, <1>5, <1>6, <1>7, <1>8, <1>9, <1>10, <1>11, <1>12 DEF LinkNext
<1>14. \A c \in BscConns : ConnectHeard(c) => SmlcConnect(c)
  BY DEF ConnectHeard
<1> QED
  BY <1>2, <1>3, <1>13, <1>14

\* No connection keeps the BSC waiting for good: it asks on another connection
\* again and again, the program that does not serve it answers with a RESET, one
\* of these arrives, and the BSC forgets all its connections.  Without another
\* connection it may wait forever.
THEOREM NoEndlessWait == ASSUME BscConns # {Patient} PROVE LinkFairSpec => WaitingEnds
<1>1. PICK c \in BscConns \ {Patient} : TRUE
  BY LinkAssumption
<1> DEFINE W == Waits
           K == CutOff
           ready == bsc = "ready"
           ack == "RESET_ACK" \in to_bsc
           empty == to_bsc = {}
           Rx == BscRxReset \/ BscRxResetAck
           Con == ConnectHeard(c)
<1>2. LinkFairness => <>[]empty \/ []<><<Rx>>_linkVars
  <2>1. LinkFairness => ResetFairness
    BY DEF LinkFairness
  <2> QED
    BY <2>1, PTL DEF ResetFairness
<1>3. LinkFairSpec => (<>[]ready => []<><<Con>>_linkVars)
  BY <1>1, GoesOnAsking
<1>4. LinkOK /\ K => ready /\ W
  BY LinkAssumption DEF CutOff, Waits, LinkOK, LinkInv, LinkTypeOK, BscOK
<1>5. LinkOK /\ [LinkNext]_linkVars /\ K /\ W' /\ Rx => ack /\ ~ack'
  BY CutOffStep DEF BscRxResetAck
<1>6. LinkOK /\ [LinkNext]_linkVars /\ K /\ W' /\ ~ack => ~ack'
  BY CutOffStep
<1>7. LinkOK /\ [LinkNext]_linkVars /\ K /\ W' /\ Con => ~empty'
  BY <1>1, CutOffStep
<1>8. LinkFairSpec => (<>[]W => <>[]K)
  BY ComesToBeCutOff
<1>9. (held[Patient] \in {"open", "half_open"} <=> W) /\ (held[Patient] \notin {"open", "half_open"} <=> ~W)
  BY DEF Waits
<1> HIDE DEF W, K, ready, ack, empty, Rx, Con
<1>10. LinkFairSpec => ~<>[]K
  BY <1>2, <1>3, <1>4, <1>5, <1>6, <1>7, UnopenedInvariance, PTL DEF LinkFairSpec, LinkSpec
<1> QED
  BY <1>8, <1>9, <1>10, PTL DEF WaitingEnds

\* A RESET that the program receives is acknowledged, unless that cannot be sent.
LEMMA ResetAcked ==
  ASSUME LinkOK, ResetHeard
  PROVE  "RESET_ACK" \in to_bsc'
<1>1. HeapOK(g_smlc) /\ Bsc \in Peers
  BY LinkAssumption, HandlerRuns DEF Kinds, LinkOK, ResetHeard
<1>2. PICK failing \in ClWorks : N_UNITDATA(Bsc, "RESET", failing)
  BY DEF ResetHeard
<1> DEFINE known == lb_peer_find_or_create(Before, Bsc)
           discarded == lb_peer_discard_all_conns(known, Bsc)
           told == Tx(discarded, Bsc, "RESET_ACK")
<1>3. discarded \in Heap
  <2>1. HeapOK(known)
    BY <1>1, BeforeOK, FindOrCreate
  <2> QED
    BY <1>1, <2>1, DiscardEffect DEF HeapOK, Core
<1>4. g_smlc' = lb_peer_state_chg(told, Bsc, "READY")
  <2>1. "enc_cl" \notin failing /\ "send_cl" \notin failing
    BY DEF ClWorks
  <2>2. g_smlc' = UpCl(Before, Bsc, "RESET", failing)
    BY <1>2 DEF N_UNITDATA, Handle
  <2>3. UpCl(Before, Bsc, "RESET", failing) = lb_peer_rx_reset(known, Bsc, failing)
    BY DEF UpCl
  <2> HIDE DEF known
  <2>4. lb_peer_rx_reset(known, Bsc, failing) = lb_peer_state_chg(told, Bsc, "READY")
    BY <2>1, Zenon DEF lb_peer_rx_reset
  <2> QED
    BY <2>2, <2>3, <2>4
<1> HIDE DEF discarded
<1>5. g_smlc'.unitdata = discarded.unitdata \cup {[to |-> Bsc, type |-> "RESET_ACK"]}
  BY <1>3, <1>4 DEF lb_peer_state_chg, Tx, Heap
<1> QED
  BY <1>5 DEF ResetHeard, SmlcUnitdata, Sends

\* The RESET procedure of a BSC comes to an end, in every state of the program
\* and of its timers.
THEOREM ResetsEnd == LinkFairSpec => ResetIsAnswered
<1> DEFINE Rs == bsc = "resetting"
           ready == bsc = "ready"
           empty == to_bsc = {}
           Rx == BscRxReset \/ BscRxResetAck
           Up == ResetHeard
<1>1. LinkFairness => /\ <>[]~(Running /\ Rs) \/ []<><<Up>>_linkVars
                      /\ <>[]empty \/ []<><<Rx>>_linkVars
                      /\ []<>Running
  <2>1. LinkFairness => ResetFairness
    BY DEF LinkFairness
  <2> QED
    BY <2>1, PTL DEF ResetFairness
<1>2. LinkOK => (ready <=> ~Rs)
  BY DEF LinkOK, LinkInv, LinkTypeOK
<1>3. LinkOK /\ Up => ~empty'
  BY ResetAcked
<1>4. Rx => ready'
  BY DEF BscRxReset, BscRxResetAck
<1> HIDE DEF Rs, ready, empty, Rx, Up
<1>5. LinkFairSpec => (Rs ~> ready)
  BY <1>1, <1>2, <1>3, <1>4, UnopenedInvariance, PTL DEF LinkFairSpec, LinkSpec
<1> QED
  BY <1>5 DEF ResetIsAnswered, Rs, ready
----------------------------------------------------------------------------
(* The link comes up.                                                      *)

Serves == g_smlc.lb_peers[Bsc] = "READY"

\* While neither end is started again, the BSC stays READY and sends no further
\* RESET, and only a RESET that is still on its way ends the program's service.
LEMMA SteadyStep ==
  ASSUME LinkOK, [LinkNext]_linkVars, [~BscStart /\ ~SmlcRestart]_linkVars
  PROVE  /\ bsc = "ready" => bsc' = "ready"
         /\ g_smlc.fault # {} => g_smlc'.fault # {}
         /\ bsc = "ready" /\ "RESET" \in to_smlc' => "RESET" \in to_smlc /\ ~SmlcUnitdata("RESET")
         /\ Serves => Serves' \/ SmlcUnitdata("RESET")
<1> DEFINE Steady == /\ bsc = "ready" => bsc' = "ready"
                     /\ g_smlc.fault # {} => g_smlc'.fault # {}
                     /\ bsc = "ready" /\ "RESET" \in to_smlc' => "RESET" \in to_smlc /\ ~SmlcUnitdata("RESET")
                     /\ Serves => Serves' \/ SmlcUnitdata("RESET")
<1>1. Bsc \in Peers /\ BscConns \subseteq ConnIds
  BY LinkAssumption
<1>2. "RESET" \in to_smlc' => ~SmlcUnitdata("RESET")
  BY DEF SmlcUnitdata
<1>3. CASE UNCHANGED linkVars
  BY <1>2, <1>3 DEF linkVars, bscVars, vars, Serves
<1>4. CASE BscSendsReset \/ BscRxReset \/ BscRxResetAck \/ Loss
  BY <1>2, <1>4 DEF BscSendsReset, BscRxReset, BscRxResetAck, Loss, bscVars, vars, Serves
<1>5. ASSUME NEW c \in BscConns, BscOpens(c) \/ BscGivesUp(c) \/ BscSeesRelease(c)
      PROVE  Steady
  BY <1>2, <1>5 DEF BscOpens, BscGivesUp, BscSeesRelease, vars, Serves
<1>6. ASSUME NEW c \in BscConns, SmlcConnect(c)
      PROVE  Steady
  <2>1. HeapOK(g_smlc) /\ CellsOK
    BY <1>6, HandlerRuns DEF Kinds, LinkOK
  <2>2. PICK msg \in PerformLocReq, failing \in Outages : N_CONNECT(c, Bsc, msg, failing)
    BY <1>6 DEF SmlcConnect
  <2>3. Serves => Serves'
    BY <1>1, <2>1, <2>2, ConnectStep DEF Serves
  <2>4. g_smlc.fault = {}
    BY <2>1 DEF HeapOK, Core
  <2> QED
    BY <1>2, <1>6, <2>3, <2>4 DEF SmlcConnect
<1>7. ASSUME NEW c \in BscConns, SmlcData(c) \/ SmlcDisconnect(c) \/ SmlcT12(c)
      PROVE  Steady
  <2>1. HeapOK(g_smlc) /\ CellsOK
    BY <1>7, HandlerRuns DEF Kinds, LinkOK
  <2>2. PICK failing \in Outages :
          \/ \E msg \in Message : N_DATA(c, msg, failing)
          \/ \E msg \in Message \cup {NULL} : N_DISCONNECT(c, msg, failing)
          \/ TimeoutT12(c, failing)
    BY <1>7 DEF SmlcData, SmlcDisconnect, SmlcT12, Message
  <2>3. g_smlc'.lb_peers = g_smlc.lb_peers
    BY <1>1, <2>1, <2>2, ConnStep
  <2>4. g_smlc.fault = {}
    BY <2>1 DEF HeapOK, Core
  <2>5. UNCHANGED <<bscVars, to_smlc>>
    BY <1>7 DEF SmlcData, SmlcDisconnect, SmlcT12
  <2> QED
    BY <1>2, <2>3, <2>4, <2>5 DEF bscVars, Serves
<1>8. ASSUME NEW type \in Kinds, SmlcUnitdata(type)
      PROVE  Steady
  <2>1. HeapOK(g_smlc)
    BY <1>8, LinkAssumption, HandlerRuns DEF LinkOK
  <2>2. PICK failing \in Outages : N_UNITDATA(Bsc, type, failing)
    BY <1>8 DEF SmlcUnitdata
  <2>3. type = "RESET_ACK" /\ Serves => Serves'
    BY <1>1, <2>1, <2>2, UnitdataStep DEF Serves
  <2>4. g_smlc.fault = {}
    BY <2>1 DEF HeapOK, Core
  <2>5. UNCHANGED bsc /\ to_smlc' \subseteq to_smlc
    BY <1>8 DEF SmlcUnitdata
  <2> QED
    BY <1>2, <1>8, <2>3, <2>4, <2>5 DEF Kinds
<1>9. CASE SmlcT13
  <2>1. g_smlc.fault = {} /\ ~Serves
    BY <1>9 DEF SmlcT13, TimeoutT13, T13Runs, Running, Serves
  <2> QED
    BY <1>2, <1>9, <2>1 DEF SmlcT13, bscVars
<1>10. CASE SmlcVty
  BY <1>2, <1>10 DEF SmlcVty, Vty, bscVars, Serves
<1>11. CASE OtherBscs
  <2>1. HeapOK(g_smlc) /\ CellsOK
    BY <1>11, HandlerRuns DEF Kinds, LinkOK
  <2>2. g_smlc'.lb_peers[Bsc] = g_smlc.lb_peers[Bsc] /\ g_smlc.fault = {}
    BY <1>11, <2>1, OthersStep DEF LinkOK, HeapOK, Core
  <2> QED
    BY <1>2, <1>11, <2>2 DEF OtherBscs, bscVars, Serves
<1> QED
  BY <1>3, <1>4, <1>5, <1>6, <1>7, <1>8, <1>9, <1>10, <1>11 DEF LinkNext

\* The RESET procedure of the program, message by message: a connection that is
\* refused makes it a RESET, the BSC acknowledges, and the program serves it.
LEMMA ResetProcedure ==
  ASSUME LinkOK, NEW c \in BscConns
  PROVE  /\ ConnectHeard(c) /\ ~Serves /\ g_smlc'.fault = {} => T13Runs(Bsc)' /\ "RESET" \in to_bsc'
         /\ T13Runs(Bsc) /\ BscRxReset => T13Runs(Bsc)' /\ "RESET_ACK" \in to_smlc'
         /\ T13Runs(Bsc) /\ SmlcUnitdata("RESET_ACK") => Serves'
<1>1. Bsc \in Peers /\ c \in ConnIds
  BY LinkAssumption
<1>2. ASSUME ConnectHeard(c), ~Serves, g_smlc'.fault = {}
      PROVE  T13Runs(Bsc)' /\ "RESET" \in to_bsc'
  <2>1. HeapOK(g_smlc) /\ CellsOK
    BY <1>2, HandlerRuns DEF Kinds, LinkOK, ConnectHeard
  <2>2. PICK msg \in PerformLocReq, failing \in ClWorks : N_CONNECT(c, Bsc, msg, failing)
    BY <1>2 DEF ConnectHeard
  <2>3. g_smlc.conn[c] = NULL
    BY <1>2, <2>1, UnservedHasNone DEF LinkOK, Serves
  <2>4. /\ g_smlc'.unitdata = {[to |-> Bsc, type |-> "RESET"]}
        /\ g_smlc'.lb_peers[Bsc] = "WAIT_RX_RESET_ACK"
    BY <1>1, <1>2, <2>1, <2>2, <2>3, RefusalSends DEF ClWorks, Serves
  <2>5. line' = 0
    BY <2>2 DEF N_CONNECT, Running, Handle, cellVars
  <2>6. "RESET" \in to_bsc'
    BY <1>2, <2>4 DEF ConnectHeard, SmlcConnect, Sends
  <2> QED
    BY <1>2, <2>4, <2>5, <2>6 DEF T13Runs, Running
<1>3. ASSUME T13Runs(Bsc), BscRxReset
      PROVE  T13Runs(Bsc)' /\ "RESET_ACK" \in to_smlc'
  BY <1>3 DEF BscRxReset, T13Runs, Running, vars
<1>4. ASSUME T13Runs(Bsc), SmlcUnitdata("RESET_ACK")
      PROVE  Serves'
  <2>1. HeapOK(g_smlc)
    BY <1>4, HandlerRuns DEF LinkOK, Kinds
  <2>2. PICK failing \in Outages : N_UNITDATA(Bsc, "RESET_ACK", failing)
    BY <1>4 DEF SmlcUnitdata
  <2> QED
    BY <1>1, <1>4, <2>1, <2>2, UnitdataStep DEF Kinds, T13Runs, Serves
<1> QED
  BY <1>2, <1>3, <1>4

\* Once neither end is started again, the program comes to serve the BSC, and it
\* does so from then on.  The BSC gets through its own RESET, and of its RESETs
\* one at most is still on its way, which ends the service once at most.  As long
\* as the program does not serve, every connection that the BSC opens makes it a
\* RESET, of which one is received and acknowledged in time.  Without another
\* connection than Patient the program may hear nothing of the BSC.
THEOREM LinkUp == ASSUME BscConns # {Patient} PROVE LinkFairSpec => LinkComesUp
<1>1. PICK c \in BscConns \ {Patient} : TRUE
  BY LinkAssumption
<1> DEFINE S == ~BscStart /\ ~SmlcRestart
           rdy == bsc = "ready"
           al == g_smlc.fault = {}
           R == "RESET" \in to_smlc
           Up == SmlcUnitdata("RESET")
           Con == ConnectHeard(c)
           W1 == T13Runs(Bsc) /\ "RESET" \in to_bsc
           W2 == T13Runs(Bsc) /\ "RESET_ACK" \in to_smlc
           A1 == T13Runs(Bsc) /\ BscRxReset
           A2 == T13Runs(Bsc) /\ SmlcUnitdata("RESET_ACK")
<1>2. LinkFairness => []<>Running
  <2>1. LinkFairness => ResetFairness
    BY DEF LinkFairness
  <2> QED
    BY <2>1, PTL DEF ResetFairness
<1>3. InTime => (<>[]~W1 \/ []<><<A1>>_linkVars) /\ (<>[]~W2 \/ []<><<A2>>_linkVars)
  BY DEF InTime
<1>4. LinkFairSpec => (<>[]rdy => []<><<Con>>_linkVars)
  BY <1>1, GoesOnAsking
<1>5. LinkFairSpec => []<>rdy
  <2>1. LinkOK => rdy \/ bsc = "resetting"
    BY DEF LinkOK, LinkInv, LinkTypeOK
  <2> QED
    BY <2>1, ResetsEnd, UnopenedInvariance, PTL DEF ResetIsAnswered, LinkFairSpec
<1>6. LinkOK /\ [LinkNext]_linkVars /\ [S]_linkVars
        => /\ rdy => rdy'
           /\ ~al => ~al'
           /\ rdy /\ R' => R /\ ~Up
           /\ Serves => Serves' \/ Up
  BY SteadyStep
<1>7. Up => R
  BY DEF SmlcUnitdata
<1>8. LinkOK /\ Con /\ ~Serves /\ al' => W1'
  BY <1>1, ResetProcedure
<1>9. LinkOK /\ A1 => W2'
  BY <1>1, ResetProcedure
<1>10. LinkOK /\ A2 => Serves'
  BY <1>1, ResetProcedure
<1>11. Running => al
  BY DEF Running
<1>12. rdy /\ al /\ Serves => bsc = "ready" /\ g_smlc.fault = {} /\ g_smlc.lb_peers[Bsc] = "READY"
  BY DEF Serves
<1>13. LinkComesUp <=>
         (InTime /\ <>[][S]_linkVars => <>[](bsc = "ready" /\ g_smlc.fault = {} /\ g_smlc.lb_peers[Bsc] = "READY"))
  BY DEF LinkComesUp
<1> HIDE DEF S, rdy, al, R, Up, Con, W1, W2, A1, A2
<1>14. LinkFairSpec => (<>[][S]_linkVars => <>[]rdy /\ <>[]al)
  BY <1>2, <1>5, <1>6, <1>11, UnopenedInvariance, PTL DEF LinkFairSpec, LinkSpec
<1>15. LinkFairSpec => (<>[][S]_linkVars => <>[]Serves \/ <>[]~Serves)
  BY <1>6, <1>7, <1>14, UnopenedInvariance, PTL DEF LinkFairSpec, LinkSpec
<1>16. LinkFairSpec => (InTime /\ <>[]rdy /\ <>[]al => ~<>[]~Serves)
  BY <1>3, <1>4, <1>8, <1>9, <1>10, UnopenedInvariance, PTL DEF LinkFairSpec, LinkSpec
<1> QED
  BY <1>12, <1>13, <1>14, <1>15, <1>16, PTL
=============================================================================
