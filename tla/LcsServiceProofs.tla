-------------------------- MODULE LcsServiceProofs --------------------------
(***************************************************************************)
(* The OsmoSMLC process is the location service of module LcsService, and   *)
(* what follows for single connections.  Every handler has one of five      *)
(* effects on the connections (HandlerEffect), from which each theorem is   *)
(* derived.                                                                 *)
(***************************************************************************)
EXTENDS OsmoSmlcProofs

----------------------------------------------------------------------------
(* The effects of a handler on the connections.                            *)

\* The objects, what is open and what has been sent, of connection c.
SameConn(h, g, c) == g.conn[c] = h.conn[c] /\ g.sccp[c] = h.sccp[c] /\ g.sent[c] = h.sent[c]
Others(h, g, c) == \A d \in ConnIds \ {c} : SameConn(h, g, d)

\* Nothing happens to any connection.
Stays(h, g) == \A c \in ConnIds : SameConn(h, g, c)

\* One response is sent, to a BSC that listens.
Answers(h, g, c) == \E cell_id : \E r \in ResponsesFor(cell_id) : g.sent[c] = Append(h.sent[c], r)

\* BSC p opens connection c, which is taken on, answered at once, or refused or
\* ignored.
Opens(h, g, c, p) ==
    /\ h.sccp[c] = NULL
    /\ Others(h, g, c)
    /\ \/ /\ h.conn[c] = NULL /\ g.conn[c] # NULL /\ g.conn[c].smlc_loc_req # NULL
          /\ g.conn[c].lb_peer = p /\ g.sccp[c] = p
          /\ Open(g, c)
       \/ /\ h.conn[c] = NULL /\ g.conn[c] = NULL /\ g.sccp[c] = NULL
          /\ \E cell_id : \E r \in ResponsesFor(cell_id) : g.sent[c] = Append(<<>>, r)
       \/ g.conn[c] = h.conn[c] /\ g.sccp[c] = NULL /\ g.sent[c] = <<>>
       \/ /\ h.conn[c] = NULL /\ g.conn[c] = NULL /\ g.sccp[c] = p /\ g.sent[c] = <<>>
          /\ Told(g, p)
       \/ /\ h.conn[c] = NULL /\ g.conn[c] # NULL /\ g.conn[c].smlc_loc_req = NULL
          /\ g.conn[c].lb_peer = p /\ g.sccp[c] = p /\ g.sent[c] = <<>>

\* The request of connection c ends, and the connection with it.
Ends(h, g, c) ==
    /\ h.conn[c] # NULL
    /\ Others(h, g, c)
    /\ g.conn[c] = NULL /\ g.sccp[c] = NULL
    /\ g.sent[c] = h.sent[c] \/ (h.sccp[c] # NULL /\ Answers(h, g, c))

\* The BSC closes connection c.
HangsUp(h, g, c) ==
    /\ Others(h, g, c)
    /\ g.conn[c] = h.conn[c] /\ g.sccp[c] = NULL /\ g.sent[c] = h.sent[c]

Effect(h, g) ==
    \/ Stays(h, g)
    \/ \E c \in ConnIds :
         \/ \E p \in Peers : Opens(h, g, c, p)
         \/ Ends(h, g, c)
         \/ HangsUp(h, g, c)
    \/ \E p \in Peers : Discarded(h, g, p)

----------------------------------------------------------------------------

\* The end of a request, as an effect.
LEMMA EndsEffect ==
  ASSUME NEW h, NEW g, NEW c \in ConnIds, h.conn[c] # NULL
  PROVE  /\ \A failing, cell_id : Ending(h, g, c, 0, failing, cell_id) => Ends(h, g, c)
         /\ Silent(h, g, c, 0) => Ends(h, g, c)
<1>1. ASSUME NEW cell_id, Answering(h, g, c, 0, cell_id)
      PROVE  Ends(h, g, c)
  BY <1>1 DEF Answering, OnlyConn, Ended, Ends, Others, SameConn, Answers
<1>2. Silent(h, g, c, 0) => Ends(h, g, c)
  BY DEF Silent, OnlyConn, Ended, Ends, Others, SameConn
<1> QED
  BY <1>1, <1>2 DEF Ending

\* What Opened leaves alone.
LEMMA OpenedFields ==
  ASSUME NEW h \in Heap, NEW c \in ConnIds, NEW p \in Peers
  PROVE  LET o == Opened(h, c, p)
         IN  /\ o \in Heap
             /\ o.conn = h.conn /\ o.sccp[c] = p /\ o.sent[c] = <<>>
             /\ o.lb_peers = h.lb_peers /\ o.unitdata = h.unitdata
             /\ \A d \in ConnIds \ {c} : o.sccp[d] = h.sccp[d] /\ o.sent[d] = h.sent[d]
<1> DEFINE o == Opened(h, c, p)
           sccp == [h.sccp EXCEPT ![c] = p]
           sent == [h.sent EXCEPT ![c] = <<>>]
<1>1. /\ sccp \in [ConnIds -> Peers \cup {NULL}] /\ sccp[c] = p
      /\ sent \in [ConnIds -> Seq(Pdu)] /\ sent[c] = <<>>
      /\ \A d \in ConnIds \ {c} : sccp[d] = h.sccp[d] /\ sent[d] = h.sent[d]
  BY HeapFields
<1>2. o = [h EXCEPT !.sccp = sccp, !.sent = sent]
  BY DEF Heap, Opened
<1> HIDE DEF o, sccp, sent
<1>3. /\ o \in Heap /\ o.sccp = sccp /\ o.sent = sent
      /\ o.conn = h.conn /\ o.lb_peers = h.lb_peers /\ o.unitdata = h.unitdata
  BY <1>1, <1>2 DEF Heap
<1> QED
  BY <1>1, <1>3 DEF o

\* An SCCP connection that is released.
LEMMA DisconnectFields ==
  ASSUME NEW h \in Heap, NEW c \in ConnIds
  PROVE  LET g == sccp_lb_disconnect(h, c)
         IN  /\ g.conn = h.conn /\ g.sent = h.sent /\ g.lb_peers = h.lb_peers
             /\ g.unitdata = h.unitdata
             /\ g.sccp[c] = NULL
             /\ \A d \in ConnIds \ {c} : g.sccp[d] = h.sccp[d]
  BY HeapFields DEF sccp_lb_disconnect, Heap

\* A first message that a READY peer's FSM has seen.
LEMMA BeganEffect ==
  ASSUME NEW h, NEW o, NEW g, NEW c \in ConnIds, NEW p \in Peers, NEW msg, NEW failing,
         h.sccp[c] = NULL, h.conn[c] = NULL,
         Others(h, o, c), o.conn[c] = NULL, o.sccp[c] = p, o.sent[c] = <<>>,
         Began(o, g, c, msg, failing)
  PROVE  Opens(h, g, c, p)
<1>1. OnlyConn(o, g, c)
  BY DEF Began, Waiting, Ending, Answering, Silent
<1>2. Others(h, g, c)
  BY <1>1 DEF Others, SameConn, OnlyConn
<1>3. CASE Waiting(o, g, c, 0, msg.imsi)
  <2>1. Core(g) /\ Held(g, c, 0, "WAIT_TA") /\ Open(g, c) /\ g.sccp[c] = p
    BY <1>3 DEF Waiting
  <2>2. g.conn[c].lb_peer = p
    BY <2>1, DataAssumption DEF Core, Attached, Held
  <2> QED
    BY <1>2, <2>1, <2>2 DEF Opens, Held
<1>4. CASE Silent(o, g, c, 0)
  BY <1>2, <1>4 DEF Opens, Silent, Ended
<1>5. ASSUME NEW cell_id, Answering(o, g, c, 0, cell_id)
      PROVE  Opens(h, g, c, p)
  BY <1>2, <1>5 DEF Opens, Answering, Ended
<1>6. CASE /\ g.conn[c] # NULL /\ g.conn[c].smlc_loc_req = NULL
           /\ o.sccp[c] \in {NULL, g.conn[c].lb_peer}
           /\ g.sccp = o.sccp /\ g.sent = o.sent
  BY <1>2, <1>6, DataAssumption DEF Opens
<1> QED
  BY <1>3, <1>4, <1>5, <1>6 DEF Began, Ending

\* A BSC opens a connection.
LEMMA ConnectEffect ==
  ASSUME HeapOK(g_smlc), CellsOK,
         NEW c \in ConnIds, NEW p \in Peers, NEW msg \in Message, NEW failing,
         g_smlc.sccp[c] = NULL
  PROVE  Opens(g_smlc, UpCoInitial(Opened(Before, c, p), p, c, msg, failing), c, p)
<1> DEFINE o == Opened(Before, c, p)
           g == UpCoInitial(o, p, c, msg, failing)
<1>1. /\ HeapOK(Before) /\ Before \in Heap
      /\ Before.conn = g_smlc.conn /\ Before.sccp = g_smlc.sccp /\ Before.sent = g_smlc.sent
  BY BeforeOK DEF HeapOK, Core
<1>2. /\ o.conn = g_smlc.conn /\ o.sccp[c] = p /\ o.sent[c] = <<>>
      /\ Others(g_smlc, o, c)
  BY <1>1, OpenedFields DEF Others, SameConn
<1>3. g_smlc.conn[c] = NULL => Opens(g_smlc, g, c, p)
  <2> SUFFICES ASSUME g_smlc.conn[c] = NULL
               PROVE  Opens(g_smlc, g, c, p)
    OBVIOUS
  <2>1. HeapOK(o)
    BY <1>1, OpenedOK
  <2> HIDE DEF o
  <2>2. \/ o.lb_peers[p] = "READY" /\ Began(o, g, c, msg, failing)
        \/ HeapOK(g) /\ Turned(o, g, p, c)
    BY <1>2, <2>1, InitialOK
  <2> HIDE DEF g
  <2>3. CASE Began(o, g, c, msg, failing)
    BY <1>2, <2>3, BeganEffect
  <2>4. CASE Turned(o, g, p, c)
    BY <1>2, <2>4 DEF Turned, Opens, Others, SameConn
  <2> QED
    BY <2>2, <2>3, <2>4
<1>4. g_smlc.conn[c] # NULL => Opens(g_smlc, g, c, p)
  <2> SUFFICES ASSUME g_smlc.conn[c] # NULL
               PROVE  Opens(g_smlc, g, c, p)
    OBVIOUS
  <2>1. g = sccp_lb_disconnect(o, c)
    BY <1>2 DEF UpCoInitial, lb_conns
  <2>2. o \in Heap
    BY <1>1, OpenedFields
  <2> HIDE DEF o, g
  <2>3. /\ g.conn = o.conn /\ g.sent = o.sent /\ g.sccp[c] = NULL
        /\ \A d \in ConnIds \ {c} : g.sccp[d] = o.sccp[d]
    BY <2>1, <2>2, DisconnectFields
  <2> QED
    BY <1>2, <2>3 DEF Opens, Others, SameConn
<1> QED
  BY <1>3, <1>4 DEF g, o

\* A message on a connection.
LEMMA DataEffect ==
  ASSUME HeapOK(g_smlc), CellsOK, NEW c \in ConnIds, NEW msg \in Message, NEW failing
  PROVE  Effect(g_smlc, UpCo(Before, c, msg, failing))
<1> DEFINE g == UpCo(Before, c, msg, failing)
<1>1. /\ HeapOK(Before)
      /\ Before.conn = g_smlc.conn /\ Before.sccp = g_smlc.sccp /\ Before.sent = g_smlc.sent
  BY BeforeOK
<1>2. \/ g = Before
      \/ Before.conn[c] # NULL /\ Ending(Before, g, c, 0, failing, AskedCell(Before, c, msg))
      \/ Before.conn[c] # NULL /\ Silent(Before, g, c, 0)
  BY <1>1, FurtherOK
<1> HIDE DEF g
<1>3. g = Before \/ (Before.conn[c] # NULL /\ Ends(Before, g, c))
  BY <1>2, EndsEffect
<1>4. Stays(g_smlc, g) \/ Ends(g_smlc, g, c)
  BY <1>1, <1>3 DEF Stays, Ends, Others, SameConn, Answers
<1> QED
  BY <1>4 DEF Effect, g

\* The BSC closes a connection, with a message or without.
LEMMA DisconnectEffect ==
  ASSUME HeapOK(g_smlc), CellsOK, NEW c \in ConnIds, NEW msg \in Message \cup {NULL}, NEW failing
  PROVE  LET gone == sccp_lb_disconnect(Before, c)
             received == IF msg = NULL THEN gone ELSE UpCo(gone, c, msg, failing)
         IN  Effect(g_smlc, sccp_lb_disconnect(received, c))
<1> DEFINE gone == sccp_lb_disconnect(Before, c)
           received == IF msg = NULL THEN gone ELSE UpCo(gone, c, msg, failing)
           g == sccp_lb_disconnect(received, c)
<1>1. /\ HeapOK(Before) /\ Before \in Heap
      /\ Before.conn = g_smlc.conn /\ Before.sccp = g_smlc.sccp /\ Before.sent = g_smlc.sent
  BY BeforeOK DEF HeapOK, Core
<1>2. /\ HeapOK(gone)
      /\ gone.conn = g_smlc.conn /\ gone.sent = g_smlc.sent /\ gone.sccp[c] = NULL
      /\ \A d \in ConnIds \ {c} : gone.sccp[d] = g_smlc.sccp[d]
  BY <1>1, Disconnect, DisconnectFields
<1> HIDE DEF gone
<1>3. HeapOK(received) /\ (received = gone \/ (gone.conn[c] # NULL /\ Ends(gone, received, c)))
  <2>1. CASE msg = NULL
    BY <1>2, <2>1
  <2>2. CASE msg # NULL
    <3>1. msg \in Message
      BY <2>2
    <3> DEFINE f == UpCo(gone, c, msg, failing)
    <3>2. /\ HeapOK(f)
          /\ \/ f = gone
             \/ gone.conn[c] # NULL /\ Ending(gone, f, c, 0, failing, AskedCell(gone, c, msg))
             \/ gone.conn[c] # NULL /\ Silent(gone, f, c, 0)
      BY <1>2, <3>1, FurtherOK
    <3> HIDE DEF f
    <3>3. f = gone \/ (gone.conn[c] # NULL /\ Ends(gone, f, c))
      BY <3>2, EndsEffect
    <3> QED
      BY <2>2, <3>2, <3>3 DEF f
  <2> QED
    BY <2>1, <2>2
<1> HIDE DEF received
<1>4. /\ g.conn = received.conn /\ g.sent = received.sent /\ g.sccp[c] = NULL
      /\ \A d \in ConnIds \ {c} : g.sccp[d] = received.sccp[d]
  BY <1>3, DisconnectFields DEF HeapOK, Core
<1> HIDE DEF g
<1>5. received = gone => Effect(g_smlc, g)
  BY <1>2, <1>4 DEF Effect, HangsUp, Others, SameConn
<1>6. gone.conn[c] # NULL /\ Ends(gone, received, c) => Effect(g_smlc, g)
  <2> SUFFICES ASSUME gone.conn[c] # NULL, Ends(gone, received, c)
               PROVE  Effect(g_smlc, g)
    OBVIOUS
  <2>1. received.sent[c] = gone.sent[c] /\ received.conn[c] = NULL /\ Others(gone, received, c)
    BY <1>2 DEF Ends
  <2>2. Ends(g_smlc, g, c)
    BY <1>2, <1>4, <2>1 DEF Ends, Others, SameConn
  <2> QED
    BY <2>2 DEF Effect
<1>7. Effect(g_smlc, g)
  BY <1>3, <1>5, <1>6
<1> QED
  BY <1>7 DEF g, received, gone

\* Timer T-12 expires.
LEMMA TimerEffect ==
  ASSUME HeapOK(g_smlc), NEW c \in ConnIds, g_smlc.conn[c] # NULL, NEW failing, NEW cell_id
  PROVE  LET g == smlc_loc_req_fsm_timer_cb(Before, c, failing)
         IN  Ends(g_smlc, g, c) /\ Ending(Before, g, c, 0, failing, cell_id)
<1> DEFINE g == smlc_loc_req_fsm_timer_cb(Before, c, failing)
<1>1. /\ HeapOK(Before) /\ Before.conn[c] # NULL
      /\ Before.conn = g_smlc.conn /\ Before.sccp = g_smlc.sccp /\ Before.sent = g_smlc.sent
  BY BeforeOK
<1>2. Core(Before) /\ Held(Before, c, 0, "WAIT_TA")
  BY <1>1 DEF HeapOK, Quiet
<1>3. Ending(Before, g, c, 0, failing, cell_id)
  BY <1>2, TimerOutcome
<1> HIDE DEF g
<1>4. Ends(Before, g, c)
  BY <1>1, <1>3, EndsEffect
<1>5. Ends(g_smlc, g, c)
  BY <1>1, <1>4 DEF Ends, Others, SameConn, Answers
<1> QED
  BY <1>3, <1>5 DEF g

\* Every handler has one of the effects.
LEMMA HandlerEffect ==
  ASSUME HeapOK(g_smlc), CellsOK, Next
  PROVE  Effect(g_smlc, g_smlc') \/ Restart
<1>1. /\ HeapOK(Before) /\ Before \in Heap
      /\ Before.conn = g_smlc.conn /\ Before.sccp = g_smlc.sccp /\ Before.sent = g_smlc.sent
  BY BeforeOK DEF HeapOK, Core
<1>2. ASSUME NEW c \in ConnIds, NEW failing \in Outages, NEW p \in Peers, NEW msg \in Message,
             N_CONNECT(c, p, msg, failing)
      PROVE  Effect(g_smlc, g_smlc')
  <2>1. g_smlc' = UpCoInitial(Opened(Before, c, p), p, c, msg, failing) /\ g_smlc.sccp[c] = NULL
    BY <1>2 DEF N_CONNECT, Handle
  <2> QED
    BY <2>1, ConnectEffect DEF Effect
<1>3. ASSUME NEW c \in ConnIds, NEW failing \in Outages, NEW msg \in Message, N_DATA(c, msg, failing)
      PROVE  Effect(g_smlc, g_smlc')
  BY <1>3, DataEffect DEF N_DATA, Handle
<1>4. ASSUME NEW c \in ConnIds, NEW failing \in Outages, NEW msg \in Message \cup {NULL},
             N_DISCONNECT(c, msg, failing)
      PROVE  Effect(g_smlc, g_smlc')
  <2> DEFINE gone == sccp_lb_disconnect(Before, c)
             received == IF msg = NULL THEN gone ELSE UpCo(gone, c, msg, failing)
  <2>1. g_smlc' = sccp_lb_disconnect(received, c)
    BY <1>4 DEF N_DISCONNECT, Handle, sccp_lb_disconnect
  <2>2. Effect(g_smlc, sccp_lb_disconnect(received, c))
    BY DisconnectEffect
  <2> QED
    BY <2>1, <2>2
<1>5. ASSUME NEW c \in ConnIds, NEW failing \in Outages, TimeoutT12(c, failing)
      PROVE  Effect(g_smlc, g_smlc')
  BY <1>5, TimerEffect DEF TimeoutT12, T12Runs, Handle, Pending, lb_conns, Effect
<1>6. ASSUME NEW p \in Peers, NEW failing \in Outages, NEW type \in {"RESET", "RESET_ACK", "unsupported"},
             N_UNITDATA(p, type, failing)
      PROVE  Effect(g_smlc, g_smlc')
  <2> DEFINE g == UpCl(Before, p, type, failing)
  <2>1. g_smlc' = g
    BY <1>6 DEF N_UNITDATA, Handle
  <2>2. \/ Discarded(Before, g, p)
        \/ g.conn = Before.conn /\ g.sccp = Before.sccp /\ g.sent = Before.sent
    BY <1>1, ConnectionlessOK
  <2> HIDE DEF g
  <2>3. Discarded(Before, g, p) => Discarded(g_smlc, g, p)
    BY <1>1 DEF Discarded, ConnsOf, lb_conns
  <2> QED
    BY <1>1, <2>1, <2>2, <2>3 DEF Effect, Stays, SameConn
<1>7. ASSUME NEW p \in Peers, TimeoutT13(p)
      PROVE  Effect(g_smlc, g_smlc')
  BY <1>1, <1>7, PeerFields DEF TimeoutT13, T13Runs, Handle, Effect, Stays, SameConn
<1>8. N_CONNECT_Empty \/ Vty => Effect(g_smlc, g_smlc')
  BY <1>1 DEF N_CONNECT_Empty, Vty, Handle, Effect, Stays, SameConn
<1> QED
  BY <1>2, <1>3, <1>4, <1>5, <1>6, <1>7, <1>8 DEF Next

\* A process that has failed does nothing before it is started again.
LEMMA FailedStops == Failed(g_smlc) /\ [Next]_vars => Restart \/ UNCHANGED vars
<1>1. Failed(g_smlc) => ~Running /\ ~Vty
  BY DEF Failed, Running, Vty
<1> QED
  BY <1>1 DEF Next, N_CONNECT, N_CONNECT_Empty, N_DATA, N_DISCONNECT, N_UNITDATA, TimeoutT12, T12Runs, TimeoutT13, T13Runs

\* Every step has one of the effects, or the process starts again.
LEMMA StepEffect == Inv /\ [Next]_vars => Effect(g_smlc, g_smlc') \/ Restart
<1> SUFFICES ASSUME Inv, [Next]_vars
             PROVE  Effect(g_smlc, g_smlc') \/ Restart
  OBVIOUS
<1>1. CellsOK
  BY DEF Inv, Cells!TypeOK, CellsOK
<1>2. CASE UNCHANGED vars
  BY <1>2 DEF vars, Effect, Stays, SameConn
<1>3. CASE Next /\ HeapOK(g_smlc)
  BY <1>1, <1>3, HandlerEffect
<1>4. CASE Next /\ Failed(g_smlc)
  BY <1>2, <1>4, FailedStops
<1> QED
  BY <1>2, <1>3, <1>4 DEF Inv, HeapInv

----------------------------------------------------------------------------
(* What follows for single connections.                                    *)

\* An SCCP connection that loses its object, or never gets one, is one that its
\* BSC is told to forget, or that the program waits to be told to.
THEOREM OrphansReset == Spec => OrphansAreReset
<1>1. Inv /\ [Next]_vars =>
        [\A c \in ConnIds : ~Orphan(c) /\ Orphan(c)' =>
           LET p == g_smlc'.sccp[c]
           IN  \/ \E m \in g_smlc'.unitdata : m.to = p
               \/ g_smlc'.lb_peers[p] = "WAIT_RX_RESET"]_vars
  <2> SUFFICES ASSUME Inv, [Next]_vars, NEW c \in ConnIds, ~Orphan(c), Orphan(c)'
               PROVE  Told(g_smlc', g_smlc'.sccp[c])
    BY DEF Told
  <2>1. g_smlc'.sccp[c] # NULL /\ g_smlc'.conn[c] = NULL
    BY DEF Orphan, Alive, lb_conns
  <2>2. g_smlc.sccp[c] = NULL \/ g_smlc.conn[c] # NULL
    BY DEF Orphan, Alive, lb_conns
  <2>3. ~Restart
    BY <2>1 DEF Restart, EmptyHeap
  <2>4. Effect(g_smlc, g_smlc')
    BY <2>3, StepEffect
  <2>5. ~SameConn(g_smlc, g_smlc', c)
    BY <2>1, <2>2 DEF SameConn
  <2>6. ASSUME NEW d \in ConnIds, NEW p \in Peers, Opens(g_smlc, g_smlc', d, p)
        PROVE  Told(g_smlc', g_smlc'.sccp[c])
    BY <2>1, <2>5, <2>6 DEF Opens, Others
  <2>7. ASSUME NEW d \in ConnIds, Ends(g_smlc, g_smlc', d) \/ HangsUp(g_smlc, g_smlc', d)
        PROVE  Told(g_smlc', g_smlc'.sccp[c])
    BY <2>1, <2>5, <2>7 DEF Ends, HangsUp, Others
  <2>8. ASSUME NEW p \in Peers, Discarded(g_smlc, g_smlc', p)
        PROVE  Told(g_smlc', g_smlc'.sccp[c])
    <3>1. c \in ConnsOf(g_smlc, p) /\ g_smlc'.sccp[c] = g_smlc.sccp[c]
      BY <2>1, <2>2, <2>8 DEF Discarded
    <3>2. HeapOK(g_smlc)
      BY <2>3, <2>5, FailedStops DEF Inv, HeapInv, vars, SameConn
    <3>3. g_smlc'.sccp[c] = p
      BY <2>1, <3>1, <3>2 DEF HeapOK, Core, Attached, ConnsOf, lb_conns
    <3> QED
      BY <2>8, <3>3 DEF Discarded
  <2> QED
    BY <2>4, <2>5, <2>6, <2>7, <2>8 DEF Effect, Stays
<1> QED
  BY <1>1, HeapInOrder, PTL DEF Spec, OrphansAreReset

\* A request that has ended while its BSC listens has been answered.
LEMMA AnswerIsSeen ==
  ASSUME NEW h \in Heap, NEW g, NEW c \in ConnIds, NEW failing, NEW cell_id,
         Ending(h, g, c, 0, failing, cell_id), ~Mute(h, c, failing)
  PROVE  \E i \in DOMAIN g.sent[c] : IsResponse(g.sent[c][i])
<1>1. PICK r \in ResponsesFor(cell_id) : g.sent[c] = Append(h.sent[c], r)
  BY DEF Ending, Answering
<1>2. IsResponse(r)
  BY DEF ResponsesFor, IsResponse, Failure, Location
<1>3. h.sent[c] \in Seq(Pdu)
  BY HeapFields
<1>4. r \in Pdu
  BY DEF ResponsesFor, Pdu
<1>5. /\ Len(h.sent[c]) + 1 \in DOMAIN g.sent[c]
      /\ g.sent[c][Len(h.sent[c]) + 1] = r
  BY <1>1, <1>3, <1>4
<1> QED
  BY <1>2, <1>5

\* What a handler for connection d does to a request on another connection.
LEMMA OthersGoOn ==
  ASSUME HeapOK(g_smlc), CellsOK, NEW d \in ConnIds, NEW failing, NEW h \in AfterEvent(d, failing),
         NEW c \in ConnIds \ {d}
  PROVE  h.conn[c] = g_smlc.conn[c]
<1>1. HeapOK(Before) /\ Before.conn = g_smlc.conn
  BY BeforeOK
<1>2. ASSUME NEW p \in Peers, NEW msg \in Message, g_smlc.sccp[d] = NULL,
             h = UpCoInitial(Opened(Before, d, p), p, d, msg, failing)
      PROVE  h.conn[c] = g_smlc.conn[c]
  BY <1>2, ConnectEffect DEF Opens, Others, SameConn
<1>3. ASSUME NEW msg \in Message, h = UpCo(Before, d, msg, failing)
      PROVE  h.conn[c] = g_smlc.conn[c]
  BY <1>1, <1>3, FurtherOK DEF Ending, Answering, Silent, OnlyConn
<1>4. ASSUME Pending(d), h = smlc_loc_req_fsm_timer_cb(Before, d, failing)
      PROVE  h.conn[c] = g_smlc.conn[c]
  <2>1. g_smlc.conn[d] # NULL
    BY <1>4 DEF Pending, lb_conns
  <2>2. Ends(g_smlc, h, d)
    BY <1>4, <2>1, TimerEffect
  <2> QED
    BY <2>2 DEF Ends, Others, SameConn
<1>5. CASE g_smlc.sccp[d] = NULL
  <2>1. \E p \in Peers, msg \in Message : h = UpCoInitial(Opened(Before, d, p), p, d, msg, failing)
    BY <1>5 DEF AfterEvent
  <2> QED
    BY <1>2, <1>5, <2>1
<1>6. CASE g_smlc.sccp[d] # NULL
  BY <1>3, <1>4, <1>6 DEF AfterEvent
<1> QED
  BY <1>5, <1>6

\* A request has ended with a release, and with a response if one can be sent.
ReleasedAfter(h, c, failing) ==
    /\ h.sccp[c] = NULL
    /\ \/ \E i \in DOMAIN h.sent[c] : IsResponse(h.sent[c][i])
       \/ failing \cap {"enc_cause", "send_co"} # {}

\* What a handler for its own connection does to a request.
LEMMA OwnIsAnswered ==
  ASSUME HeapOK(g_smlc), CellsOK, NEW c \in ConnIds, NEW failing, NEW h \in AfterEvent(c, failing),
         Pending(c), g_smlc.sccp[c] # NULL
  PROVE  h.conn[c] # NULL \/ ReleasedAfter(h, c, failing)
<1>1. /\ HeapOK(Before) /\ Before \in Heap
      /\ Before.conn = g_smlc.conn /\ Before.sccp = g_smlc.sccp
  BY BeforeOK DEF HeapOK, Core
<1>2. g_smlc.conn[c] # NULL
  BY <1>1 DEF Pending, lb_conns
<1>3. ASSUME NEW cell_id, Ending(Before, h, c, 0, failing, cell_id)
      PROVE  ReleasedAfter(h, c, failing)
  <2>1. h.sccp[c] = NULL
    BY <1>3 DEF Ending, Answering, Silent, Ended
  <2>2. CASE Mute(Before, c, failing)
    BY <1>1, <2>1, <2>2 DEF Mute, ReleasedAfter
  <2>3. CASE ~Mute(Before, c, failing)
    BY <1>1, <1>3, <2>1, <2>3, AnswerIsSeen DEF ReleasedAfter
  <2> QED
    BY <2>2, <2>3
<1>4. ASSUME NEW msg \in Message, msg.type # "perform_loc_abort", h = UpCo(Before, c, msg, failing)
      PROVE  h.conn[c] # NULL \/ ReleasedAfter(h, c, failing)
  <2>1. h = Before \/ Ending(Before, h, c, 0, failing, AskedCell(Before, c, msg))
    BY <1>1, <1>2, <1>4, FurtherOK
  <2> QED
    BY <1>1, <1>2, <1>3, <2>1
<1>5. ASSUME h = smlc_loc_req_fsm_timer_cb(Before, c, failing)
      PROVE  ReleasedAfter(h, c, failing)
  <2>1. Ending(Before, h, c, 0, failing, NULL)
    BY <1>2, <1>5, TimerEffect
  <2> QED
    BY <1>3, <2>1
<1> QED
  BY <1>4, <1>5 DEF AfterEvent

\* No event and no outage ends a request without a release, and none but that of
\* the failure response itself without a response, to a BSC that listens.
THEOREM RequestsAnswered == Spec => []EndsInAnswer
<1>1. Inv => EndsInAnswer
  <2> SUFFICES ASSUME Inv, Running, NEW c \in ConnIds, NEW d \in ConnIds, NEW failing \in Outages,
                      Pending(c), g_smlc.sccp[c] # NULL,
                      NEW h \in AfterEvent(d, failing)
               PROVE  h.conn[c] # NULL \/ ReleasedAfter(h, c, failing)
    BY DEF EndsInAnswer, ReleasedAfter
  <2>1. HeapOK(g_smlc) /\ CellsOK
    BY DEF Inv, HeapInv, Failed, Running, Cells!TypeOK, CellsOK
  <2>2. CASE d = c
    BY <2>1, <2>2, OwnIsAnswered
  <2>3. CASE d # c
    BY <2>1, <2>3, OthersGoOn DEF Pending, lb_conns
  <2> QED
    BY <2>2, <2>3
<1> QED
  BY <1>1, HeapInOrder, PTL

\* A report of a cell is answered with the position of an entry that has its CI.
LEMMA ReportedCell ==
  ASSUME CellsOK, NEW latest \in Cells!CellId, latest.ci # NoPart, NEW ci \in Cis,
         NEW lat_lon \in Positions, Location(lat_lon) \in ResponsesFor(update_ci(latest, ci))
  PROVE  \E i \in DOMAIN cell_locations :
           cell_locations[i].lat_lon = lat_lon /\ cell_locations[i].cell_id.ci = ci
<1> DEFINE asked == update_ci(latest, ci)
<1>1. asked.ci = ci /\ ci # NoPart
  BY DataAssumption DEF update_ci, Cells!CellId
<1>2. lat_lon = Cells!cell_location_from_ta(cell_locations, asked)
  BY DEF ResponsesFor, Location, Failure
<1> HIDE DEF asked
<1>3. lat_lon # NoPart
  BY DataAssumption
<1>4. PICK i \in DOMAIN cell_locations, exact \in BOOLEAN :
        /\ cell_locations[i].lat_lon = lat_lon
        /\ Cells!gsm0808_cell_ids_match(cell_locations[i].cell_id, asked, exact)
  BY <1>2, <1>3, PositionType
<1>5. cell_locations[i] \in Cells!CellLocation
  BY DEF CellsOK
<1>6. cell_locations[i].cell_id.ci \in Cis
  BY <1>5 DEF Cells!CellLocation, Cells!ConfigId, Cells!LacCi, Cells!Cgi
<1>7. cell_locations[i].cell_id.ci = ci
  BY <1>1, <1>4, <1>6, DataAssumption DEF Cells!gsm0808_cell_ids_match, Cells!Agree
<1> QED
  BY <1>4, <1>7

\* A response is a longer history than before, and says what it says.
LEMMA OneMore ==
  ASSUME NEW sent \in Seq(Pdu), NEW r, NEW s
  PROVE  Append(sent, r) # sent /\ (Append(sent, r) = Append(sent, s) => r = s)
<1>1. Len(Append(sent, r)) = Len(sent) + 1 /\ Append(sent, r)[Len(sent) + 1] = r
  OBVIOUS
<1>2. Append(sent, s)[Len(sent) + 1] = s
  OBVIOUS
<1> QED
  BY <1>1, <1>2

\* After a handover within the BSC, the location is that of the new cell, as it is
\* configured when the report arrives.
THEOREM HandoverFollowed == Spec => LocationFollowsHandover
<1>1. Inv /\ [Next]_vars =>
        [\A c \in ConnIds, lat_lon \in Positions, ci \in Cis :
           /\ Pending(c) /\ g_smlc.conn[c].smlc_loc_req.latest_cell_id.ci # NoPart
           /\ g_smlc'.sent[c] = Append(g_smlc.sent[c], Location(lat_lon))
           /\ \E failing \in Outages, type \in {"ta_response", "bsslap_reset"} :
                N_DATA(c, [type |-> type, ci |-> ci], failing)
           => \E i \in DOMAIN cell_locations :
                cell_locations[i].lat_lon = lat_lon /\ cell_locations[i].cell_id.ci = ci]_vars
  <2> SUFFICES ASSUME Inv, NEW c \in ConnIds, NEW lat_lon \in Positions, NEW ci \in Cis,
                      Pending(c), g_smlc.conn[c].smlc_loc_req.latest_cell_id.ci # NoPart,
                      g_smlc'.sent[c] = Append(g_smlc.sent[c], Location(lat_lon)),
                      NEW failing \in Outages, NEW type \in {"ta_response", "bsslap_reset"},
                      N_DATA(c, [type |-> type, ci |-> ci], failing)
               PROVE  \E i \in DOMAIN cell_locations :
                        cell_locations[i].lat_lon = lat_lon /\ cell_locations[i].cell_id.ci = ci
    OBVIOUS
  <2> DEFINE msg == [type |-> type, ci |-> ci]
             latest == g_smlc.conn[c].smlc_loc_req.latest_cell_id
             h == g_smlc'
  <2>1. msg \in Message /\ msg.type \in {"ta_response", "bsslap_reset"} /\ msg.ci = ci
    BY DEF Message, TaReport
  <2>2. HeapOK(g_smlc) /\ CellsOK /\ h = UpCo(Before, c, msg, failing)
    BY DEF N_DATA, Handle, Running, Inv, HeapInv, Failed, Cells!TypeOK, CellsOK
  <2> HIDE DEF msg, h
  <2>3. /\ HeapOK(Before)
        /\ Before.conn = g_smlc.conn /\ Before.sent = g_smlc.sent
    BY <2>2, BeforeOK
  <2>4. AskedCell(Before, c, msg) = update_ci(latest, ci)
    BY <2>1, <2>3 DEF AskedCell
  <2>5. g_smlc.conn[c].smlc_loc_req \in LocReq /\ g_smlc.sent[c] \in Seq(Pdu)
    BY <2>2, HeapFields, ConnFields DEF HeapOK, Core, Pending, lb_conns
  <2>6. latest \in Cells!CellId
    BY <2>5 DEF LocReq
  <2> HIDE DEF latest
  <2>7. h.sent[c] = Append(g_smlc.sent[c], Location(lat_lon)) /\ h.sent[c] # g_smlc.sent[c]
    BY <2>5, OneMore DEF h
  <2>8. Answering(Before, h, c, 0, update_ci(latest, ci))
    BY <2>1, <2>2, <2>3, <2>4, <2>7, FurtherOK DEF Ending, Silent
  <2>9. PICK r \in ResponsesFor(update_ci(latest, ci)) : h.sent[c] = Append(g_smlc.sent[c], r)
    BY <2>3, <2>8 DEF Answering
  <2>10. r = Location(lat_lon)
    BY <2>5, <2>7, <2>9, OneMore
  <2> QED
    BY <2>2, <2>6, <2>9, <2>10, ReportedCell DEF latest
<1> QED
  BY <1>1, HeapInOrder, PTL DEF Spec, LocationFollowsHandover

----------------------------------------------------------------------------
(* The service.                                                            *)

Requests(h) == [c \in ConnIds |-> Requester(h, c)]
LastResponses(h) == [c \in ConnIds |-> ResponseOn(h, c)]

\* Between two handlers a connection has a request for its BSC, and no response yet.
LEMMA ConnIsRequest ==
  ASSUME NEW h, HeapOK(h), NEW c \in ConnIds, h.conn[c] # NULL
  PROVE  /\ Requester(h, c) = h.conn[c].lb_peer /\ h.conn[c].lb_peer \in Peers
         /\ h.sccp[c] \in {NULL, h.conn[c].lb_peer}
         /\ Open(h, c)
  BY DEF HeapOK, Core, Quiet, Held, Attached, SentOK, Requester, lb_conns

\* Connections that are the same have the same views.
LEMMA SameViews ==
  ASSUME NEW h, NEW g, NEW c \in ConnIds, SameConn(h, g, c)
  PROVE  Requester(g, c) = Requester(h, c) /\ ResponseOn(g, c) = ResponseOn(h, c)
  BY DEF SameConn, Requester, ResponseOn, lb_conns

\* What was sent says what the BSC has got.
LEMMA ResponseSeen ==
  ASSUME NEW h, NEW c \in ConnIds
  PROVE  /\ Open(h, c) => ResponseOn(h, c) = NULL
         /\ \A sent \in Seq(Pdu), r \in Responses : h.sent[c] = Append(sent, r) => ResponseOn(h, c) = r
<1>1. h.sent[c] = <<>> => ResponseOn(h, c) = NULL
  BY DEF ResponseOn
<1>2. h.sent[c] = Append(<<>>, TaRequest) => ResponseOn(h, c) = NULL
  BY DEF ResponseOn, IsResponse, TaRequest, Last
<1>3. ASSUME NEW sent \in Seq(Pdu), NEW r \in Responses, h.sent[c] = Append(sent, r)
      PROVE  ResponseOn(h, c) = r
  <2>1. h.sent[c] # <<>> /\ Last(h.sent[c]) = r
    BY <1>3 DEF Last
  <2> QED
    BY <2>1 DEF ResponseOn, Responses
<1> QED
  BY <1>1, <1>2, <1>3 DEF Open, Asked

\* A response names a position that is configured.
LEMMA ResponseIsAnswer ==
  ASSUME CellsOK, NEW cell_id, NEW r \in ResponsesFor(cell_id)
  PROVE  r \in Responses /\ r \in Service!Answers
<1> DEFINE lat_lon == Cells!cell_location_from_ta(cell_locations, cell_id)
<1>1. lat_lon = NoPart \/ lat_lon \in KnownPositions
  BY PositionType DEF KnownPositions
<1>2. NoPart \notin Positions
  BY DataAssumption
<1> HIDE DEF lat_lon
<1>3. r \in {Failure(cause) : cause \in LcsCauses} \/ (r = Location(lat_lon) /\ lat_lon \in Positions)
  BY DEF ResponsesFor, lat_lon
<1> QED
  BY <1>1, <1>2, <1>3, PduTypes DEF Service!Answers, Service!Location, Location

\* A connection changes, and the others do not.
LEMMA Changed ==
  ASSUME NEW h \in Heap, NEW g \in Heap, NEW c \in ConnIds, Others(h, g, c)
  PROVE  /\ g.sccp = [h.sccp EXCEPT ![c] = g.sccp[c]]
         /\ Requests(g) = [Requests(h) EXCEPT ![c] = Requester(g, c)]
         /\ LastResponses(g) = [LastResponses(h) EXCEPT ![c] = ResponseOn(g, c)]
<1>1. g.sccp = [h.sccp EXCEPT ![c] = g.sccp[c]]
  BY HeapFields DEF Others, SameConn
<1>2. \A d \in ConnIds \ {c} : Requester(g, d) = Requester(h, d) /\ ResponseOn(g, d) = ResponseOn(h, d)
  BY SameViews DEF Others
<1> QED
  BY <1>1, <1>2 DEF Requests, LastResponses

\* The views that the service is about, before and after a step.
LEMMA Views ==
  /\ [c \in ConnIds |-> Requester(g_smlc, c)] = Requests(g_smlc)
  /\ [c \in ConnIds |-> ResponseOn(g_smlc, c)] = LastResponses(g_smlc)
  /\ [c \in ConnIds |-> Requester(g_smlc, c)]' = Requests(g_smlc')
  /\ [c \in ConnIds |-> ResponseOn(g_smlc, c)]' = LastResponses(g_smlc')
  BY DEF Requests, LastResponses

\* The opening of a connection is one of the four of the service.
LEMMA OpensIsStep ==
  ASSUME HeapOK(g_smlc), g_smlc' \in Heap, CellsOK, UNCHANGED cell_locations,
         NEW c \in ConnIds, NEW p \in Peers, Opens(g_smlc, g_smlc', c, p)
  PROVE  Service!Next
<1> DEFINE h == g_smlc
           g == g_smlc'
<1>1. /\ h \in Heap /\ g \in Heap /\ h.sccp[c] = NULL /\ Others(h, g, c)
      /\ UNCHANGED KnownPositions
  BY DEF HeapOK, Core, Opens, KnownPositions
<1>2. /\ g.sccp = [h.sccp EXCEPT ![c] = g.sccp[c]]
      /\ Requests(g) = [Requests(h) EXCEPT ![c] = Requester(g, c)]
      /\ LastResponses(g) = [LastResponses(h) EXCEPT ![c] = ResponseOn(g, c)]
  BY <1>1, Changed
<1>3. /\ Requests(h)[c] = Requester(h, c)
      /\ g.conn[c] = NULL => Requester(g, c) = NULL
      /\ h.conn[c] = NULL => Requester(h, c) = NULL
      /\ g.sent[c] = <<>> => ResponseOn(g, c) = NULL
  BY ResponseSeen DEF Requests, Requester, lb_conns, Open, Asked
<1>4. [h.sccp EXCEPT ![c] = NULL] = h.sccp /\ [Requests(h) EXCEPT ![c] = Requester(h, c)] = Requests(h)
  BY <1>1, <1>3, HeapFields DEF Requests
<1>5. CASE /\ h.conn[c] = NULL /\ g.conn[c] # NULL /\ g.conn[c].smlc_loc_req # NULL
           /\ g.conn[c].lb_peer = p /\ g.sccp[c] = p /\ Open(g, c)
  <2>1. Requester(g, c) = p /\ ResponseOn(g, c) = NULL
    BY <1>5, ResponseSeen DEF Requester, lb_conns
  <2>2. Service!Accept(c, p)
    BY <1>1, <1>2, <1>3, <1>5, <2>1, Views DEF Service!Accept
  <2> QED
    BY <2>2 DEF Service!Next
<1>6. CASE /\ h.conn[c] = NULL /\ g.conn[c] = NULL /\ g.sccp[c] = NULL
           /\ \E cell_id : \E r \in ResponsesFor(cell_id) : g.sent[c] = Append(<<>>, r)
  <2>1. PICK cell_id : \E r \in ResponsesFor(cell_id) : g.sent[c] = Append(<<>>, r)
    BY <1>6
  <2>2. PICK r \in ResponsesFor(cell_id) : g.sent[c] = Append(<<>>, r)
    BY <2>1
  <2>3. r \in Responses /\ r \in Service!Answers
    BY ResponseIsAnswer
  <2>4. ResponseOn(g, c) = r
    <3>1. <<>> \in Seq(Pdu)
      OBVIOUS
    <3> QED
      BY <2>2, <2>3, <3>1, ResponseSeen
  <2>5. Service!AnswerAtOnce(c, r)
    BY <1>1, <1>2, <1>3, <1>4, <1>6, <2>4, Views DEF Service!AnswerAtOnce
  <2> QED
    BY <2>3, <2>5 DEF Service!Next
<1>7. CASE g.conn[c] = h.conn[c] /\ g.sccp[c] = NULL /\ g.sent[c] = <<>>
  <2>1. Requester(g, c) = Requester(h, c)
    BY <1>7 DEF Requester, lb_conns
  <2>2. Service!Refuse(c)
    BY <1>1, <1>2, <1>3, <1>4, <1>7, <2>1, Views DEF Service!Refuse
  <2> QED
    BY <2>2 DEF Service!Next
<1>8. CASE /\ h.conn[c] = NULL /\ Requester(g, c) = NULL
           /\ g.sccp[c] = p /\ g.sent[c] = <<>>
  <2>1. Service!Ignore(c, p)
    BY <1>1, <1>2, <1>3, <1>4, <1>8, Views DEF Service!Ignore
  <2> QED
    BY <2>1 DEF Service!Next
<1>9. g.conn[c] # NULL /\ g.conn[c].smlc_loc_req = NULL => Requester(g, c) = NULL
  BY DEF Requester
<1> QED
  BY <1>3, <1>5, <1>6, <1>7, <1>8, <1>9 DEF Opens

\* The end of a request is an answer or its withdrawal.
LEMMA EndsIsStep ==
  ASSUME HeapOK(g_smlc), g_smlc' \in Heap, CellsOK, UNCHANGED cell_locations,
         NEW c \in ConnIds, Ends(g_smlc, g_smlc', c)
  PROVE  Service!Next
<1> DEFINE h == g_smlc
           g == g_smlc'
<1>1. /\ h \in Heap /\ g \in Heap /\ g.sccp[c] = NULL /\ Others(h, g, c)
      /\ h.conn[c] # NULL /\ g.conn[c] = NULL
      /\ UNCHANGED KnownPositions
  BY DEF HeapOK, Core, Ends, KnownPositions
<1>2. /\ g.sccp = [h.sccp EXCEPT ![c] = NULL]
      /\ Requests(g) = [Requests(h) EXCEPT ![c] = Requester(g, c)]
      /\ LastResponses(g) = [LastResponses(h) EXCEPT ![c] = ResponseOn(g, c)]
  BY <1>1, Changed
<1>3. /\ Requester(h, c) \in Peers /\ h.sccp[c] \in {NULL, Requester(h, c)}
      /\ ResponseOn(h, c) = NULL
      /\ Requester(g, c) = NULL
  BY <1>1, ConnIsRequest, ResponseSeen DEF Requester, lb_conns
<1>4. Requests(h)[c] = Requester(h, c) /\ LastResponses(h)[c] = ResponseOn(h, c) /\ NULL \notin Peers
  BY DataAssumption DEF Requests, LastResponses
<1>5. CASE g.sent[c] = h.sent[c]
  <2>1. ResponseOn(g, c) = ResponseOn(h, c)
    BY <1>5 DEF ResponseOn
  <2>2. LastResponses(g) = LastResponses(h)
    BY <1>2, <1>4, <2>1 DEF LastResponses
  <2>3. Service!Withdraw(c)
    BY <1>1, <1>2, <1>3, <1>4, <2>2, Views DEF Service!Withdraw
  <2> QED
    BY <2>3 DEF Service!Next
<1>6. CASE h.sccp[c] # NULL /\ Answers(h, g, c)
  <2>1. PICK cell_id : \E r \in ResponsesFor(cell_id) : g.sent[c] = Append(h.sent[c], r)
    BY <1>6 DEF Answers
  <2>2. PICK r \in ResponsesFor(cell_id) : g.sent[c] = Append(h.sent[c], r)
    BY <2>1
  <2>3. r \in Responses /\ r \in Service!Answers
    BY ResponseIsAnswer
  <2>4. ResponseOn(g, c) = r
    BY <1>1, <2>2, <2>3, ResponseSeen, HeapFields
  <2>5. Service!Answer(c, r)
    BY <1>1, <1>2, <1>3, <1>4, <1>6, <2>4, Views DEF Service!Answer
  <2> QED
    BY <2>3, <2>5 DEF Service!Next
<1> QED
  BY <1>5, <1>6 DEF Ends

\* A BSC that closes a connection hangs up.
LEMMA HangsUpIsStep ==
  ASSUME HeapOK(g_smlc), g_smlc' \in Heap, UNCHANGED cell_locations,
         NEW c \in ConnIds, HangsUp(g_smlc, g_smlc', c)
  PROVE  Service!Next
<1> DEFINE h == g_smlc
           g == g_smlc'
<1>1. /\ h \in Heap /\ g \in Heap /\ g.sccp[c] = NULL /\ Others(h, g, c)
      /\ UNCHANGED KnownPositions
  BY DEF HeapOK, Core, HangsUp, KnownPositions
<1>2. g.sccp = [h.sccp EXCEPT ![c] = NULL]
  BY <1>1, Changed
<1>3. \A d \in ConnIds : g.conn[d] = h.conn[d] /\ g.sent[d] = h.sent[d]
  BY DEF HangsUp, Others, SameConn
<1>4. Requests(g) = Requests(h) /\ LastResponses(g) = LastResponses(h)
  BY <1>3 DEF Requests, LastResponses, Requester, ResponseOn, lb_conns
<1>5. Service!HangUp(c)
  BY <1>1, <1>2, <1>4, Views DEF Service!HangUp
<1> QED
  BY <1>5 DEF Service!Next

\* A RESET procedure ends the requests of its peer.
LEMMA DiscardedIsStep ==
  ASSUME HeapOK(g_smlc), UNCHANGED cell_locations,
         NEW p \in Peers, Discarded(g_smlc, g_smlc', p)
  PROVE  Service!Next
<1> DEFINE h == g_smlc
           g == g_smlc'
<1>1. /\ g.sccp = h.sccp /\ g.sent = h.sent
      /\ UNCHANGED KnownPositions
  BY DEF Discarded, KnownPositions
<1>2. LastResponses(g) = LastResponses(h)
  BY <1>1 DEF LastResponses, ResponseOn
<1>3. ASSUME NEW c \in ConnIds
      PROVE  Requester(g, c) = IF Requester(h, c) = p THEN NULL ELSE Requester(h, c)
  <2>1. g.conn[c] = IF c \in ConnsOf(h, p) THEN NULL ELSE h.conn[c]
    BY DEF Discarded
  <2>2. CASE h.conn[c] = NULL
    BY <2>1, <2>2, DataAssumption DEF Requester, lb_conns
  <2>3. CASE h.conn[c] # NULL /\ h.conn[c].lb_peer = p
    <3>1. g.conn[c] = NULL
      BY <2>1, <2>3 DEF ConnsOf, lb_conns
    <3> QED
      BY <2>3, <3>1, ConnIsRequest DEF Requester, lb_conns
  <2>4. CASE h.conn[c] # NULL /\ h.conn[c].lb_peer # p
    <3>1. g.conn[c] = h.conn[c]
      BY <2>1, <2>4 DEF ConnsOf
    <3>2. Requester(g, c) = Requester(h, c)
      BY <3>1 DEF Requester, lb_conns
    <3> QED
      BY <2>4, <3>2, ConnIsRequest
  <2> QED
    BY <2>2, <2>3, <2>4
<1>4. \A c \in ConnIds : Requests(h)[c] = Requester(h, c)
  BY DEF Requests
<1>5. Requests(g) = [c \in ConnIds |-> IF Requests(h)[c] = p THEN NULL ELSE Requests(h)[c]]
  BY <1>3, <1>4 DEF Requests
<1>6. Service!Reset(p)
  BY <1>1, <1>2, <1>5, Views DEF Service!Reset
<1> QED
  BY <1>6 DEF Service!Next

\* A process that has just been started knows no connection and no position.
LEMMA FreshViews ==
  /\ EmptyHeap.sccp = Service!None
  /\ Requests(EmptyHeap) = Service!None /\ LastResponses(EmptyHeap) = Service!None
<1>1. \A c \in ConnIds : Requester(EmptyHeap, c) = NULL /\ ResponseOn(EmptyHeap, c) = NULL
  BY DEF EmptyHeap, Requester, ResponseOn, lb_conns
<1> QED
  BY <1>1 DEF EmptyHeap, Service!None, Requests, LastResponses

\* What no handler of a message or timer changes.
LEMMA ListUnchanged == Next => UNCHANGED cell_locations \/ Vty \/ Restart
  BY DEF Next, N_CONNECT, N_CONNECT_Empty, N_DATA, N_DISCONNECT, N_UNITDATA, TimeoutT12, T12Runs, TimeoutT13, T13Runs,
         Handle, cellVars

\* Every step of the process is a step of the service, or none that BSCs see.
LEMMA ServiceStep ==
  ASSUME Inv, HeapInv', Cells!TypeOK', [Next]_vars
  PROVE  [Service!Next]_(Service!vars)
<1>1. CellsOK /\ g_smlc' \in Heap
  BY DEF Inv, HeapInv, HeapOK, Core, Failed, Cells!TypeOK, CellsOK
<1>2. CASE UNCHANGED <<g_smlc, cell_locations>>
  BY <1>2 DEF Service!vars, Requester, ResponseOn, KnownPositions
<1>3. CASE Restart
  <2>1. g_smlc' = EmptyHeap /\ cell_locations' = <<>>
    BY <1>3 DEF Restart, Cells!Restart
  <2>2. KnownPositions' = {}
    BY <2>1 DEF KnownPositions
  <2>3. Service!Restart
    BY <2>1, <2>2, FreshViews, Views DEF Service!Restart
  <2> QED
    BY <2>3 DEF Service!Next
<1>4. CASE Vty
  <2>1. UNCHANGED g_smlc
    BY <1>4 DEF Vty
  <2>2. KnownPositions' \in SUBSET Positions
    <3>1. cell_locations' \in Seq(Cells!CellLocation)
      BY DEF Cells!TypeOK
    <3>2. \A i \in DOMAIN cell_locations' : cell_locations'[i] \in Cells!CellLocation
      BY <3>1
    <3>3. \A i \in DOMAIN cell_locations' : cell_locations'[i].lat_lon \in Positions
      BY <3>2 DEF Cells!CellLocation
    <3> QED
      BY <3>3 DEF KnownPositions
  <2>3. Service!Configure(KnownPositions')
    BY <2>1, Views DEF Service!Configure
  <2> QED
    BY <2>2, <2>3 DEF Service!Next
<1>5. CASE /\ HeapOK(g_smlc) /\ Effect(g_smlc, g_smlc') /\ UNCHANGED cell_locations
  <2>1. CASE Stays(g_smlc, g_smlc')
    <3>1. \A c \in ConnIds : Requester(g_smlc', c) = Requester(g_smlc, c) /\ ResponseOn(g_smlc', c) = ResponseOn(g_smlc, c)
      BY <2>1, SameViews DEF Stays
    <3>2. UNCHANGED KnownPositions
      BY <1>5 DEF KnownPositions
    <3>3. g_smlc'.sccp = g_smlc.sccp
      BY <1>1, <1>5, <2>1, HeapFields DEF Stays, SameConn, HeapOK, Core
    <3>4. Requests(g_smlc') = Requests(g_smlc) /\ LastResponses(g_smlc') = LastResponses(g_smlc)
      BY <3>1 DEF Requests, LastResponses
    <3> QED
      BY <3>2, <3>3, <3>4, Views DEF Service!vars
  <2>2. CASE ~Stays(g_smlc, g_smlc')
    BY <1>1, <1>5, <2>2, OpensIsStep, EndsIsStep, HangsUpIsStep, DiscardedIsStep DEF Effect
  <2> QED
    BY <2>1, <2>2
<1>6. CASE Failed(g_smlc)
  BY <1>2, <1>3, <1>6, FailedStops DEF vars
<1>7. CASE HeapOK(g_smlc)
  <2>1. Effect(g_smlc, g_smlc') \/ Restart
    BY StepEffect
  <2>2. UNCHANGED cell_locations \/ Vty \/ Restart
    BY ListUnchanged DEF vars
  <2> QED
    BY <1>3, <1>4, <1>5, <1>7, <2>1, <2>2
<1> QED
  BY <1>6, <1>7 DEF Inv, HeapInv

\* The process is the location service, for every number of BSCs, connections and
\* subscribers, and whatever fails: no handler reaches beyond its connection or
\* its BSC, nobody is answered who has not asked or has hung up, and no position
\* is named that the operator has not configured.
THEOREM ServiceRefinement == Spec => ImplementsService
<1>1. Init => Service!Init
  <2> SUFFICES ASSUME Init
               PROVE  Service!Init
    OBVIOUS
  <2>1. g_smlc = EmptyHeap /\ KnownPositions = {}
    BY DEF Init, Cells!Init, KnownPositions
  <2> QED
    BY <2>1, FreshViews, Views DEF Service!Init
<1>2. Inv /\ HeapInv' /\ Cells!TypeOK' /\ [Next]_vars => [Service!Next]_(Service!vars)
  BY ServiceStep
<1>3. Inv => HeapInv /\ Cells!TypeOK
  BY DEF Inv
<1> QED
  BY <1>1, <1>2, <1>3, HeapInOrder, PTL DEF Spec, ImplementsService, Service!Spec

----------------------------------------------------------------------------
(* What follows for the BSCs.                                              *)

\* A handler starts with nothing sent.
LEMMA BeforeSends ==
  ASSUME HeapOK(g_smlc)
  PROVE  Before \in Heap /\ Before.unitdata = {}
<1>1. g_smlc \in Heap
  BY DEF HeapOK, Core
<1> QED
  BY <1>1, BeforeOK DEF Before, HeapOK, Core, Heap

\* A message, the BSC's farewell or T-12 on a connection.
LEMMA ConnStep ==
  ASSUME HeapOK(g_smlc), CellsOK, NEW c \in ConnIds, NEW failing,
         \/ \E msg \in Message : N_DATA(c, msg, failing)
         \/ \E msg \in Message \cup {NULL} : N_DISCONNECT(c, msg, failing)
         \/ TimeoutT12(c, failing)
  PROVE  /\ Others(g_smlc, g_smlc', c)
         /\ g_smlc'.lb_peers = g_smlc.lb_peers /\ g_smlc'.unitdata = {}
         /\ g_smlc'.conn[c] \in {g_smlc.conn[c], NULL}
         /\ \/ g_smlc'.sccp[c] = NULL
            \/ SameConn(g_smlc, g_smlc', c) /\ \E msg \in Message : N_DATA(c, msg, failing)
<1> DEFINE g == g_smlc'
           Alone == /\ Others(g_smlc, g, c)
                    /\ g.lb_peers = g_smlc.lb_peers /\ g.unitdata = {}
                    /\ g.conn[c] \in {g_smlc.conn[c], NULL}
<1>1. /\ HeapOK(Before) /\ Before \in Heap /\ Before.unitdata = {}
      /\ Before.conn = g_smlc.conn /\ Before.sccp = g_smlc.sccp /\ Before.sent = g_smlc.sent
      /\ Before.lb_peers = g_smlc.lb_peers
  BY BeforeOK, BeforeSends
<1>2. ASSUME OnlyConn(Before, g, c), g.conn[c] \in {Before.conn[c], NULL}
      PROVE  Alone
  BY <1>1, <1>2 DEF OnlyConn, Others, SameConn
<1>3. ASSUME NEW msg \in Message, N_DATA(c, msg, failing)
      PROVE  Alone /\ (g.sccp[c] = NULL \/ SameConn(g_smlc, g, c))
  <2>1. g = UpCo(Before, c, msg, failing)
    BY <1>3 DEF N_DATA, Handle
  <2> HIDE DEF g
  <2>2. \/ g = Before
        \/ Ending(Before, g, c, 0, failing, AskedCell(Before, c, msg))
        \/ Silent(Before, g, c, 0)
    BY <1>1, <2>1, FurtherOK
  <2>3. g = Before \/ (OnlyConn(Before, g, c) /\ g.conn[c] = NULL /\ g.sccp[c] = NULL)
    BY <2>2 DEF Ending, Answering, Silent, Ended
  <2> QED
    BY <1>1, <1>2, <2>3 DEF Others, SameConn, g
<1>4. ASSUME NEW msg \in Message \cup {NULL}, N_DISCONNECT(c, msg, failing)
      PROVE  Alone /\ g.sccp[c] = NULL
  <2> DEFINE gone == sccp_lb_disconnect(Before, c)
             received == IF msg = NULL THEN gone ELSE UpCo(gone, c, msg, failing)
  <2>1. g = sccp_lb_disconnect(received, c)
    BY <1>4 DEF N_DISCONNECT, Handle, sccp_lb_disconnect
  <2>2. HeapOK(gone) /\ gone.unitdata = {}
    BY <1>1, Disconnect, DisconnectFields
  <2>3. /\ gone.conn = g_smlc.conn /\ gone.sent = g_smlc.sent /\ gone.lb_peers = g_smlc.lb_peers
        /\ \A d \in ConnIds \ {c} : gone.sccp[d] = g_smlc.sccp[d]
    BY <1>1, DisconnectFields
  <2> HIDE DEF gone
  <2>4. \/ received = gone
        \/ HeapOK(received) /\ OnlyConn(gone, received, c) /\ received.conn[c] = NULL
    <3>1. CASE msg = NULL
      BY <3>1
    <3>2. CASE msg # NULL
      <4>1. received = UpCo(gone, c, msg, failing) /\ msg \in Message
        BY <3>2
      <4> HIDE DEF received
      <4>2. /\ HeapOK(received)
            /\ \/ received = gone
               \/ Ending(gone, received, c, 0, failing, AskedCell(gone, c, msg))
               \/ Silent(gone, received, c, 0)
        BY <2>2, <4>1, FurtherOK
      <4> QED
        BY <4>2 DEF Ending, Answering, Silent, Ended
    <3> QED
      BY <3>1, <3>2
  <2> HIDE DEF g, received
  <2>5. /\ HeapOK(received) /\ received.unitdata = {} /\ received.lb_peers = g_smlc.lb_peers
        /\ received.conn[c] \in {g_smlc.conn[c], NULL}
        /\ Others(g_smlc, received, c)
    BY <2>2, <2>3, <2>4 DEF OnlyConn, Others, SameConn
  <2>6. received \in Heap
    BY <2>5 DEF HeapOK, Core
  <2>7. /\ g.conn = received.conn /\ g.sent = received.sent /\ g.lb_peers = received.lb_peers
        /\ g.unitdata = received.unitdata
        /\ g.sccp[c] = NULL /\ \A d \in ConnIds \ {c} : g.sccp[d] = received.sccp[d]
    BY <2>1, <2>6, DisconnectFields
  <2> QED
    BY <2>5, <2>7 DEF Others, SameConn
<1>5. ASSUME TimeoutT12(c, failing)
      PROVE  Alone /\ g.sccp[c] = NULL
  <2>1. g = smlc_loc_req_fsm_timer_cb(Before, c, failing) /\ g_smlc.conn[c] # NULL
    BY <1>5 DEF TimeoutT12, T12Runs, Handle, Pending, lb_conns
  <2> HIDE DEF g
  <2>2. Ending(Before, g, c, 0, failing, NULL)
    BY <2>1, TimerEffect
  <2>3. OnlyConn(Before, g, c) /\ g.conn[c] = NULL /\ g.sccp[c] = NULL
    BY <2>2 DEF Ending, Answering, Silent, Ended
  <2> QED
    BY <1>2, <2>3 DEF g
<1> QED
  BY <1>3, <1>4, <1>5

\* A handler about peer p leaves the other peers as they are and tells them
\* nothing.
Peerful(h) == {"lb_peers", "unitdata"} \subseteq DOMAIN h /\ DOMAIN h.lb_peers = Peers
OnlyPeer(h, g, p) ==
    /\ Peerful(g)
    /\ \A q \in Peers \ {p} : g.lb_peers[q] = h.lb_peers[q]
    /\ \A m \in g.unitdata : m \in h.unitdata \/ m.to = p

LEMMA HeapPeerful == ASSUME NEW h \in Heap PROVE Peerful(h)
  BY HeapFields DEF Heap, Peerful

LEMMA OnlyPeerTwice ==
  ASSUME NEW h, NEW g, NEW k, NEW p, OnlyPeer(h, g, p), OnlyPeer(g, k, p)
  PROVE  OnlyPeer(h, k, p)
  BY DEF OnlyPeer

\* The single steps of the RESET procedure.
LEMMA ProcedureSteps ==
  ASSUME NEW h, Peerful(h), NEW p \in Peers, NEW state, NEW type, NEW why, NEW c
  PROVE  /\ OnlyPeer(h, h, p)
         /\ OnlyPeer(h, lb_peer_state_chg(h, p, state), p)
         /\ OnlyPeer(h, Tx(h, p, type), p)
         /\ OnlyPeer(h, Fault(h, why), p)
         /\ OnlyPeer(h, lb_peer_discard_all_conns(h, p), p)
         /\ OnlyPeer(h, sccp_lb_disconnect(h, c), p)
         /\ OnlyPeer(h, lb_peer_find_or_create(h, p), p)
<1>1. OnlyPeer(h, h, p)
  BY DEF OnlyPeer
<1>2. ASSUME NEW s
      PROVE  OnlyPeer(h, lb_peer_state_chg(h, p, s), p)
  BY DEF OnlyPeer, Peerful, lb_peer_state_chg
<1>3. OnlyPeer(h, Tx(h, p, type), p)
  <2>1. Tx(h, p, type).unitdata = h.unitdata \cup {[to |-> p, type |-> type]}
    BY DEF Peerful, Tx
  <2>2. DOMAIN Tx(h, p, type) = DOMAIN h /\ Tx(h, p, type).lb_peers = h.lb_peers
    BY DEF Peerful, Tx
  <2> QED
    BY <2>1, <2>2 DEF OnlyPeer, Peerful
<1>4. OnlyPeer(h, Fault(h, why), p)
  BY DEF OnlyPeer, Peerful, Fault
<1>5. OnlyPeer(h, lb_peer_discard_all_conns(h, p), p)
  BY DEF OnlyPeer, Peerful, lb_peer_discard_all_conns
<1>6. OnlyPeer(h, sccp_lb_disconnect(h, c), p)
  BY DEF OnlyPeer, Peerful, sccp_lb_disconnect
<1>7. OnlyPeer(h, lb_peer_find_or_create(h, p), p)
  BY <1>1, <1>2 DEF lb_peer_find_or_create, lb_peer_state_chg
<1> QED
  BY <1>1, <1>2, <1>3, <1>4, <1>5, <1>6, <1>7

\* The procedure in its two directions.
LEMMA ProcedureOnlyPeer ==
  ASSUME NEW h, Peerful(h), NEW p \in Peers, NEW failing
  PROVE  /\ OnlyPeer(h, lb_peer_reset(h, p, failing), p)
         /\ OnlyPeer(h, lb_peer_rx_reset(h, p, failing), p)
<1>1. OnlyPeer(h, lb_peer_reset(h, p, failing), p)
  <2> DEFINE changed == lb_peer_state_chg(h, p, "WAIT_RX_RESET_ACK")
             discarded == lb_peer_discard_all_conns(changed, p)
  <2>1. OnlyPeer(h, changed, p)
    BY ProcedureSteps
  <2> HIDE DEF changed
  <2>2. OnlyPeer(h, discarded, p)
    BY <2>1, ProcedureSteps, OnlyPeerTwice DEF OnlyPeer
  <2> HIDE DEF discarded
  <2>3. /\ OnlyPeer(discarded, lb_peer_state_chg(discarded, p, "WAIT_RX_RESET"), p)
        /\ OnlyPeer(discarded, Tx(discarded, p, "RESET"), p)
    BY <2>2, ProcedureSteps DEF OnlyPeer
  <2>4. lb_peer_reset(h, p, failing) \in {lb_peer_state_chg(discarded, p, "WAIT_RX_RESET"), Tx(discarded, p, "RESET")}
    BY DEF lb_peer_reset, changed, discarded
  <2> QED
    BY <2>2, <2>3, <2>4, OnlyPeerTwice
<1>2. OnlyPeer(h, lb_peer_rx_reset(h, p, failing), p)
  <2> DEFINE discarded == lb_peer_discard_all_conns(h, p)
             waiting == lb_peer_state_chg(discarded, p, "WAIT_RX_RESET")
             told == Tx(discarded, p, "RESET_ACK")
             why == "double free"
  <2>1. OnlyPeer(h, discarded, p)
    BY ProcedureSteps
  <2>2. lb_peer_rx_reset(h, p, failing) \in {waiting, Fault(waiting, why), lb_peer_state_chg(told, p, "READY")}
    BY DEF lb_peer_rx_reset
  <2> HIDE DEF discarded
  <2>3. OnlyPeer(h, waiting, p) /\ OnlyPeer(h, told, p)
    BY <2>1, ProcedureSteps, OnlyPeerTwice DEF OnlyPeer
  <2> HIDE DEF waiting, told, why
  <2>4. OnlyPeer(h, Fault(waiting, why), p) /\ OnlyPeer(h, lb_peer_state_chg(told, p, "READY"), p)
    BY <2>3, ProcedureSteps, OnlyPeerTwice DEF OnlyPeer
  <2> QED
    BY <2>2, <2>3, <2>4
<1> QED
  BY <1>1, <1>2

\* A connection that a peer opens, whether it is served, refused or answered
\* with a RESET.
LEMMA ConnectOnlyPeer ==
  ASSUME HeapOK(g_smlc), CellsOK, NEW c \in ConnIds, NEW p \in Peers, NEW msg \in Message,
         NEW failing, N_CONNECT(c, p, msg, failing)
  PROVE  OnlyPeer(Before, g_smlc', p)
<1> DEFINE o == Opened(Before, c, p)
           known == lb_peer_find_or_create(o, p)
           g == UpCoInitial(o, p, c, msg, failing)
<1>1. HeapOK(Before) /\ Before \in Heap /\ Before.conn = g_smlc.conn
  BY BeforeOK DEF HeapOK, Core
<1>2. /\ o \in Heap /\ o.lb_peers = Before.lb_peers /\ o.unitdata = Before.unitdata
      /\ o.conn = g_smlc.conn /\ o.sccp[c] = p /\ o.sent[c] = <<>>
      /\ g_smlc.conn[c] = NULL => HeapOK(o)
  BY <1>1, OpenedFields, OpenedOK
<1>3. g_smlc' = g
  BY DEF N_CONNECT, Handle
<1> HIDE DEF o
<1>4. Peerful(o) /\ OnlyPeer(Before, o, p)
  BY <1>2, HeapPeerful DEF OnlyPeer
<1> SUFFICES OnlyPeer(o, g, p)
  BY <1>3, <1>4, OnlyPeerTwice
<1>5. CASE g_smlc.conn[c] # NULL
  <2>1. g = sccp_lb_disconnect(o, c)
    BY <1>2, <1>5 DEF UpCoInitial, lb_conns
  <2> QED
    BY <1>4, <2>1, ProcedureSteps
<1>6. CASE g_smlc.conn[c] = NULL /\ o.lb_peers[p] = "READY"
  <2> HIDE DEF g
  <2>1. (HeapOK(g) \/ Failed(g)) /\ Began(o, g, c, msg, failing)
    BY <1>2, <1>6, InitialOK DEF g
  <2>2. OnlyConn(o, g, c)
    BY <2>1 DEF Began, Waiting, Ending, Answering, Silent
  <2>3. g \in Heap
    BY <2>1 DEF HeapOK, Core, Failed
  <2> QED
    BY <2>2, <2>3, HeapPeerful DEF OnlyConn, OnlyPeer
<1>7. CASE g_smlc.conn[c] = NULL /\ o.lb_peers[p] # "READY"
  <2>1. OnlyPeer(o, known, p) /\ known.conn = o.conn /\ known.lb_peers[p] \in PeerStates \ {"READY"}
    <3>1. o.lb_peers[p] = NULL => known = lb_peer_state_chg(o, p, "WAIT_RX_RESET")
      BY DEF lb_peer_find_or_create, lb_peer_state_chg
    <3>2. o.lb_peers[p] # NULL => known = o
      BY DEF lb_peer_find_or_create
    <3>3. lb_peer_state_chg(o, p, "WAIT_RX_RESET").lb_peers[p] = "WAIT_RX_RESET"
      BY <1>2, PeerFields
    <3>4. known.lb_peers[p] # "READY"
      BY <1>7, <3>1, <3>2, <3>3
    <3> QED
      BY <1>2, <1>4, <1>7, <3>4, FindOrCreate, ProcedureSteps
  <2>2. g = DispatchCo(known, p, c, TRUE, msg, failing)
    BY <1>2, <1>7 DEF UpCoInitial, lb_conns
  <2> HIDE DEF known, g
  <2>3. CASE known.lb_peers[p] = "WAIT_RX_RESET"
    <3>1. g = lb_peer_reset(known, p, failing)
      BY <1>2, <1>7, <2>1, <2>2, <2>3 DEF DispatchCo, lb_peer_st_wait_rx_reset, lb_peer_disconnect, lb_conns
    <3>2. OnlyPeer(known, g, p)
      BY <2>1, <3>1, ProcedureOnlyPeer DEF OnlyPeer
    <3> QED
      BY <2>1, <3>2, OnlyPeerTwice
  <2>4. CASE known.lb_peers[p] = "WAIT_RX_RESET_ACK"
    <3> DEFINE f == sccp_lb_disconnect(known, c)
    <3>1. g = lb_peer_reset(f, p, failing)
      BY <2>2, <2>4 DEF DispatchCo, lb_peer_st_wait_rx_reset_ack
    <3>2. OnlyPeer(o, f, p)
      BY <2>1, ProcedureSteps, OnlyPeerTwice DEF OnlyPeer
    <3> HIDE DEF f
    <3>3. OnlyPeer(f, g, p)
      BY <3>1, <3>2, ProcedureOnlyPeer DEF OnlyPeer
    <3> QED
      BY <3>2, <3>3, OnlyPeerTwice
  <2> QED
    BY <2>1, <2>3, <2>4 DEF PeerStates
<1> QED
  BY <1>5, <1>6, <1>7

\* A unitdata message of a peer, or its T-13.
LEMMA UnitdataOnlyPeer ==
  ASSUME HeapOK(g_smlc), NEW p \in Peers, NEW failing, NEW type \in {"RESET", "RESET_ACK", "unsupported"},
         N_UNITDATA(p, type, failing) \/ TimeoutT13(p)
  PROVE  OnlyPeer(Before, g_smlc', p)
<1> DEFINE known == lb_peer_find_or_create(Before, p)
           g == UpCl(Before, p, type, failing)
<1>1. Peerful(Before)
  BY BeforeSends, HeapPeerful
<1>2. OnlyPeer(Before, known, p)
  BY <1>1, ProcedureSteps
<1>3. CASE TimeoutT13(p)
  BY <1>1, <1>3, ProcedureSteps DEF TimeoutT13, Handle
<1>4. CASE N_UNITDATA(p, type, failing)
  <2> HIDE DEF known
  <2>1. OnlyPeer(known, lb_peer_rx_reset(known, p, failing), p)
    BY <1>2, ProcedureOnlyPeer DEF OnlyPeer
  <2>2. OnlyPeer(known, lb_peer_state_chg(known, p, "READY"), p) /\ OnlyPeer(known, known, p)
    BY <1>2, ProcedureSteps DEF OnlyPeer
  <2>3. g \in {lb_peer_rx_reset(known, p, failing), lb_peer_state_chg(known, p, "READY"), known}
    BY DEF UpCl, known
  <2>4. g_smlc' = g
    BY <1>4 DEF N_UNITDATA, Handle
  <2> HIDE DEF g
  <2> QED
    BY <1>2, <2>1, <2>2, <2>3, <2>4, OnlyPeerTwice
<1> QED
  BY <1>3, <1>4

\* The last handler has dealt with peer r, if with any.
Within(r) ==
    /\ \A q \in Peers \ {r} : g_smlc'.lb_peers[q] = g_smlc.lb_peers[q]
    /\ \A m \in g_smlc'.unitdata : m.to = r
    /\ \A c \in ConnIds :
         \/ SameConn(g_smlc, g_smlc', c)
         \/ /\ g_smlc.sccp[c] \in {NULL, r} /\ g_smlc'.sccp[c] \in {NULL, r}
            /\ \/ g_smlc'.conn[c] = g_smlc.conn[c]
               \/ \A h \in {g_smlc, g_smlc'} : h.conn[c] # NULL => h.conn[c].lb_peer = r

LEMMA TouchedWithin ==
  ASSUME NEW r, Within(r), NEW q \in Peers, Touched(q)
  PROVE  q = r
  BY DataAssumption DEF Within, Touched, SameConn

\* Every handler deals with one peer: that of the message or of the timer.
LEMMA HandlerWithin ==
  ASSUME HeapOK(g_smlc), CellsOK, Next, ~Restart, ~Vty
  PROVE  \E r : Within(r)
<1> DEFINE g == g_smlc'
<1>1. /\ HeapOK(Before) /\ Before \in Heap /\ Before.unitdata = {}
      /\ Before.conn = g_smlc.conn /\ Before.sccp = g_smlc.sccp /\ Before.sent = g_smlc.sent
      /\ Before.lb_peers = g_smlc.lb_peers
  BY BeforeOK, BeforeSends
<1>2. ASSUME NEW p \in Peers, OnlyPeer(Before, g, p)
      PROVE  /\ \A q \in Peers \ {p} : g.lb_peers[q] = g_smlc.lb_peers[q]
             /\ \A m \in g.unitdata : m.to = p
  BY <1>1, <1>2 DEF OnlyPeer
<1>3. ASSUME NEW c \in ConnIds, NEW failing \in Outages, NEW p \in Peers, NEW msg \in Message,
             N_CONNECT(c, p, msg, failing)
      PROVE  Within(p)
  <2>1. Opens(g_smlc, g, c, p)
    BY <1>3, ConnectEffect DEF N_CONNECT, Handle
  <2>2. OnlyPeer(Before, g, p)
    BY <1>3, ConnectOnlyPeer
  <2>3. \A d \in ConnIds \ {c} : SameConn(g_smlc, g, d)
    BY <2>1 DEF Opens, Others
  <2>4. /\ g_smlc.sccp[c] = NULL /\ g.sccp[c] \in {NULL, p}
        /\ \/ g.conn[c] = g_smlc.conn[c]
           \/ g_smlc.conn[c] = NULL /\ g.conn[c].lb_peer = p
    BY <2>1 DEF Opens
  <2> QED
    BY <1>2, <2>2, <2>3, <2>4 DEF Within
<1>4. ASSUME NEW c \in ConnIds, NEW failing \in Outages,
             \/ \E msg \in Message : N_DATA(c, msg, failing)
             \/ \E msg \in Message \cup {NULL} : N_DISCONNECT(c, msg, failing)
             \/ TimeoutT12(c, failing)
      PROVE  \E r : Within(r)
  <2> DEFINE r == IF g_smlc.conn[c] # NULL THEN g_smlc.conn[c].lb_peer ELSE g_smlc.sccp[c]
  <2>1. /\ Others(g_smlc, g, c) /\ g.lb_peers = g_smlc.lb_peers /\ g.unitdata = {}
        /\ g.conn[c] \in {g_smlc.conn[c], NULL}
        /\ g.sccp[c] = NULL \/ SameConn(g_smlc, g, c)
    BY <1>4, ConnStep
  <2>2. g_smlc.sccp[c] \in {NULL, r}
    BY DEF HeapOK, Core, Attached
  <2>3. \A d \in ConnIds \ {c} : SameConn(g_smlc, g, d)
    BY <2>1 DEF Others
  <2>4. \A h \in {g_smlc, g} : h.conn[c] # NULL => h.conn[c].lb_peer = r
    BY <2>1
  <2>5. Within(r)
    BY <2>1, <2>2, <2>3, <2>4 DEF Within
  <2> QED
    BY <2>5
<1>5. ASSUME NEW p \in Peers, NEW failing \in Outages, NEW type \in {"RESET", "RESET_ACK", "unsupported"},
             N_UNITDATA(p, type, failing)
      PROVE  Within(p)
  <2>1. g = UpCl(Before, p, type, failing)
    BY <1>5 DEF N_UNITDATA, Handle
  <2>2. OnlyPeer(Before, g, p)
    BY <1>5, UnitdataOnlyPeer
  <2> HIDE DEF g
  <2>3. \/ Discarded(Before, g, p)
        \/ g.conn = Before.conn /\ g.sccp = Before.sccp /\ g.sent = Before.sent
    BY <1>1, <2>1, ConnectionlessOK
  <2>4. CASE Discarded(Before, g, p)
    <3>1. \A c \in ConnIds : \/ SameConn(g_smlc, g, c)
                             \/ c \in ConnsOf(Before, p) /\ g.conn[c] = NULL /\ g.sccp[c] = g_smlc.sccp[c]
      BY <1>1, <2>4 DEF Discarded, SameConn
    <3>2. \A c \in ConnsOf(Before, p) : g_smlc.conn[c].lb_peer = p /\ g_smlc.sccp[c] \in {NULL, p}
      BY <1>1 DEF HeapOK, Core, Attached, ConnsOf, lb_conns
    <3> QED
      BY <1>2, <2>2, <3>1, <3>2 DEF Within, g
  <2>5. CASE g.conn = Before.conn /\ g.sccp = Before.sccp /\ g.sent = Before.sent
    BY <1>1, <1>2, <2>2, <2>5 DEF Within, SameConn, g
  <2> QED
    BY <2>3, <2>4, <2>5
<1>6. ASSUME NEW p \in Peers, TimeoutT13(p)
      PROVE  Within(p)
  <2>1. OnlyPeer(Before, g, p)
    BY <1>6, UnitdataOnlyPeer
  <2>2. g.conn = g_smlc.conn /\ g.sccp = g_smlc.sccp /\ g.sent = g_smlc.sent
    BY <1>1, <1>6, PeerFields DEF TimeoutT13, Handle
  <2> QED
    BY <1>2, <2>1, <2>2 DEF Within, SameConn
<1>7. CASE N_CONNECT_Empty
  <2>1. Within(NULL)
    BY <1>1, <1>7 DEF N_CONNECT_Empty, Handle, Within, SameConn
  <2> QED
    BY <2>1
<1> QED
  BY <1>3, <1>4, <1>5, <1>6, <1>7 DEF Next

\* No BSC is affected by what another does, for every number of BSCs: neither by
\* its RESET, nor by a request for the same subscriber or under the same id, nor
\* by a handler that fails.
THEOREM BscsAreApart == Spec => OneBscAtATime
<1>1. Inv /\ [Next]_vars =>
        [(\A p, q \in Peers : Touched(p) /\ Touched(q) => p = q) \/ Restart]_g_smlc
  <2> SUFFICES ASSUME Inv, [Next]_vars, g_smlc' # g_smlc, ~Restart,
                      NEW p \in Peers, NEW q \in Peers, Touched(p), Touched(q)
               PROVE  p = q
    OBVIOUS
  <2>1. Next /\ ~Vty
    BY DEF vars, Vty
  <2>2. HeapOK(g_smlc) /\ CellsOK
    BY FailedStops DEF Inv, HeapInv, vars, Cells!TypeOK, CellsOK
  <2>3. PICK r : Within(r)
    BY <2>1, <2>2, HandlerWithin
  <2> QED
    BY <2>3, TouchedWithin
<1> QED
  BY <1>1, HeapInOrder, PTL DEF Spec, OneBscAtATime
============================================================================
