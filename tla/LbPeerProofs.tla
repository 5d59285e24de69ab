---------------------------- MODULE LbPeerProofs ----------------------------
(***************************************************************************)
(* What a handler of lb_peer.c makes of the heap: what is in order stays in *)
(* order, or the process fails in one of two known ways.                    *)
(***************************************************************************)
EXTENDS LbPeer, SmlcLocReqProofs, WellFoundedInduction

\* Between two handlers a connection object is held by its pending request alone.
Quiet(h, c) == h.conn[c] # NULL => Held(h, c, 0, "WAIT_TA")

\* A response has ended the exchange.
SentOK(h, c) == Open(h, c) \/ (Done(h, c) /\ h.conn[c] = NULL /\ h.sccp[c] = NULL)

\* The heap between two handlers.
HeapOK(h) == Core(h) /\ \A c \in ConnIds : Quiet(h, c) /\ SentOK(h, c)

\* The heap of a process that has failed.
Failed(h) ==
    /\ h \in Heap
    /\ h.fault # {} /\ h.fault \subseteq {"null request", "double free"}
    /\ \A c \in ConnIds : SentOK(h, c)

----------------------------------------------------------------------------
(* Changes of something else than the objects.                             *)

\* The order of the heap depends on its objects, and on what is open and sent.
LEMMA SameObjects ==
  ASSUME NEW h, HeapOK(h), NEW g \in Heap,
         g.conn = h.conn, g.ahead = h.ahead, g.subscr = h.subscr, g.fault = h.fault,
         \A c \in ConnIds : Attached(g, c) /\ SentOK(g, c)
  PROVE  HeapOK(g)
<1>1. SubscrExact(g) /\ ListExact(g)
  BY DEF HeapOK, Core, SubscrExact, Users, ListExact, lb_conns
<1>2. \A c \in ConnIds : Quiet(g, c)
  BY DEF HeapOK, Quiet, Held
<1> QED
  BY <1>1, <1>2 DEF HeapOK, Core

\* A peer that serves no connections enters a state.
LEMMA StateChange ==
  ASSUME NEW h, HeapOK(h), NEW p \in Peers, h.lb_peers[p] # "READY", NEW state \in PeerStates
  PROVE  HeapOK(lb_peer_state_chg(h, p, state))
<1> DEFINE g == lb_peer_state_chg(h, p, state)
           peers == [h.lb_peers EXCEPT ![p] = state]
<1>1. h \in Heap
  BY DEF HeapOK, Core
<1>2. peers \in [Peers -> PeerStates \cup {NULL}] /\ \A q \in Peers \ {p} : peers[q] = h.lb_peers[q]
  BY <1>1, HeapFields
<1>3. g = [h EXCEPT !.lb_peers = peers]
  BY <1>1 DEF lb_peer_state_chg, Heap
<1> HIDE DEF g, peers
<1>4. /\ g \in Heap /\ g.lb_peers = peers
      /\ g.conn = h.conn /\ g.ahead = h.ahead /\ g.subscr = h.subscr /\ g.fault = h.fault
      /\ g.sccp = h.sccp /\ g.sent = h.sent
  BY <1>1, <1>2, <1>3 DEF Heap
<1>5. ASSUME NEW c \in ConnIds
      PROVE  Attached(g, c) /\ SentOK(g, c)
  <2>1. Attached(h, c) /\ SentOK(h, c)
    BY DEF HeapOK, Core
  <2> QED
    BY <1>2, <1>4, <2>1 DEF Attached, SentOK, Open, Done
<1> QED
  BY <1>4, <1>5, SameObjects DEF g

\* A peer that is heard of for the first time waits for a RESET.
LEMMA FindOrCreate ==
  ASSUME NEW h, HeapOK(h), NEW p \in Peers
  PROVE  LET g == lb_peer_find_or_create(h, p)
         IN  /\ HeapOK(g)
             /\ g.lb_peers[p] \in PeerStates
             /\ g.conn = h.conn /\ g.sccp = h.sccp /\ g.sent = h.sent
<1>1. h \in Heap /\ h.lb_peers[p] \in PeerStates \cup {NULL}
  BY HeapFields DEF HeapOK, Core
<1>2. CASE h.lb_peers[p] = NULL
  <2> DEFINE g == lb_peer_state_chg(h, p, "WAIT_RX_RESET")
  <2>1. "WAIT_RX_RESET" \in PeerStates /\ NULL \notin PeerStates /\ "READY" \in PeerStates
    BY DataAssumption DEF PeerStates
  <2>2. h.lb_peers[p] # "READY"
    BY <1>2, <2>1
  <2>3. HeapOK(g)
    BY <2>1, <2>2, StateChange
  <2>4. g.lb_peers[p] = "WAIT_RX_RESET" /\ g.conn = h.conn /\ g.sccp = h.sccp /\ g.sent = h.sent
    BY <1>1, HeapFields DEF lb_peer_state_chg, Heap
  <2>5. lb_peer_find_or_create(h, p) = g
    BY <1>2 DEF lb_peer_find_or_create, lb_peer_state_chg
  <2> HIDE DEF g
  <2> QED
    BY <2>1, <2>3, <2>4, <2>5
<1>3. CASE h.lb_peers[p] # NULL
  BY <1>1, <1>3 DEF lb_peer_find_or_create
<1> QED
  BY <1>2, <1>3

\* The SCCP connection is released.
LEMMA Disconnect ==
  ASSUME NEW h, HeapOK(h), NEW c \in ConnIds
  PROVE  LET g == sccp_lb_disconnect(h, c)
         IN  /\ HeapOK(g)
             /\ g.lb_peers = h.lb_peers /\ g.conn = h.conn /\ g.sent = h.sent
<1> DEFINE g == sccp_lb_disconnect(h, c)
           sccp == [h.sccp EXCEPT ![c] = NULL]
<1>1. h \in Heap
  BY DEF HeapOK, Core
<1>2. sccp \in [ConnIds -> Peers \cup {NULL}] /\ \A d \in ConnIds : sccp[d] \in {NULL, h.sccp[d]}
  BY <1>1, HeapFields
<1>3. g = [h EXCEPT !.sccp = sccp]
  BY <1>1 DEF sccp_lb_disconnect, Heap
<1> HIDE DEF g, sccp
<1>4. /\ g \in Heap /\ g.sccp = sccp
      /\ g.conn = h.conn /\ g.ahead = h.ahead /\ g.subscr = h.subscr /\ g.fault = h.fault
      /\ g.lb_peers = h.lb_peers /\ g.sent = h.sent
  BY <1>1, <1>2, <1>3 DEF Heap
<1>5. ASSUME NEW d \in ConnIds
      PROVE  Attached(g, d) /\ SentOK(g, d)
  <2>1. Attached(h, d) /\ SentOK(h, d)
    BY DEF HeapOK, Core
  <2> QED
    BY <1>2, <1>4, <2>1 DEF Attached, SentOK, Open, Done
<1>6. HeapOK(g)
  BY <1>4, <1>5, SameObjects
<1> QED
  BY <1>4, <1>6 DEF g

\* A connectionless message is sent.
LEMMA TxOK ==
  ASSUME NEW h, HeapOK(h), NEW p \in Peers, NEW type \in {"RESET", "RESET_ACK"}
  PROVE  HeapOK(Tx(h, p, type)) /\ Tx(h, p, type).lb_peers = h.lb_peers
<1> DEFINE g == Tx(h, p, type)
           unitdata == h.unitdata \cup {[to |-> p, type |-> type]}
<1>1. h \in Heap
  BY DEF HeapOK, Core
<1>2. unitdata \in SUBSET Unitdata
  BY <1>1, HeapFields DEF Unitdata
<1>3. g = [h EXCEPT !.unitdata = unitdata]
  BY <1>1 DEF Tx, Heap
<1> HIDE DEF g, unitdata
<1>4. /\ g \in Heap
      /\ g.conn = h.conn /\ g.ahead = h.ahead /\ g.subscr = h.subscr /\ g.fault = h.fault
      /\ g.lb_peers = h.lb_peers /\ g.sccp = h.sccp /\ g.sent = h.sent
  BY <1>1, <1>2, <1>3 DEF Heap
<1>5. ASSUME NEW d \in ConnIds
      PROVE  Attached(g, d) /\ SentOK(g, d)
  <2>1. Attached(h, d) /\ SentOK(h, d)
    BY DEF HeapOK, Core
  <2> QED
    BY <1>4, <2>1 DEF Attached, SentOK, Open, Done
<1>6. HeapOK(g)
  BY <1>4, <1>5, SameObjects
<1> QED
  BY <1>4, <1>6 DEF g

----------------------------------------------------------------------------
(* Discarding the connections of a peer.                                   *)

\* What is left of a subscriber is what the connections that are left make of it.
LEMMA SubscrLeft ==
  ASSUME NEW h, SubscrExact(h), NEW s \in Imsis, NEW gone \in SUBSET ConnIds,
         \A c \in gone : h.conn[c] # NULL
  PROVE  SubscrWithout(h, s, gone) = UsedBy(Users(h, s) \ gone)
<1> DEFINE users == Users(h, s)
           lost == {c \in gone : h.conn[c].smlc_subscr = s}
           n == Cardinality(users)
           k == Cardinality(lost)
           m == Cardinality(users \ gone)
           use == [h.subscr[s] EXCEPT !["Lb-conn"] = @ - k]
<1>1. lost = users \cap gone
  BY DEF Users
<1>2. IsFiniteSet(users) /\ IsFiniteSet(lost) /\ IsFiniteSet(users \ gone)
  BY <1>1, UsersFinite, FS_Subset
<1>3. /\ n \in Nat /\ k \in Nat /\ m \in Nat
      /\ k = 0 <=> lost = {}
      /\ m = 0 <=> users \ gone = {}
  BY <1>2, FS_CardinalityType, FS_EmptySet
<1>4. m = n - k
  <2> HIDE DEF lost, users
  <2>1. Cardinality(users \ gone) = Cardinality(users) - Cardinality(users \cap gone)
    BY <1>2, FS_Difference
  <2> QED
    BY <1>1, <2>1
<1>5. h.subscr[s] = UsedBy(users)
  BY DEF SubscrExact
<1>6. SubscrWithout(h, s, gone) = IF k = 0 THEN h.subscr[s]
                                  ELSE IF SubscrTotal(use) = 0 THEN NULL ELSE use
  BY DEF SubscrWithout
<1>7. CASE k = 0
  <2>1. users \ gone = users
    BY <1>1, <1>3, <1>7
  <2> HIDE DEF users, k, use
  <2> QED
    BY <1>5, <1>6, <1>7, <2>1 DEF users
<1>8. CASE k # 0
  <2>1. users # {}
    BY <1>1, <1>3, <1>8
  <2>2. h.subscr[s] = SubscrUse(n, 0)
    BY <1>5, <2>1 DEF UsedBy
  <2> HIDE DEF n, k, m, users
  <2>3. use = SubscrUse(m, 0)
    <3>1. [SubscrUse(n, 0) EXCEPT !["Lb-conn"] = @ - k] = SubscrUse(m, 0)
      BY <1>3, <1>4 DEF SubscrUse, SubscrTokens
    <3> QED
      BY <2>2, <3>1
  <2>4. m \in Int /\ 0 \in Int /\ m + 0 = m
    BY <1>3
  <2>5. SubscrTotal(SubscrUse(m, 0)) = m + 0
    BY <2>4, SubscrUseValue, Zenon
  <2> HIDE DEF use
  <2>6. SubscrWithout(h, s, gone) = IF m = 0 THEN NULL ELSE SubscrUse(m, 0)
    BY <1>6, <1>8, <2>3, <2>4, <2>5
  <2> QED
    BY <1>3, <2>6 DEF UsedBy, m, users
<1> HIDE DEF k
<1> QED
  BY <1>7, <1>8

\* The peer has no connection left, and the subscribers are those of the others.
LEMMA DiscardEffect ==
  ASSUME NEW h \in Heap, SubscrExact(h), ListExact(h), NEW p \in Peers
  PROVE  LET g == lb_peer_discard_all_conns(h, p)
         IN  /\ g \in Heap /\ SubscrExact(g) /\ ListExact(g)
             /\ \A c \in ConnIds : g.conn[c] = IF c \in ConnsOf(h, p) THEN NULL ELSE h.conn[c]
             /\ g.lb_peers = h.lb_peers /\ g.sccp = h.sccp /\ g.sent = h.sent
             /\ g.unitdata = h.unitdata /\ g.fault = h.fault
<1> DEFINE gone == ConnsOf(h, p)
           g == lb_peer_discard_all_conns(h, p)
           conn == [c \in ConnIds |-> IF c \in gone THEN NULL ELSE h.conn[c]]
           ahead == {e \in h.ahead : e[1] \notin gone /\ e[2] \notin gone}
           subscr == [s \in Imsis |-> SubscrWithout(h, s, gone)]
<1>1. gone \in SUBSET ConnIds /\ \A c \in gone : h.conn[c] # NULL
  BY DEF ConnsOf, lb_conns
<1>2. \A s \in Imsis : subscr[s] = UsedBy(Users(h, s) \ gone)
  BY <1>1, SubscrLeft
<1>3. g = [h EXCEPT !.conn = conn, !.ahead = ahead, !.subscr = subscr]
  BY DEF lb_peer_discard_all_conns, Heap
<1>4. conn \in [ConnIds -> Conn \cup {NULL}]
  BY HeapFields
<1>5. subscr \in [Imsis -> Subscr \cup {NULL}]
  <2>1. ASSUME NEW s \in Imsis
        PROVE  subscr[s] \in Subscr \cup {NULL}
    <3>1. Users(h, s) \ gone \in SUBSET ConnIds
      BY DEF Users
    <3> HIDE DEF subscr, gone
    <3> QED
      BY <1>2, <3>1, UsedByType
  <2> QED
    BY <2>1
<1>6. ahead \in SUBSET (ConnIds \X ConnIds)
  BY HeapFields
<1>7. \A c \in ConnIds : conn[c] = IF c \in gone THEN NULL ELSE h.conn[c]
  OBVIOUS
<1>8. ahead = {e \in h.ahead : e[1] \notin gone /\ e[2] \notin gone}
  OBVIOUS
<1> HIDE DEF g, conn, ahead, subscr, gone
<1>9. /\ g \in Heap
      /\ g.conn = conn /\ g.ahead = ahead /\ g.subscr = subscr
      /\ g.lb_peers = h.lb_peers /\ g.sccp = h.sccp /\ g.sent = h.sent
      /\ g.unitdata = h.unitdata /\ g.fault = h.fault
  BY <1>3, <1>4, <1>5, <1>6 DEF Heap
<1>10. SubscrExact(g)
  <2>1. \A s \in Imsis : Users(g, s) = Users(h, s) \ gone
    BY <1>7, <1>9 DEF Users
  <2> QED
    BY <1>2, <1>9, <2>1 DEF SubscrExact
<1>11. ListExact(g)
  <2>1. lb_conns(g) = lb_conns(h) \ gone
    BY <1>7, <1>9 DEF lb_conns
  <2> QED
    BY <1>8, <1>9, <2>1 DEF ListExact
<1> QED
  BY <1>7, <1>9, <1>10, <1>11 DEF g, gone

\* Whatever state the peer enters when its connections are discarded, before or
\* after, the heap stays in order.
LEMMA DiscardAndChange ==
  ASSUME NEW h, HeapOK(h), NEW p \in Peers, NEW state \in PeerStates
  PROVE  /\ HeapOK(lb_peer_state_chg(lb_peer_discard_all_conns(h, p), p, state))
         /\ HeapOK(lb_peer_discard_all_conns(lb_peer_state_chg(h, p, state), p))
<1> DEFINE peers == [h.lb_peers EXCEPT ![p] = state]
           g1 == lb_peer_discard_all_conns(h, p)
           f1 == lb_peer_state_chg(g1, p, state)
           g2 == lb_peer_state_chg(h, p, state)
           f2 == lb_peer_discard_all_conns(g2, p)
           gone == ConnsOf(h, p)
<1>1. h \in Heap /\ SubscrExact(h) /\ ListExact(h)
  BY DEF HeapOK, Core
<1>2. peers \in [Peers -> PeerStates \cup {NULL}] /\ \A q \in Peers \ {p} : peers[q] = h.lb_peers[q]
  BY <1>1, HeapFields
<1>3. /\ g1 \in Heap /\ SubscrExact(g1) /\ ListExact(g1)
      /\ \A c \in ConnIds : g1.conn[c] = IF c \in gone THEN NULL ELSE h.conn[c]
      /\ g1.lb_peers = h.lb_peers /\ g1.sccp = h.sccp /\ g1.sent = h.sent /\ g1.fault = h.fault
  BY <1>1, DiscardEffect
<1>4. g2 = [h EXCEPT !.lb_peers = peers]
  BY <1>1 DEF lb_peer_state_chg, Heap
<1> HIDE DEF g1, g2, peers
<1>5. f1 = [g1 EXCEPT !.lb_peers = peers]
  BY <1>3 DEF lb_peer_state_chg, Heap, peers
<1> HIDE DEF f1
<1>6. /\ f1 \in Heap /\ f1.lb_peers = peers
      /\ f1.conn = g1.conn /\ f1.ahead = g1.ahead /\ f1.subscr = g1.subscr
      /\ f1.sccp = h.sccp /\ f1.sent = h.sent /\ f1.fault = h.fault
  BY <1>2, <1>3, <1>5 DEF Heap
<1>7. SubscrExact(f1) /\ ListExact(f1)
  BY <1>3, <1>6 DEF SubscrExact, Users, ListExact, lb_conns
<1>8. /\ g2 \in Heap /\ g2.lb_peers = peers
      /\ g2.conn = h.conn /\ g2.ahead = h.ahead /\ g2.subscr = h.subscr
      /\ g2.sccp = h.sccp /\ g2.sent = h.sent /\ g2.fault = h.fault
  BY <1>1, <1>2, <1>4 DEF Heap
<1>9. SubscrExact(g2) /\ ListExact(g2) /\ ConnsOf(g2, p) = gone
  BY <1>1, <1>8 DEF SubscrExact, Users, ListExact, lb_conns, ConnsOf
<1>10. /\ f2 \in Heap /\ SubscrExact(f2) /\ ListExact(f2)
       /\ \A c \in ConnIds : f2.conn[c] = IF c \in gone THEN NULL ELSE h.conn[c]
       /\ f2.lb_peers = peers /\ f2.sccp = h.sccp /\ f2.sent = h.sent /\ f2.fault = h.fault
  BY <1>8, <1>9, DiscardEffect
<1> HIDE DEF f2
<1>11. ASSUME NEW f \in Heap, SubscrExact(f), ListExact(f),
              \A c \in ConnIds : f.conn[c] = IF c \in gone THEN NULL ELSE h.conn[c],
              f.lb_peers = peers, f.sccp = h.sccp, f.sent = h.sent, f.fault = h.fault
       PROVE  HeapOK(f)
  <2>1. ASSUME NEW c \in ConnIds
        PROVE  Attached(f, c) /\ Quiet(f, c) /\ SentOK(f, c)
    <3>1. Attached(h, c) /\ Quiet(h, c) /\ SentOK(h, c)
      BY DEF HeapOK, Core
    <3>2. CASE f.conn[c] = NULL
      BY <1>11, <3>1, <3>2 DEF Attached, Quiet, SentOK, Open, Done
    <3>3. CASE f.conn[c] # NULL
      <4>1. f.conn[c] = h.conn[c] /\ h.conn[c].lb_peer # p
        BY <1>11, <3>3 DEF ConnsOf, lb_conns, gone
      <4> QED
        BY <1>2, <1>11, <3>1, <3>3, <4>1 DEF Attached, Quiet, Held, SentOK, Open, Done
    <3> QED
      BY <3>2, <3>3
  <2> QED
    BY <1>11, <2>1 DEF HeapOK, Core
<1>12. HeapOK(f1) /\ HeapOK(f2)
  BY <1>3, <1>6, <1>7, <1>10, <1>11
<1> QED
  BY <1>12 DEF f1, f2, g1, g2

----------------------------------------------------------------------------
(* The loop of lb_peer_discard_all_conns().                                *)

\* The heap without the connections in gone.
Without(h, gone) ==
    [h EXCEPT !.conn = [c \in ConnIds |-> IF c \in gone THEN NULL ELSE h.conn[c]],
              !.ahead = {e \in h.ahead : e[1] \notin gone /\ e[2] \notin gone},
              !.subscr = [s \in Imsis |-> UsedBy(Users(h, s) \ gone)]]

\* What the loop relies on between two rounds: connections are held by their
\* pending requests, and subscribers by the connections.
Loopable(h) ==
    /\ h \in Heap /\ SubscrExact(h)
    /\ \A c \in ConnIds : Quiet(h, c) /\ (h.conn[c] # NULL => ~h.conn[c].closing)

LEMMA WithoutFields ==
  ASSUME NEW h \in Heap, NEW gone \in SUBSET ConnIds
  PROVE  LET g == Without(h, gone)
         IN  /\ g \in Heap
             /\ g.conn = [c \in ConnIds |-> IF c \in gone THEN NULL ELSE h.conn[c]]
             /\ g.ahead = {e \in h.ahead : e[1] \notin gone /\ e[2] \notin gone}
             /\ g.subscr = [s \in Imsis |-> UsedBy(Users(h, s) \ gone)]
             /\ \A s \in Imsis : Users(g, s) = Users(h, s) \ gone
<1> DEFINE conn == [c \in ConnIds |-> IF c \in gone THEN NULL ELSE h.conn[c]]
           ahead == {e \in h.ahead : e[1] \notin gone /\ e[2] \notin gone}
           subscr == [s \in Imsis |-> UsedBy(Users(h, s) \ gone)]
           g == Without(h, gone)
<1>1. conn \in [ConnIds -> Conn \cup {NULL}] /\ ahead \in SUBSET (ConnIds \X ConnIds)
  BY HeapFields
<1>2. subscr \in [Imsis -> Subscr \cup {NULL}]
  <2>1. ASSUME NEW s \in Imsis
        PROVE  UsedBy(Users(h, s) \ gone) \in Subscr \cup {NULL}
    <3>1. Users(h, s) \ gone \in SUBSET ConnIds
      BY DEF Users
    <3> QED
      BY <3>1, UsedByType
  <2> QED
    BY <2>1
<1>3. g = [h EXCEPT !.conn = conn, !.ahead = ahead, !.subscr = subscr]
  BY DEF Without
<1>4. \A c \in ConnIds : conn[c] = IF c \in gone THEN NULL ELSE h.conn[c]
  OBVIOUS
<1> HIDE DEF conn, ahead, subscr, g
<1>5. g \in Heap /\ g.conn = conn /\ g.ahead = ahead /\ g.subscr = subscr
  BY <1>1, <1>2, <1>3 DEF Heap
<1>6. \A s \in Imsis : Users(g, s) = Users(h, s) \ gone
  BY <1>4, <1>5 DEF Users
<1> QED
  BY <1>5, <1>6 DEF g, conn, ahead, subscr

\* Every round can rely on what the first can.
LEMMA WithoutLoopable ==
  ASSUME NEW h, Loopable(h), NEW gone \in SUBSET ConnIds
  PROVE  Loopable(Without(h, gone))
<1> DEFINE g == Without(h, gone)
<1>1. /\ g \in Heap
      /\ g.conn = [c \in ConnIds |-> IF c \in gone THEN NULL ELSE h.conn[c]]
      /\ g.subscr = [s \in Imsis |-> UsedBy(Users(h, s) \ gone)]
      /\ \A s \in Imsis : Users(g, s) = Users(h, s) \ gone
  BY WithoutFields DEF Loopable
<1> HIDE DEF g
<1>2. SubscrExact(g)
  BY <1>1 DEF SubscrExact
<1>3. ASSUME NEW c \in ConnIds
      PROVE  Quiet(g, c) /\ (g.conn[c] # NULL => ~g.conn[c].closing)
  BY <1>1 DEF Quiet, Held, Loopable
<1> QED
  BY <1>1, <1>2, <1>3 DEF Loopable, g

\* One round: lb_conn_discard() takes away the connection and its use of the
\* subscriber, and sends nothing.
LEMMA DiscardOne ==
  ASSUME NEW h, Loopable(h), NEW c \in ConnIds, h.conn[c] # NULL
  PROVE  lb_conn_discard(h, c) = Without(h, {c})
<1> DEFINE s == h.conn[c].smlc_subscr
           h1 == [h EXCEPT !.conn[c].lb_peer = NULL]
           released == [h1 EXCEPT !.conn[c].closing = TRUE, !.conn[c].lb_peer = NULL,
                                  !.sccp[c] = IF h1.conn[c].lb_peer = NULL THEN @ ELSE NULL]
           use == [released.conn[c].use_count EXCEPT !["smlc_loc_req"] = @ - 1]
           ended == [released EXCEPT !.conn[c].smlc_loc_req = NULL, !.conn[c].use_count = use]
           users == IF s = NULL THEN h.subscr ELSE [h.subscr EXCEPT ![s] = UsedBy(Users(h, s) \ {c})]
           left == IF s = NULL THEN ended ELSE smlc_subscr_put(ended, s, "Lb-conn")
\* The same object in another state.
<1> DEFINE Same(g) == /\ g \in Heap
                      /\ g = [h EXCEPT !.conn = g.conn]
                      /\ g.conn[c] # NULL /\ g.conn[c].smlc_subscr = s
                      /\ \A d \in ConnIds \ {c} : g.conn[d] = h.conn[d]
<1>1. /\ h \in Heap /\ SubscrExact(h) /\ ~h.conn[c].closing
      /\ h.conn[c] \in Conn
      /\ s \in Imsis \cup {NULL}
      /\ h.conn[c].smlc_loc_req # NULL
      /\ h.conn[c].use_count = ConnUse(0, 1)
  BY ConnFields DEF Loopable, Quiet, Held
<1> DEFINE cut == [h.conn[c] EXCEPT !.lb_peer = NULL]
           closing == [cut EXCEPT !.closing = TRUE]
           idle == [closing EXCEPT !.smlc_loc_req = NULL, !.use_count = use]
<1>2. /\ h1.conn = [h.conn EXCEPT ![c] = cut]
      /\ h1 = [h EXCEPT !.conn = h1.conn]
  BY <1>1 DEF Heap
<1>3. /\ cut \in Conn /\ cut # NULL /\ cut.smlc_subscr = s /\ cut.lb_peer = NULL /\ ~cut.closing
      /\ cut.smlc_loc_req # NULL /\ cut.use_count = ConnUse(0, 1)
  BY <1>1, DataAssumption DEF Conn
<1>4. /\ closing \in Conn /\ closing # NULL /\ closing.smlc_subscr = s
      /\ closing.smlc_loc_req # NULL /\ closing.use_count = ConnUse(0, 1)
      /\ closing = [[cut EXCEPT !.closing = TRUE] EXCEPT !.lb_peer = NULL]
  BY <1>3, DataAssumption DEF Conn
<1> HIDE DEF cut, h1, s
<1>5. Same(h1) /\ h1.conn[c] = cut /\ h1.sccp = h.sccp
  <2>1. h1.conn \in [ConnIds -> Conn \cup {NULL}] /\ h1.conn[c] = cut
        /\ \A d \in ConnIds \ {c} : h1.conn[d] = h.conn[d]
    BY <1>1, <1>2, <1>3, HeapFields
  <2>2. h1 \in Heap /\ h1.sccp = h.sccp
    BY <1>1, <1>2, <2>1 DEF Heap
  <2> QED
    BY <1>2, <1>3, <2>1, <2>2
<1>6. /\ released.conn = [h1.conn EXCEPT ![c] = closing]
      /\ released.sccp = h.sccp
      /\ released = [h1 EXCEPT !.conn = released.conn, !.sccp = released.sccp]
  <2>1. released.conn = [h1.conn EXCEPT ![c] = [[h1.conn[c] EXCEPT !.closing = TRUE] EXCEPT !.lb_peer = NULL]]
    BY <1>5, HeapFields DEF Heap
  <2>2. released.sccp = [h1.sccp EXCEPT ![c] = h1.sccp[c]]
    BY <1>3, <1>5 DEF Heap
  <2>3. [h1.sccp EXCEPT ![c] = h1.sccp[c]] = h1.sccp
    BY <1>5, HeapFields
  <2>4. released = [h1 EXCEPT !.conn = released.conn, !.sccp = released.sccp]
    BY <1>5 DEF Heap
  <2> QED
    BY <1>4, <1>5, <2>1, <2>2, <2>3, <2>4
<1> HIDE DEF released, closing
<1>7. Same(released) /\ released.conn[c] = closing
  <2>1. released.conn \in [ConnIds -> Conn \cup {NULL}] /\ released.conn[c] = closing
        /\ \A d \in ConnIds \ {c} : released.conn[d] = h.conn[d]
    BY <1>4, <1>5, <1>6, HeapFields
  <2>2. released = [h EXCEPT !.conn = released.conn]
    BY <1>1, <1>5, <1>6 DEF Heap
  <2>3. released \in Heap
    BY <1>1, <2>1, <2>2 DEF Heap
  <2> QED
    BY <1>4, <2>1, <2>2, <2>3
<1>8. use["smlc_loc_req"] = 0 /\ use \in [ConnTokens -> Int]
  <2>1. released.conn[c].use_count = ConnUse(0, 1)
    BY <1>4, <1>7
  <2> QED
    BY <2>1 DEF ConnUse, ConnTokens
<1> HIDE DEF use
<1>9. /\ ended.conn = [released.conn EXCEPT ![c] = idle]
      /\ ended = [released EXCEPT !.conn = ended.conn]
      /\ idle \in Conn /\ idle # NULL /\ idle.smlc_subscr = s
  <2>1. ended.conn = [released.conn EXCEPT ![c] = idle]
    BY <1>7, HeapFields DEF Heap
  <2>2. ended = [released EXCEPT !.conn = ended.conn]
    BY <1>7 DEF Heap
  <2>3. idle \in Conn /\ idle.smlc_subscr = s
    BY <1>4, <1>8 DEF Conn
  <2> QED
    BY <2>1, <2>2, <2>3, DataAssumption
<1>10. TermWhileClosing(released, c) = ended
  <2>1. ~(use["smlc_loc_req"] < 0)
    BY <1>8
  <2> QED
    BY <2>1, Zenon DEF TermWhileClosing, use
<1> HIDE DEF ended, idle
<1>11. Same(ended)
  <2>1. ended.conn \in [ConnIds -> Conn \cup {NULL}] /\ ended.conn[c] = idle
        /\ \A d \in ConnIds \ {c} : ended.conn[d] = h.conn[d]
    BY <1>7, <1>9, HeapFields
  <2>2. ended = [h EXCEPT !.conn = ended.conn]
    BY <1>1, <1>7, <1>9 DEF Heap
  <2>3. ended \in Heap
    BY <1>1, <2>1, <2>2 DEF Heap
  <2> QED
    BY <1>9, <2>1, <2>2, <2>3
<1>12. lb_conn_discard(h, c) = FreeConn(left, c)
  <2>1. lb_conn_discard(h, c) = lb_conn_close(h1, c)
    BY DEF lb_conn_discard, h1
  <2>2. h1.conn[c] # NULL /\ ~h1.conn[c].closing /\ h1.conn[c].smlc_loc_req # NULL
        /\ h1.conn[c].smlc_subscr = s
    BY <1>3, <1>5
  <2>3. lb_conn_close(h1, c) = FreeConn(left, c)
    <3>1. lb_conn_close(h1, c) = FreeConn(IF s = NULL THEN TermWhileClosing(released, c)
                                          ELSE smlc_subscr_put(TermWhileClosing(released, c), s, "Lb-conn"), c)
      BY <2>2 DEF lb_conn_close, released
    <3> QED
      BY <1>10, <3>1
  <2> QED
    BY <2>1, <2>3
<1>13. left = [h EXCEPT !.conn = ended.conn, !.subscr = users]
  <2>1. CASE s = NULL
    <3>1. h = [h EXCEPT !.subscr = h.subscr]
      BY <1>1 DEF Heap
    <3> QED
      BY <1>1, <1>11, <2>1 DEF Heap
  <2>2. CASE s # NULL
    <3>1. /\ s \in Imsis
          /\ Users(h, s) \in SUBSET ConnIds
          /\ c \in Users(h, s)
          /\ ended.subscr = h.subscr
          /\ ended.subscr[s] = UsedBy(Users(h, s))
      <4>1. s \in Imsis /\ Users(h, s) \in SUBSET ConnIds /\ c \in Users(h, s)
        BY <1>1, <2>2 DEF Users, s
      <4>2. ended.subscr = h.subscr
        BY <1>1, <1>11 DEF Heap
      <4> QED
        BY <1>1, <4>1, <4>2 DEF SubscrExact
    <3>2. smlc_subscr_put(ended, s, "Lb-conn") = [ended EXCEPT !.subscr[s] = UsedBy(Users(h, s) \ {c})]
      BY <1>11, <3>1, LastUserFrees
    <3>3. [ended EXCEPT !.subscr[s] = UsedBy(Users(h, s) \ {c})] = [ended EXCEPT !.subscr = users]
      BY <1>11, <2>2, <3>1 DEF Heap
    <3>4. [ended EXCEPT !.subscr = users] = [h EXCEPT !.conn = ended.conn, !.subscr = users]
      BY <1>1, <1>11 DEF Heap
    <3> QED
      BY <2>2, <3>2, <3>3, <3>4
  <2> QED
    BY <2>1, <2>2
<1> DEFINE conn == [d \in ConnIds |-> IF d \in {c} THEN NULL ELSE h.conn[d]]
           ahead == {e \in h.ahead : e[1] \notin {c} /\ e[2] \notin {c}}
           subscr == [t \in Imsis |-> UsedBy(Users(h, t) \ {c})]
<1>14. [ended.conn EXCEPT ![c] = NULL] = conn
  <2>1. ended.conn \in [ConnIds -> Conn \cup {NULL}]
    BY <1>11, HeapFields
  <2> QED
    BY <1>11, <2>1
<1>15. {e \in h.ahead : c \notin {e[1], e[2]}} = ahead
  OBVIOUS
<1>16. users = subscr
  <2>1. \A t \in Imsis : h.subscr[t] = UsedBy(Users(h, t))
    BY <1>1 DEF SubscrExact
  <2>2. \A t \in Imsis : t # s => Users(h, t) \ {c} = Users(h, t)
    BY DEF Users, s
  <2>3. h.subscr = [t \in Imsis |-> h.subscr[t]]
    BY <1>1, HeapFields
  <2>4. s = NULL => s \notin Imsis
    BY DataAssumption
  <2>5. \A t \in Imsis : users[t] = UsedBy(Users(h, t) \ {c})
    BY <1>1, <2>1, <2>2, <2>3, <2>4, HeapFields
  <2>6. users = [t \in Imsis |-> users[t]]
    BY <1>1, <2>3, HeapFields
  <2> HIDE DEF users
  <2> QED
    BY <2>5, <2>6
<1> HIDE DEF left, users, conn, ahead, subscr
<1>17. FreeConn(left, c) = [h EXCEPT !.conn = conn, !.ahead = ahead, !.subscr = subscr]
  BY <1>1, <1>13, <1>14, <1>15, <1>16 DEF FreeConn, Heap
<1> QED
  BY <1>12, <1>17 DEF Without, conn, ahead, subscr

\* Two rounds take away two connections.
LEMMA WithoutTwice ==
  ASSUME NEW h \in Heap, NEW gone \in SUBSET ConnIds, NEW c \in ConnIds
  PROVE  Without(Without(h, gone), {c}) = Without(h, gone \cup {c})
<1> DEFINE g == Without(h, gone)
<1>1. /\ g \in Heap
      /\ g.conn = [d \in ConnIds |-> IF d \in gone THEN NULL ELSE h.conn[d]]
      /\ g.ahead = {e \in h.ahead : e[1] \notin gone /\ e[2] \notin gone}
      /\ \A s \in Imsis : Users(g, s) = Users(h, s) \ gone
  BY WithoutFields
<1>2. g = [h EXCEPT !.conn = g.conn, !.ahead = g.ahead, !.subscr = g.subscr]
  BY DEF Without, Heap
<1> HIDE DEF g
<1>3. [d \in ConnIds |-> IF d \in {c} THEN NULL ELSE g.conn[d]]
        = [d \in ConnIds |-> IF d \in gone \cup {c} THEN NULL ELSE h.conn[d]]
  BY <1>1
<1>4. {e \in g.ahead : e[1] \notin {c} /\ e[2] \notin {c}}
        = {e \in h.ahead : e[1] \notin gone \cup {c} /\ e[2] \notin gone \cup {c}}
  BY <1>1
<1>5. [s \in Imsis |-> UsedBy(Users(g, s) \ {c})] = [s \in Imsis |-> UsedBy(Users(h, s) \ (gone \cup {c}))]
  <2>1. \A s \in Imsis : Users(g, s) \ {c} = Users(h, s) \ (gone \cup {c})
    BY <1>1
  <2> QED
    BY <2>1
<1> DEFINE conn == [d \in ConnIds |-> IF d \in gone \cup {c} THEN NULL ELSE h.conn[d]]
           ahead == {e \in h.ahead : e[1] \notin gone \cup {c} /\ e[2] \notin gone \cup {c}}
           subscr == [s \in Imsis |-> UsedBy(Users(h, s) \ (gone \cup {c}))]
<1>6. /\ Without(g, {c}) = [g EXCEPT !.conn = conn, !.ahead = ahead, !.subscr = subscr]
      /\ Without(h, gone \cup {c}) = [h EXCEPT !.conn = conn, !.ahead = ahead, !.subscr = subscr]
  BY <1>3, <1>4, <1>5, Zenon DEF Without
<1> HIDE DEF conn, ahead, subscr
<1> QED
  BY <1>2, <1>6 DEF Heap, g

\* The loop as the provers see it, over an arbitrary choice of the next connection.
LEMMA LoopUnfolds ==
  ASSUME NEW h, NEW p, NEW g,
         g = [s \in SUBSET ConnsOf(h, p) |->
                IF s = {} THEN h ELSE LET c == CHOOSE c \in s : TRUE IN lb_conn_discard(g[s \ {c}], c)]
  PROVE  \E f : /\ f = [s \in SUBSET ConnsOf(h, p) |->
                           IF s = {} THEN h
                           ELSE LET c == CHOOSE c \in s : TRUE IN lb_conn_discard(f[s \ {c}], c)]
                /\ DiscardLoop(h, p) = f[ConnsOf(h, p)]
  BY Zenon DEF DiscardLoop, FoldSet, MapThenFoldSet

\* After the rounds for the connections in s, these are gone and nothing else is:
\* by induction over the sets of connections, in the form that a smallest set for
\* which the loop did anything else would have a smaller one.
LEMMA LoopIsDiscardAll ==
  ASSUME NEW h, Loopable(h), NEW p
  PROVE  DiscardLoop(h, p) = lb_peer_discard_all_conns(h, p)
<1> DEFINE all == ConnsOf(h, p)
           Next1(f, s) == LET c == CHOOSE c \in s : TRUE IN lb_conn_discard(f[s \ {c}], c)
           g == [s \in SUBSET all |-> Without(h, s)]
<1>1. all \in SUBSET ConnIds /\ \A c \in all : h.conn[c] # NULL
  BY DEF ConnsOf, lb_conns
<1>2. h \in Heap /\ SubscrExact(h)
  BY DEF Loopable
<1>3. ASSUME NEW s \in SUBSET all, s # {}
      PROVE  LET c == CHOOSE c \in s : TRUE
             IN  /\ c \in s /\ s \ {c} \in SUBSET all /\ s \ {c} # s
                 /\ lb_conn_discard(Without(h, s \ {c}), c) = Without(h, s)
  <2> DEFINE c == CHOOSE c \in s : TRUE
             f == Without(h, s \ {c})
  <2>1. c \in s
    BY <1>3
  <2> HIDE DEF c
  <2>2. s \ {c} \in SUBSET ConnIds /\ c \in ConnIds /\ (s \ {c}) \cup {c} = s
    BY <1>1, <2>1
  <2>3. Loopable(f) /\ f.conn[c] = h.conn[c]
    <3>1. s \ {c} \in SUBSET ConnIds /\ c \notin s \ {c} /\ c \in ConnIds
      BY <2>2
    <3>2. f.conn = [d \in ConnIds |-> IF d \in s \ {c} THEN NULL ELSE h.conn[d]]
      BY <1>2, <3>1, WithoutFields
    <3>3. Loopable(f)
      BY <3>1, WithoutLoopable
    <3> QED
      BY <3>1, <3>2, <3>3
  <2> HIDE DEF f
  <2>4. lb_conn_discard(f, c) = Without(f, {c})
    BY <1>1, <2>1, <2>2, <2>3, DiscardOne
  <2>5. Without(f, {c}) = Without(h, s)
    BY <1>2, <2>2, WithoutTwice DEF f
  <2> QED
    BY <2>1, <2>4, <2>5 DEF c, f
<1>4. Without(h, {}) = h
  <2> DEFINE conn == [c \in ConnIds |-> IF c \in {} THEN NULL ELSE h.conn[c]]
             ahead == {e \in h.ahead : e[1] \notin {} /\ e[2] \notin {}}
             subscr == [s \in Imsis |-> UsedBy(Users(h, s) \ {})]
  <2>1. conn = h.conn /\ ahead = h.ahead
    BY <1>2, HeapFields
  <2>2. subscr = h.subscr
    <3>1. \A s \in Imsis : Users(h, s) \ {} = Users(h, s)
      OBVIOUS
    <3>2. h.subscr = [s \in Imsis |-> h.subscr[s]]
      BY <1>2, HeapFields
    <3>3. \A s \in Imsis : UsedBy(Users(h, s) \ {}) = h.subscr[s]
      BY <1>2, <3>1 DEF SubscrExact
    <3> QED
      BY <3>2, <3>3
  <2>3. Without(h, {}) = [h EXCEPT !.conn = conn, !.ahead = ahead, !.subscr = subscr]
    BY DEF Without
  <2> HIDE DEF conn, ahead, subscr
  <2> QED
    BY <1>2, <2>1, <2>2, <2>3 DEF Heap
<1>5. g = [s \in SUBSET all |-> IF s = {} THEN h ELSE Next1(g, s)]
  BY <1>3, <1>4
<1>6. PICK f : /\ f = [s \in SUBSET all |-> IF s = {} THEN h ELSE Next1(f, s)]
               /\ DiscardLoop(h, p) = f[all]
  BY <1>5, LoopUnfolds
<1> DEFINE bad == {s \in SUBSET all : f[s] # Without(h, s)}
<1>7. bad = {}
  <2> SUFFICES ASSUME bad # {} PROVE FALSE
    OBVIOUS
  <2>1. IsFiniteSet(all)
    BY <1>1, DataAssumption, FS_Subset
  <2>2. IsWellFoundedOn(StrictSubsetOrdering(all), SUBSET all)
    BY <2>1, FS_StrictSubsetOrderingWellFounded, FS_FiniteSubsetsOfFinite
  <2>3. PICK s \in bad : \A t \in bad : <<t, s>> \notin StrictSubsetOrdering(all)
    BY <2>2, WFMin
  <2>4. s # {}
    BY <1>4, <1>6, <2>3
  <2> DEFINE c == CHOOSE c \in s : TRUE
  <2>5. /\ c \in s /\ s \ {c} \in SUBSET all /\ s \ {c} # s
        /\ lb_conn_discard(Without(h, s \ {c}), c) = Without(h, s)
    BY <1>3, <2>3, <2>4
  <2>6. <<s \ {c}, s>> \in StrictSubsetOrdering(all)
    BY <2>3, <2>5 DEF StrictSubsetOrdering
  <2>7. f[s \ {c}] = Without(h, s \ {c})
    BY <2>3, <2>5, <2>6
  <2>8. f[s] = lb_conn_discard(f[s \ {c}], c)
    BY <1>6, <2>3, <2>4
  <2> QED
    BY <2>3, <2>5, <2>7, <2>8
<1>8. DiscardLoop(h, p) = Without(h, all)
  BY <1>6, <1>7
<1>9. lb_peer_discard_all_conns(h, p) = Without(h, all)
  <2>1. \A s \in Imsis : SubscrWithout(h, s, all) = UsedBy(Users(h, s) \ all)
    BY <1>1, <1>2, SubscrLeft
  <2>2. [s \in Imsis |-> SubscrWithout(h, s, all)] = [s \in Imsis |-> UsedBy(Users(h, s) \ all)]
    BY <2>1
  <2> HIDE DEF all
  <2> QED
    BY <2>2 DEF lb_peer_discard_all_conns, Without, all
<1> QED
  BY <1>8, <1>9

----------------------------------------------------------------------------
(* The RESET procedure.                                                    *)

\* The peer is told, or is waited for because it could not be told.
Told(g, p) == (\E m \in g.unitdata : m.to = p) \/ g.lb_peers[p] = "WAIT_RX_RESET"

\* What a RESET procedure makes of h.
Discarded(h, g, p) ==
    /\ \A c \in ConnIds : g.conn[c] = IF c \in ConnsOf(h, p) THEN NULL ELSE h.conn[c]
    /\ g.sccp = h.sccp /\ g.sent = h.sent
    /\ Told(g, p)

\* A peer's state and what it is sent, of a heap that is well typed.
LEMMA PeerFields ==
  ASSUME NEW h \in Heap, NEW p \in Peers, NEW state, NEW type
  PROVE  /\ LET g == lb_peer_state_chg(h, p, state)
            IN  /\ g.conn = h.conn /\ g.sccp = h.sccp /\ g.sent = h.sent /\ g.unitdata = h.unitdata
                /\ g.lb_peers[p] = state
         /\ LET g == Tx(h, p, type)
            IN  /\ g.conn = h.conn /\ g.sccp = h.sccp /\ g.sent = h.sent
                /\ g.lb_peers = h.lb_peers
                /\ \E m \in g.unitdata : m.to = p
<1>1. h.lb_peers \in [Peers -> PeerStates \cup {NULL}]
  BY HeapFields
<1>2. [to |-> p, type |-> type] \in h.unitdata \cup {[to |-> p, type |-> type]}
  OBVIOUS
<1> QED
  BY <1>1, <1>2 DEF Heap, lb_peer_state_chg, Tx

\* A process that fails leaves its objects behind.
LEMMA FaultFields ==
  ASSUME NEW h \in Heap, NEW why
  PROVE  LET g == Fault(h, why)
         IN  /\ g.conn = h.conn /\ g.sccp = h.sccp /\ g.sent = h.sent
             /\ g.unitdata = h.unitdata /\ g.lb_peers = h.lb_peers
  BY DEF Heap, Fault

\* The process fails.
LEMMA FaultFails ==
  ASSUME NEW h \in Heap, h.fault = {}, \A c \in ConnIds : SentOK(h, c),
         NEW why \in {"null request", "double free"}
  PROVE  Failed(Fault(h, why))
<1> DEFINE g == Fault(h, why)
<1>1. /\ g.conn = h.conn /\ g.sccp = h.sccp /\ g.sent = h.sent
      /\ g.fault = {why}
      /\ g \in Heap
  BY DEF Fault, Heap, Faults
<1> HIDE DEF g
<1>2. ASSUME NEW c \in ConnIds
      PROVE  SentOK(g, c)
  BY <1>1 DEF SentOK, Open, Done
<1>3. Failed(g)
  BY <1>1, <1>2 DEF Failed
<1> QED
  BY <1>3 DEF g

\* lb_peer_reset() leaves the peer without connections and not READY.
LEMMA ResetOK ==
  ASSUME NEW h, HeapOK(h), NEW p \in Peers, NEW failing
  PROVE  LET g == lb_peer_reset(h, p, failing)
         IN  HeapOK(g) /\ Discarded(h, g, p) /\ g.lb_peers[p] # "READY"
<1> DEFINE changed == lb_peer_state_chg(h, p, "WAIT_RX_RESET_ACK")
           discarded == lb_peer_discard_all_conns(changed, p)
<1>1. "WAIT_RX_RESET_ACK" \in PeerStates /\ "WAIT_RX_RESET" \in PeerStates
  BY DEF PeerStates
<1>2. HeapOK(discarded)
  BY <1>1, DiscardAndChange
<1>3. h \in Heap /\ SubscrExact(h) /\ ListExact(h)
  BY DEF HeapOK, Core
<1>4. /\ \A c \in ConnIds : discarded.conn[c] = IF c \in ConnsOf(h, p) THEN NULL ELSE h.conn[c]
      /\ discarded.sccp = h.sccp /\ discarded.sent = h.sent
      /\ discarded \in Heap
  <2>1. changed.conn = h.conn /\ changed.sccp = h.sccp /\ changed.sent = h.sent
    BY <1>3, PeerFields
  <2>2. changed \in Heap /\ SubscrExact(changed) /\ ListExact(changed)
    <3>1. [h.lb_peers EXCEPT ![p] = "WAIT_RX_RESET_ACK"] \in [Peers -> PeerStates \cup {NULL}]
      BY <1>1, <1>3, HeapFields
    <3> QED
      BY <1>3, <3>1 DEF lb_peer_state_chg, Heap, SubscrExact, Users, ListExact, lb_conns
  <2>3. ConnsOf(changed, p) = ConnsOf(h, p)
    BY <2>1 DEF ConnsOf, lb_conns
  <2> HIDE DEF changed
  <2> QED
    BY <2>1, <2>2, <2>3, DiscardEffect
<1>5. discarded.lb_peers[p] = "WAIT_RX_RESET_ACK"
  <2>1. discarded.lb_peers = changed.lb_peers
    BY <1>3 DEF lb_peer_discard_all_conns, lb_peer_state_chg, Heap
  <2>2. changed.lb_peers[p] = "WAIT_RX_RESET_ACK"
    BY <1>3, HeapFields DEF lb_peer_state_chg, Heap
  <2> QED
    BY <2>1, <2>2
<1> HIDE DEF discarded
<1>6. HeapOK(lb_peer_state_chg(discarded, p, "WAIT_RX_RESET"))
  <2>1. discarded.lb_peers[p] # "READY"
    BY <1>5
  <2> QED
    BY <1>1, <1>2, <2>1, StateChange
<1>7. HeapOK(Tx(discarded, p, "RESET"))
  BY <1>2, TxOK
<1>8. LET g == lb_peer_state_chg(discarded, p, "WAIT_RX_RESET")
      IN  Discarded(h, g, p) /\ g.lb_peers[p] # "READY"
  BY <1>4, PeerFields DEF Discarded, Told
<1>9. LET g == Tx(discarded, p, "RESET")
      IN  Discarded(h, g, p) /\ g.lb_peers[p] # "READY"
  BY <1>4, <1>5, PeerFields DEF Discarded, Told
<1> QED
  BY <1>6, <1>7, <1>8, <1>9 DEF lb_peer_reset, discarded

\* lb_peer_rx_reset() leaves the peer without connections.
LEMMA RxResetOK ==
  ASSUME NEW h, HeapOK(h), NEW p \in Peers, NEW failing
  PROVE  LET g == lb_peer_rx_reset(h, p, failing)
         IN  (HeapOK(g) \/ Failed(g)) /\ Discarded(h, g, p)
<1> DEFINE discarded == lb_peer_discard_all_conns(h, p)
           waiting == lb_peer_state_chg(discarded, p, "WAIT_RX_RESET")
           ready == lb_peer_state_chg(discarded, p, "READY")
           acked == lb_peer_state_chg(Tx(discarded, p, "RESET_ACK"), p, "READY")
<1>1. "READY" \in PeerStates /\ "WAIT_RX_RESET" \in PeerStates
  BY DEF PeerStates
<1>2. HeapOK(waiting) /\ HeapOK(ready)
  BY <1>1, DiscardAndChange
<1>3. /\ discarded \in Heap
      /\ \A c \in ConnIds : discarded.conn[c] = IF c \in ConnsOf(h, p) THEN NULL ELSE h.conn[c]
      /\ discarded.sccp = h.sccp /\ discarded.sent = h.sent
  BY DiscardEffect DEF HeapOK, Core
<1> HIDE DEF discarded
<1>4. Discarded(h, waiting, p) /\ Discarded(h, Fault(waiting, "double free"), p) /\ Discarded(h, acked, p)
  <2>1. Discarded(h, waiting, p)
    BY <1>3, PeerFields DEF Discarded, Told
  <2>2. waiting \in Heap
    BY <1>2 DEF HeapOK, Core
  <2> HIDE DEF waiting
  <2>3. Discarded(h, Fault(waiting, "double free"), p)
    BY <2>1, <2>2, FaultFields DEF Discarded, Told
  <2> DEFINE tx == Tx(discarded, p, "RESET_ACK")
  <2>4. tx.conn = discarded.conn /\ tx.sccp = h.sccp /\ tx.sent = h.sent /\ \E m \in tx.unitdata : m.to = p
    BY <1>3, PeerFields
  <2>5. /\ acked.conn = tx.conn /\ acked.sccp = tx.sccp /\ acked.sent = tx.sent
        /\ acked.unitdata = tx.unitdata
    BY <1>3 DEF lb_peer_state_chg, Tx, Heap
  <2> HIDE DEF tx, acked
  <2>6. Discarded(h, acked, p)
    BY <1>3, <2>4, <2>5 DEF Discarded, Told
  <2> QED
    BY <2>1, <2>3, <2>6
<1>5. HeapOK(acked)
  <2>1. acked = Tx(ready, p, "RESET_ACK")
    BY <1>3 DEF Tx, lb_peer_state_chg, Heap
  <2> HIDE DEF ready
  <2>2. HeapOK(Tx(ready, p, "RESET_ACK"))
    BY <1>2, TxOK
  <2> QED
    BY <2>1, <2>2
<1>6. Failed(Fault(waiting, "double free"))
  <2>1. waiting \in Heap /\ waiting.fault = {} /\ \A c \in ConnIds : SentOK(waiting, c)
    BY <1>2 DEF HeapOK, Core
  <2> HIDE DEF waiting
  <2> QED
    BY <2>1, FaultFails
<1> HIDE DEF waiting, acked
<1>7. lb_peer_rx_reset(h, p, failing) \in {waiting, Fault(waiting, "double free"), acked}
  BY DEF lb_peer_rx_reset, waiting, acked, discarded
<1> QED
  BY <1>2, <1>4, <1>5, <1>6, <1>7

----------------------------------------------------------------------------
(* Messages on connections.                                                *)

\* The request of a connection that existed before still waits, or is gone.
LEMMA OldConnOK ==
  ASSUME NEW h, HeapOK(h), NEW h2, NEW c \in ConnIds, Outcome(h, h2, c, 0)
  PROVE  HeapOK(h2)
<1>1. ASSUME NEW d \in ConnIds
      PROVE  Quiet(h2, d) /\ SentOK(h2, d)
  <2>1. Quiet(h, d) /\ SentOK(h, d)
    BY DEF HeapOK
  <2>2. CASE d = c
    BY <2>2 DEF Outcome, Ended, Quiet, SentOK
  <2>3. CASE d # c
    BY <2>1, <2>3 DEF Outcome, OnlyConn, Quiet, Held, SentOK, Open, Done
  <2> QED
    BY <2>2, <2>3
<1> QED
  BY <1>1 DEF HeapOK, Outcome

\* The use count that lb_peer_st_ready() holds on a new connection is returned.
LEMMA NewConnPut ==
  ASSUME NEW h, NEW h2, NEW c \in ConnIds, NEW failing, NEW cell_id, NEW s
  PROVE  LET g == lb_conn_put(h2, c, "lb_peer_st_ready")
         IN  /\ Waiting(h, h2, c, 1, s) => Waiting(h, g, c, 0, s)
             /\ Ending(h, h2, c, 1, failing, cell_id) => Ending(h, g, c, 0, failing, cell_id)
             /\ Silent(h, h2, c, 1) => Silent(h, g, c, 0)
<1> DEFINE g == lb_conn_put(h2, c, "lb_peer_st_ready")
<1>1. 0 \in Int /\ 1 \in Int /\ 1 - 1 = 0 /\ 1 > 0 /\ 1 - 1 + 1 # 0 /\ 1 - 1 + 0 = 0
  OBVIOUS
<1>2. ASSUME Waiting(h, h2, c, 1, s)
      PROVE  Waiting(h, g, c, 0, s)
  <2> DEFINE use == ConnUse(0, 1)
  <2>1. Core(h2) /\ h2.conn[c] # NULL /\ h2.conn[c].use_count = ConnUse(1, 1)
    BY <1>2 DEF Waiting, Held
  <2>2. use \in [ConnTokens -> Int]
    BY <1>1, ConnUseValue, Zenon
  <2>3. g = WithUse(h2, c, use)
    <3>1. 1 > 0 => g = LET h3 == WithUse(h2, c, ConnUse(1 - 1, 1))
                       IN  IF 1 - 1 + 1 = 0 THEN lb_conn_close(h3, c) ELSE h3
      BY <2>1, PutEffect
    <3> QED
      BY <1>1, <3>1
  <2> HIDE DEF use, g
  <2>4. /\ Core(g) /\ OnlyConn(h2, g, c)
        /\ g.conn[c] = [h2.conn[c] EXCEPT !.use_count = use]
        /\ g.conn[c] # NULL /\ g.sent = h2.sent /\ g.sccp = h2.sccp
    BY <2>1, <2>2, <2>3, UseChange
  <2>5. h2.conn[c] \in Conn
    BY <2>1, ConnFields DEF Core
  <2>6. /\ g.conn[c].smlc_loc_req = h2.conn[c].smlc_loc_req
        /\ g.conn[c].smlc_subscr = h2.conn[c].smlc_subscr
        /\ g.conn[c].use_count = use
    BY <2>4, <2>5 DEF Conn
  <2>7. OnlyConn(h, g, c)
    BY <1>2, <2>4 DEF Waiting, OnlyConn
  <2> QED
    BY <1>2, <2>4, <2>6, <2>7 DEF Waiting, Held, Open, use
<1>3. ASSUME Core(h2), OnlyConn(h, h2, c), Ended(h2, c, 1)
      PROVE  Core(g) /\ OnlyConn(h, g, c) /\ Ended(g, c, 0) /\ g.sent = h2.sent
  <2> DEFINE h3 == WithUse(h2, c, ConnUse(0, 0))
  <2>1. h2.conn[c] # NULL /\ h2.conn[c].smlc_loc_req = NULL /\ h2.conn[c].use_count = ConnUse(1, 0)
    BY <1>3 DEF Ended
  <2>2. ConnUse(0, 0) \in [ConnTokens -> Int]
    BY <1>1, ConnUseValue, Zenon
  <2>3. g = lb_conn_close(h3, c)
    <3>1. 1 > 0 => g = LET h4 == WithUse(h2, c, ConnUse(1 - 1, 0))
                       IN  IF 1 - 1 + 0 = 0 THEN lb_conn_close(h4, c) ELSE h4
      BY <1>1, <1>3, <2>1, PutEffect
    <3> QED
      BY <1>1, <3>1
  <2>4. /\ Core(h3) /\ OnlyConn(h2, h3, c)
        /\ h3.conn[c] = [h2.conn[c] EXCEPT !.use_count = ConnUse(0, 0)]
        /\ h3.conn[c] # NULL /\ h3.sent = h2.sent
    BY <1>3, <2>1, <2>2, UseChange
  <2>5. h2.conn[c] \in Conn
    BY <1>3, <2>1, ConnFields DEF Core
  <2>6. h3.conn[c].smlc_loc_req = NULL
    BY <2>1, <2>4, <2>5 DEF Conn
  <2> HIDE DEF h3, g
  <2>7. /\ Core(g) /\ OnlyConn(h3, g, c)
        /\ g.conn[c] = NULL /\ g.sccp[c] = NULL /\ g.sent = h3.sent
    BY <2>3, <2>4, <2>6, CloseKeepsCore
  <2>8. OnlyConn(h, g, c)
    BY <1>3, <2>4, <2>7 DEF OnlyConn
  <2> QED
    BY <2>4, <2>7, <2>8 DEF Ended
<1> HIDE DEF g
<1>4. Silent(h, h2, c, 1) => Silent(h, g, c, 0)
  BY <1>3 DEF Silent
<1>5. Answering(h, h2, c, 1, cell_id) => Answering(h, g, c, 0, cell_id)
  BY <1>3 DEF Answering
<1> QED
  BY <1>2, <1>4, <1>5 DEF Ending, g

\* What has begun and what has ended is in order.
LEMMA ConnOK ==
  ASSUME NEW h, HeapOK(h), NEW h2, NEW c \in ConnIds, Open(h, c)
  PROVE  /\ \A s : Waiting(h, h2, c, 0, s) => HeapOK(h2)
         /\ \A failing, cell_id : Ending(h, h2, c, 0, failing, cell_id) => HeapOK(h2)
         /\ Silent(h, h2, c, 0) => HeapOK(h2)
<1>1. Outcome(h, h2, c, 0) => HeapOK(h2)
  BY OldConnOK
<1> QED
  BY <1>1, IsOutcome

\* What a first message makes of h: a request that waits, one that has ended, or
\* a process that fails with a connection that has no request.
Began(h, g, c, msg, failing) ==
    \/ msg \in PerformLocReq /\ Waiting(h, g, c, 0, msg.imsi)
    \/ msg \in PerformLocReq /\ Ending(h, g, c, 0, failing, msg.cell_id)
    \/ Silent(h, g, c, 0)
    \/ /\ Failed(g)
       /\ OnlyConn(h, g, c)
       /\ g.conn[c] # NULL /\ g.conn[c].smlc_loc_req = NULL
       /\ h.sccp[c] \in {NULL, g.conn[c].lb_peer}
       /\ g.sccp = h.sccp /\ g.sent = h.sent

\* The first message on a connection, for a peer in READY.
LEMMA ReadyInitialOK ==
  ASSUME NEW h, HeapOK(h), NEW p \in Peers, NEW c \in ConnIds, NEW msg \in Message, NEW failing, CellsOK,
         h.conn[c] = NULL, h.sccp[c] \in {NULL, p}, h.sent[c] = <<>>, h.lb_peers[p] = "READY"
  PROVE  LET g == lb_peer_st_ready(h, p, c, TRUE, msg, failing)
         IN  (HeapOK(g) \/ Failed(g)) /\ Began(h, g, c, msg, failing)
<1> DEFINE new == lb_conn_alloc(h, p, c, "lb_peer_st_ready")
           received == smlc_loc_req_rx_bssap_le(new, c, msg, failing)
           put == lb_conn_put(received, c, "lb_peer_st_ready")
           g == lb_peer_st_ready(h, p, c, TRUE, msg, failing)
<1>1. /\ Core(new) /\ OnlyConn(h, new, c) /\ Fresh(new, c)
      /\ new.sccp = h.sccp /\ new.sent = h.sent
  BY AllocEffect DEF HeapOK
<1>2. g = IF received.fault # {} THEN received ELSE put
  BY DEF lb_peer_st_ready
<1> HIDE DEF new, g
<1>3. \/ msg \in PerformLocReq /\ Waiting(new, received, c, 1, msg.imsi)
      \/ msg \in PerformLocReq /\ Ending(new, received, c, 1, failing, msg.cell_id)
      \/ Silent(new, received, c, 1)
      \/ received = Fault(new, "null request")
  BY <1>1, FreshMessage
<1> HIDE DEF received
<1>4. /\ Waiting(new, received, c, 1, msg.imsi) => Waiting(h, received, c, 1, msg.imsi)
      /\ Silent(new, received, c, 1) => Silent(h, received, c, 1)
  BY <1>1 DEF Waiting, Silent, OnlyConn
<1>5. Ending(new, received, c, 1, failing, msg.cell_id) => Ending(h, received, c, 1, failing, msg.cell_id)
  BY <1>1, EndingAfter
<1>6. CASE received = Fault(new, "null request")
  <2>1. new \in Heap /\ new.fault = {}
    BY <1>1 DEF Core
  <2>2. ASSUME NEW d \in ConnIds
        PROVE  SentOK(new, d)
    <3>1. SentOK(h, d)
      BY DEF HeapOK
    <3>2. CASE d = c
      BY <1>1, <3>2 DEF SentOK, Open, Asked
    <3>3. CASE d # c
      BY <1>1, <3>1, <3>3 DEF SentOK, Open, Done, OnlyConn
    <3> QED
      BY <3>2, <3>3
  <2>3. Failed(received)
    BY <1>6, <2>1, <2>2, FaultFails
  <2>4. g = received
    BY <1>2, <2>3 DEF Failed
  <2>5. /\ g.conn = new.conn /\ g.sccp = new.sccp /\ g.sent = new.sent
        /\ g.unitdata = new.unitdata /\ g.lb_peers = new.lb_peers
    BY <1>6, <2>1, <2>4, FaultFields
  <2>6. h.sccp[c] \in {NULL, g.conn[c].lb_peer}
    BY <1>1, <2>5 DEF Core, Attached, Fresh
  <2>7. Began(h, g, c, msg, failing)
    BY <1>1, <2>3, <2>4, <2>5, <2>6 DEF Began, OnlyConn, Fresh
  <2> QED
    BY <2>3, <2>4, <2>7 DEF g
<1>7. CASE received # Fault(new, "null request")
  <2>1. \/ msg \in PerformLocReq /\ Waiting(h, received, c, 1, msg.imsi)
        \/ msg \in PerformLocReq /\ Ending(h, received, c, 1, failing, msg.cell_id)
        \/ Silent(h, received, c, 1)
    BY <1>3, <1>4, <1>5, <1>7
  <2>2. received.fault = {}
    BY <2>1 DEF Waiting, Ending, Answering, Silent, Core
  <2>3. g = put
    BY <1>2, <2>2
  <2>4. \/ msg \in PerformLocReq /\ Waiting(h, g, c, 0, msg.imsi)
        \/ msg \in PerformLocReq /\ Ending(h, g, c, 0, failing, msg.cell_id)
        \/ Silent(h, g, c, 0)
    BY <2>1, <2>3, NewConnPut
  <2>5. Open(h, c)
    BY DEF Open, Asked
  <2>6. HeapOK(g)
    BY <2>4, <2>5, ConnOK
  <2> QED
    BY <2>4, <2>6 DEF Began, g
<1> QED
  BY <1>6, <1>7

\* What a connection comes to that is opened before its peer is READY: it is
\* released, or the peer is told to forget it.
Turned(h, g, p, c) ==
    /\ \A d \in ConnIds : g.conn[d] = h.conn[d] /\ (d # c => g.sccp[d] = h.sccp[d])
    /\ g.sent = h.sent
    /\ g.sccp[c] = NULL \/ (g.sccp[c] = h.sccp[c] /\ Told(g, p))
    /\ g.lb_peers[p] # "READY"

\* The first message on a connection.
LEMMA InitialOK ==
  ASSUME NEW h, HeapOK(h), NEW p \in Peers, NEW c \in ConnIds, NEW msg \in Message, NEW failing, CellsOK,
         h.conn[c] = NULL, h.sccp[c] \in {NULL, p}, h.sent[c] = <<>>
  PROVE  LET g == UpCoInitial(h, p, c, msg, failing)
         IN  /\ HeapOK(g) \/ Failed(g)
             /\ \/ h.lb_peers[p] = "READY" /\ Began(h, g, c, msg, failing)
                \/ h.lb_peers[p] # "READY" /\ HeapOK(g) /\ Turned(h, g, p, c)
<1> DEFINE known == lb_peer_find_or_create(h, p)
           g == DispatchCo(known, p, c, TRUE, msg, failing)
<1>1. /\ HeapOK(known) /\ known.lb_peers[p] \in PeerStates
      /\ known.conn[c] = NULL /\ known.sccp[c] \in {NULL, p} /\ known.sent[c] = <<>>
  BY FindOrCreate
<1>2. UpCoInitial(h, p, c, msg, failing) = g
  BY DEF UpCoInitial, lb_conns, known
<1>3. /\ known.conn = h.conn /\ known.sccp = h.sccp /\ known.sent = h.sent
      /\ known.lb_peers[p] = "READY" => h.lb_peers[p] = "READY" /\ known = h
      /\ h.lb_peers[p] = "READY" => known.lb_peers[p] = "READY"
  <2>1. h \in Heap
    BY DEF HeapOK, Core
  <2>2. lb_peer_state_chg(h, p, "WAIT_RX_RESET").lb_peers[p] = "WAIT_RX_RESET"
    BY <2>1, PeerFields
  <2>3. NULL \notin PeerStates /\ "READY" \in PeerStates
    BY DataAssumption DEF PeerStates
  <2> QED
    BY <2>2, <2>3, FindOrCreate DEF lb_peer_find_or_create, lb_peer_state_chg
<1> HIDE DEF known
<1>4. known.lb_peers[p] # "READY" => \A f : f.conn = known.conn => ConnsOf(f, p) = {}
  BY <1>1 DEF HeapOK, Core, Attached, ConnsOf, lb_conns
<1>5. known.lb_peers[p] = "WAIT_RX_RESET" => HeapOK(g) /\ Turned(h, g, p, c)
  <2> SUFFICES ASSUME known.lb_peers[p] = "WAIT_RX_RESET"
               PROVE  HeapOK(g) /\ Turned(h, g, p, c)
    OBVIOUS
  <2>1. g = lb_peer_reset(known, p, failing)
    BY <1>1 DEF DispatchCo, lb_peer_st_wait_rx_reset, lb_peer_disconnect, lb_conns
  <2> HIDE DEF g
  <2>2. HeapOK(g) /\ Discarded(known, g, p) /\ g.lb_peers[p] # "READY"
    BY <1>1, <2>1, ResetOK
  <2>3. ConnsOf(known, p) = {}
    BY <1>4
  <2> QED
    BY <1>3, <2>2, <2>3 DEF Discarded, Turned
<1>6. known.lb_peers[p] = "WAIT_RX_RESET_ACK" => HeapOK(g) /\ Turned(h, g, p, c)
  <2> SUFFICES ASSUME known.lb_peers[p] = "WAIT_RX_RESET_ACK"
               PROVE  HeapOK(g) /\ Turned(h, g, p, c)
    OBVIOUS
  <2> DEFINE f == sccp_lb_disconnect(known, c)
  <2>1. g = lb_peer_reset(f, p, failing)
    BY DEF DispatchCo, lb_peer_st_wait_rx_reset_ack
  <2>2. HeapOK(f) /\ f.conn = known.conn /\ f.sent = known.sent
    BY <1>1, Disconnect
  <2>3. f.sccp[c] = NULL /\ \A d \in ConnIds \ {c} : f.sccp[d] = known.sccp[d]
    <3>1. known \in Heap
      BY <1>1 DEF HeapOK, Core
    <3> QED
      BY <3>1, HeapFields DEF sccp_lb_disconnect, Heap
  <2> HIDE DEF f, g
  <2>4. HeapOK(g) /\ Discarded(f, g, p) /\ g.lb_peers[p] # "READY"
    BY <2>1, <2>2, ResetOK
  <2>5. ConnsOf(f, p) = {}
    BY <1>4, <2>2
  <2> QED
    BY <1>3, <2>2, <2>3, <2>4, <2>5 DEF Discarded, Turned
<1>7. known.lb_peers[p] = "READY" => (HeapOK(g) \/ Failed(g)) /\ Began(h, g, c, msg, failing)
  <2> SUFFICES ASSUME known.lb_peers[p] = "READY"
               PROVE  (HeapOK(g) \/ Failed(g)) /\ Began(h, g, c, msg, failing)
    OBVIOUS
  <2>1. g = lb_peer_st_ready(known, p, c, TRUE, msg, failing)
    BY DEF DispatchCo
  <2> HIDE DEF g
  <2> QED
    BY <1>1, <1>3, <2>1, ReadyInitialOK
<1> HIDE DEF g
<1> QED
  BY <1>1, <1>2, <1>3, <1>5, <1>6, <1>7 DEF PeerStates

\* A further message on a connection.
LEMMA FurtherOK ==
  ASSUME NEW h, HeapOK(h), NEW c \in ConnIds, NEW msg \in Message, NEW failing, CellsOK
  PROVE  LET g == UpCo(h, c, msg, failing)
         IN  /\ HeapOK(g)
             /\ \/ g = h
                \/ h.conn[c] # NULL /\ Ending(h, g, c, 0, failing, AskedCell(h, c, msg))
                \/ h.conn[c] # NULL /\ msg.type = "perform_loc_abort" /\ Silent(h, g, c, 0)
<1> DEFINE g == smlc_loc_req_rx_bssap_le(h, c, msg, failing)
<1>1. CASE h.conn[c] = NULL
  BY <1>1 DEF UpCo, lb_conns
<1>2. CASE h.conn[c] # NULL
  <2>1. Attached(h, c) /\ Quiet(h, c) /\ SentOK(h, c)
    BY DEF HeapOK, Core
  <2>2. UpCo(h, c, msg, failing) = g
    BY <1>2, <2>1 DEF UpCo, lb_conns, Attached, DispatchCo, lb_peer_st_ready
  <2>3. Held(h, c, 0, "WAIT_TA") /\ Open(h, c) /\ Core(h)
    BY <1>2, <2>1 DEF Quiet, SentOK, HeapOK
  <2>4. \/ g = h
        \/ Ending(h, g, c, 0, failing, AskedCell(h, c, msg))
        \/ msg.type = "perform_loc_abort" /\ Silent(h, g, c, 0)
    BY <2>3, WaitingMessage
  <2> HIDE DEF g
  <2>5. HeapOK(g)
    BY <2>3, <2>4, ConnOK
  <2> QED
    BY <1>2, <2>2, <2>4, <2>5
<1> QED
  BY <1>1, <1>2

\* A connectionless message.
LEMMA ConnectionlessOK ==
  ASSUME NEW h, HeapOK(h), NEW p \in Peers, NEW type \in {"RESET", "RESET_ACK", "unsupported"}, NEW failing
  PROVE  LET g == UpCl(h, p, type, failing)
         IN  /\ HeapOK(g) \/ Failed(g)
             /\ \/ Discarded(h, g, p)
                \/ g.conn = h.conn /\ g.sccp = h.sccp /\ g.sent = h.sent
<1> DEFINE known == lb_peer_find_or_create(h, p)
           g == UpCl(h, p, type, failing)
<1>1. HeapOK(known) /\ known.conn = h.conn /\ known.sccp = h.sccp /\ known.sent = h.sent
  BY FindOrCreate
<1> HIDE DEF known
<1>2. CASE type = "RESET"
  <2>1. g = lb_peer_rx_reset(known, p, failing)
    BY <1>2 DEF UpCl, known
  <2>2. Discarded(known, g, p) => Discarded(h, g, p)
    BY <1>1 DEF Discarded, ConnsOf, lb_conns
  <2> QED
    BY <1>1, <2>1, <2>2, RxResetOK
<1>3. CASE type = "RESET_ACK"
  <2>1. "READY" \in PeerStates
    BY DEF PeerStates
  <2>2. CASE known.lb_peers[p] = "WAIT_RX_RESET_ACK"
    <3> DEFINE f == lb_peer_state_chg(known, p, "READY")
    <3>1. HeapOK(f)
      BY <1>1, <2>1, <2>2, StateChange
    <3>2. f.conn = h.conn /\ f.sccp = h.sccp /\ f.sent = h.sent
      BY <1>1, PeerFields DEF HeapOK, Core
    <3> QED
      BY <1>3, <2>2, <3>1, <3>2 DEF UpCl, known
  <2>3. CASE known.lb_peers[p] # "WAIT_RX_RESET_ACK"
    BY <1>1, <1>3, <2>3 DEF UpCl, known
  <2> QED
    BY <2>2, <2>3
<1>4. CASE type = "unsupported"
  BY <1>1, <1>4 DEF UpCl, known
<1> QED
  BY <1>2, <1>3, <1>4
============================================================================
