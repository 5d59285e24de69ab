---------------------------- MODULE LbConnProofs ----------------------------
(***************************************************************************)
(* What the operations on subscribers and connections do to a heap that is  *)
(* in order, for every set of connection ids, peers and subscribers.        *)
(***************************************************************************)
EXTENDS LbConn, FiniteSetTheorems, TLAPS

\* Connections that are for subscriber s.
Users(h, s) == {c \in ConnIds : h.conn[c] # NULL /\ h.conn[c].smlc_subscr = s}

\* Use counts of a subscriber and of a connection.
SubscrUse(n, m) == [t \in SubscrTokens |-> IF t = "Lb-conn" THEN n ELSE m]
ConnUse(n, m) == [t \in ConnTokens |-> CASE t = "lb_peer_st_ready" -> n
                                         [] t = "smlc_loc_req" -> m
                                         [] t = "smlc_loc_req_start" -> 0]

\* A subscriber that the connections in users are for.
UsedBy(users) == IF users = {} THEN NULL ELSE SubscrUse(Cardinality(users), 0)

SubscrExact(h) == \A s \in Imsis : h.subscr[s] = UsedBy(Users(h, s))

\* The list holds allocated connections.
ListExact(h) == h.ahead \subseteq lb_conns(h) \X lb_conns(h)

\* A connection is attached to a peer that serves it, on both sides.
Attached(h, c) ==
    h.conn[c] # NULL =>
        /\ ~h.conn[c].closing
        /\ h.conn[c].lb_peer \in Peers
        /\ h.lb_peers[h.conn[c].lb_peer] = "READY"
        /\ h.sccp[c] \in {NULL, h.conn[c].lb_peer}

\* A heap that is in order, within a handler and between two.
Core(h) ==
    /\ h \in Heap
    /\ h.fault = {}
    /\ SubscrExact(h)
    /\ ListExact(h)
    /\ \A c \in ConnIds : Attached(h, c)

----------------------------------------------------------------------------
(* Subscribers.                                                            *)

\* A subscriber has finitely many connections, and none is zero.
LEMMA UsersFinite ==
  ASSUME NEW h, NEW s
  PROVE  /\ IsFiniteSet(Users(h, s))
         /\ Cardinality(Users(h, s)) \in Nat
         /\ Cardinality(Users(h, s)) = 0 <=> Users(h, s) = {}
<1>1. IsFiniteSet(Users(h, s))
  BY DataAssumption, FS_Subset DEF Users
<1> QED
  BY <1>1, FS_CardinalityType, FS_EmptySet

\* Counts are read by token.
LEMMA SubscrUseValue ==
  ASSUME NEW n \in Int, NEW m \in Int
  PROVE  /\ SubscrUse(n, m) \in Subscr
         /\ SubscrUse(n, m) # NULL
         /\ SubscrUse(n, m)["Lb-conn"] = n
         /\ SubscrUse(n, m)["smlc_loc_req_start"] = m
         /\ SubscrTotal(SubscrUse(n, m)) = n + m
<1>1. SubscrUse(n, m) \in Subscr
  BY DEF SubscrUse, Subscr, SubscrTokens
<1> QED
  BY <1>1, DataAssumption DEF SubscrUse, SubscrTokens, SubscrTotal

\* What SubscrExact asks for is a subscriber or none.
LEMMA UsedByType ==
  ASSUME NEW users \in SUBSET ConnIds
  PROVE  UsedBy(users) \in Subscr \cup {NULL}
<1>1. Cardinality(users) \in Int
  BY DataAssumption, FS_Subset, FS_CardinalityType
<1> QED
  BY <1>1, SubscrUseValue DEF UsedBy

\* The use counts of a connection are read by token.
LEMMA ConnUseValue ==
  ASSUME NEW n \in Int, NEW m \in Int
  PROVE  /\ ConnUse(n, m) \in [ConnTokens -> Int]
         /\ ConnUse(n, m)["lb_peer_st_ready"] = n
         /\ ConnUse(n, m)["smlc_loc_req"] = m
         /\ ConnUse(n, m)["smlc_loc_req_start"] = 0
         /\ ConnTotal(ConnUse(n, m)) = n + m
<1>1. ConnUse(n, m) \in [ConnTokens -> Int]
  BY DEF ConnUse, ConnTokens
<1> QED
  BY <1>1 DEF ConnUse, ConnTokens, ConnTotal

\* What one use more and one use less make of the counts.
LEMMA SubscrGet ==
  ASSUME NEW h \in Heap, NEW s \in Imsis, NEW n \in Nat, NEW m \in Nat,
         h.subscr[s] = SubscrUse(n, m)
  PROVE  /\ smlc_subscr_get(h, s, "Lb-conn") = [h EXCEPT !.subscr[s] = SubscrUse(n + 1, m)]
         /\ smlc_subscr_get(h, s, "smlc_loc_req_start")
              = [h EXCEPT !.subscr[s] = SubscrUse(n, m + 1)]
<1>1. h.subscr[s] # NULL
  BY SubscrUseValue
<1>2. /\ [h.subscr[s] EXCEPT !["Lb-conn"] = @ + 1] = SubscrUse(n + 1, m)
      /\ [h.subscr[s] EXCEPT !["smlc_loc_req_start"] = @ + 1] = SubscrUse(n, m + 1)
  <2> SUFFICES /\ [SubscrUse(n, m) EXCEPT !["Lb-conn"] = @ + 1] = SubscrUse(n + 1, m)
               /\ [SubscrUse(n, m) EXCEPT !["smlc_loc_req_start"] = @ + 1] = SubscrUse(n, m + 1)
    OBVIOUS
  <2> QED
    BY DEF SubscrUse, SubscrTokens
<1> QED
  <2>1. /\ smlc_subscr_get(h, s, "Lb-conn")
             = [h EXCEPT !.subscr[s] = [h.subscr[s] EXCEPT !["Lb-conn"] = @ + 1]]
        /\ smlc_subscr_get(h, s, "smlc_loc_req_start")
             = [h EXCEPT !.subscr[s] = [h.subscr[s] EXCEPT !["smlc_loc_req_start"] = @ + 1]]
    BY <1>1 DEF smlc_subscr_get
  <2> QED
    BY <1>2, <2>1, Zenon

\* A use count that is returned leaves the subscriber, or frees it with the last one.
LEMMA SubscrPut ==
  ASSUME NEW h \in Heap, NEW s \in Imsis, NEW n \in Nat, NEW m \in Nat,
         h.subscr[s] = SubscrUse(n, m)
  PROVE  /\ n > 0 => smlc_subscr_put(h, s, "Lb-conn")
                       = [h EXCEPT !.subscr[s] = IF n - 1 + m = 0 THEN NULL ELSE SubscrUse(n - 1, m)]
         /\ m > 0 => smlc_subscr_put(h, s, "smlc_loc_req_start")
                       = [h EXCEPT !.subscr[s] = IF n + (m - 1) = 0 THEN NULL ELSE SubscrUse(n, m - 1)]
<1>1. h.subscr[s] # NULL
  BY SubscrUseValue
<1> DEFINE n1 == n - 1
           m1 == m - 1
<1>2. /\ [h.subscr[s] EXCEPT !["Lb-conn"] = @ - 1] = SubscrUse(n1, m)
      /\ [h.subscr[s] EXCEPT !["smlc_loc_req_start"] = @ - 1] = SubscrUse(n, m1)
  <2> SUFFICES /\ [SubscrUse(n, m) EXCEPT !["Lb-conn"] = @ - 1] = SubscrUse(n1, m)
               /\ [SubscrUse(n, m) EXCEPT !["smlc_loc_req_start"] = @ - 1] = SubscrUse(n, m1)
    OBVIOUS
  <2> QED
    BY DEF SubscrUse, SubscrTokens
<1>3. n \in Int /\ n1 \in Int /\ m \in Int /\ m1 \in Int
  OBVIOUS
<1>4. /\ n > 0 => ~(n1 < 0)
      /\ m > 0 => ~(m1 < 0)
  OBVIOUS
<1> HIDE DEF n1, m1
<1>5. /\ SubscrUse(n1, m)["Lb-conn"] = n1
      /\ SubscrTotal(SubscrUse(n1, m)) = n1 + m
      /\ SubscrUse(n, m1)["smlc_loc_req_start"] = m1
      /\ SubscrTotal(SubscrUse(n, m1)) = n + m1
  BY <1>3, SubscrUseValue, Zenon
<1>6. n > 0 => smlc_subscr_put(h, s, "Lb-conn")
                 = [h EXCEPT !.subscr[s] = IF n1 + m = 0 THEN NULL ELSE SubscrUse(n1, m)]
  BY <1>1, <1>2, <1>4, <1>5, Zenon DEF smlc_subscr_put
<1>7. m > 0 => smlc_subscr_put(h, s, "smlc_loc_req_start")
                 = [h EXCEPT !.subscr[s] = IF n + m1 = 0 THEN NULL ELSE SubscrUse(n, m1)]
  BY <1>1, <1>2, <1>4, <1>5, Zenon DEF smlc_subscr_put
<1> QED
  BY <1>6, <1>7, Zenon DEF n1, m1

\* A connection lets its subscriber go.
LEMMA LastUserFrees ==
  ASSUME NEW h \in Heap, NEW s \in Imsis, NEW users \in SUBSET ConnIds, NEW c \in users,
         h.subscr[s] = UsedBy(users)
  PROVE  smlc_subscr_put(h, s, "Lb-conn") = [h EXCEPT !.subscr[s] = UsedBy(users \ {c})]
<1> DEFINE n == Cardinality(users)
<1>1. /\ n \in Nat /\ n > 0
      /\ Cardinality(users \ {c}) = n - 1
      /\ n - 1 + 0 = 0 <=> users \ {c} = {}
  <2>1. IsFiniteSet(users) /\ IsFiniteSet(users \ {c})
    BY DataAssumption, FS_Subset
  <2>2. Cardinality(users \ {c}) = n - 1
    BY <2>1, FS_RemoveElement
  <2>3. n \in Nat /\ Cardinality(users \ {c}) \in Nat
    BY <2>1, FS_CardinalityType
  <2>4. Cardinality(users \ {c}) = 0 <=> users \ {c} = {}
    BY <2>1, FS_EmptySet
  <2> QED
    BY <2>2, <2>3, <2>4
<1>2. h.subscr[s] = SubscrUse(n, 0)
  BY DEF UsedBy
<1>3. UsedBy(users \ {c}) = IF n - 1 + 0 = 0 THEN NULL ELSE SubscrUse(n - 1, 0)
  BY <1>1 DEF UsedBy
<1> HIDE DEF n
<1>4. n > 0 => smlc_subscr_put(h, s, "Lb-conn")
                 = [h EXCEPT !.subscr[s] = IF n - 1 + 0 = 0 THEN NULL ELSE SubscrUse(n - 1, 0)]
  BY <1>1, <1>2, SubscrPut
<1> QED
  BY <1>1, <1>3, <1>4, Zenon

\* A subscriber found or created is in use once more.
LEMMA FoundOrCreated ==
  ASSUME NEW h \in Heap, NEW s \in Imsis, NEW users \in SUBSET ConnIds,
         h.subscr[s] = UsedBy(users)
  PROVE  smlc_subscr_find_or_create(h, s, "smlc_loc_req_start")
           = [h EXCEPT !.subscr[s] = SubscrUse(Cardinality(users), 1)]
<1> DEFINE n == Cardinality(users)
<1>1. n \in Nat /\ (users = {} => n = 0)
  BY DataAssumption, FS_Subset, FS_CardinalityType, FS_EmptySet
<1>2. CASE users = {}
  <2>1. s \notin subscribers(h)
    BY <1>2 DEF UsedBy, subscribers
  <2>2. NewSubscr("smlc_loc_req_start") = SubscrUse(n, 1)
    BY <1>1, <1>2 DEF NewSubscr, SubscrUse, SubscrTokens
  <2> QED
    BY <2>1, <2>2, Zenon DEF smlc_subscr_find_or_create
<1>3. CASE users # {}
  <2>1. h.subscr[s] = SubscrUse(n, 0)
    BY <1>3 DEF UsedBy
  <2> HIDE DEF n
  <2>2. s \in subscribers(h)
    <3>1. n \in Int /\ 0 \in Int
      BY <1>1
    <3>2. SubscrUse(n, 0) # NULL
      BY <3>1, SubscrUseValue, Zenon
    <3> QED
      BY <2>1, <3>2 DEF subscribers
  <2>3. smlc_subscr_get(h, s, "smlc_loc_req_start") = [h EXCEPT !.subscr[s] = SubscrUse(n, 0 + 1)]
    BY <1>1, <2>1, SubscrGet
  <2> QED
    BY <2>2, <2>3 DEF smlc_subscr_find_or_create, n
<1> QED
  BY <1>2, <1>3

----------------------------------------------------------------------------
(* Connections.                                                            *)

\* The parts of a heap.
LEMMA HeapFields ==
  ASSUME NEW h \in Heap
  PROVE  /\ h.lb_peers \in [Peers -> PeerStates \cup {NULL}]
         /\ h.conn \in [ConnIds -> Conn \cup {NULL}]
         /\ h.ahead \in SUBSET (ConnIds \X ConnIds)
         /\ h.subscr \in [Imsis -> Subscr \cup {NULL}]
         /\ h.sccp \in [ConnIds -> Peers \cup {NULL}]
         /\ h.sent \in [ConnIds -> Seq(Pdu)]
         /\ h.unitdata \in SUBSET Unitdata
         /\ h.fault \in SUBSET Faults
  BY DEF Heap

\* The parts of a connection.
LEMMA ConnFields ==
  ASSUME NEW h \in Heap, NEW c \in ConnIds, h.conn[c] # NULL
  PROVE  /\ h.conn[c] \in Conn
         /\ h.conn[c].lb_peer \in Peers \cup {NULL}
         /\ h.conn[c].closing \in BOOLEAN
         /\ h.conn[c].use_count \in [ConnTokens -> Int]
         /\ h.conn[c].smlc_subscr \in Imsis \cup {NULL}
         /\ h.conn[c].smlc_loc_req \in LocReq \cup {NULL}
<1>1. h.conn[c] \in Conn
  BY HeapFields
<1> QED
  BY <1>1 DEF Conn

\* The heap h with other objects, as lb_conn_close() leaves it.
Closed(h, h2, c, users) ==
    /\ h2 \in Heap
    /\ h2.conn = [h.conn EXCEPT ![c] = NULL]
    /\ h2.sccp = [h.sccp EXCEPT ![c] = NULL]
    /\ h2.subscr = users
    /\ h2.ahead = {e \in h.ahead : c \notin {e[1], e[2]}}
    /\ h2.lb_peers = h.lb_peers
    /\ h2.sent = h.sent
    /\ h2.unitdata = h.unitdata
    /\ h2.fault = h.fault

\* lb_conn_close() on a connection that has no request any more.
LEMMA CloseEffect ==
  ASSUME NEW h, NEW c \in ConnIds, Core(h), h.conn[c] # NULL, h.conn[c].smlc_loc_req = NULL
  PROVE  LET s == h.conn[c].smlc_subscr
         IN  Closed(h, lb_conn_close(h, c), c,
                    IF s = NULL THEN h.subscr
                    ELSE [h.subscr EXCEPT ![s] = UsedBy(Users(h, s) \ {c})])
<1> DEFINE s == h.conn[c].smlc_subscr
           closed == lb_conn_close(h, c)
           released == [h EXCEPT !.conn[c].closing = TRUE, !.conn[c].lb_peer = NULL, !.sccp[c] = NULL]
           left == IF s = NULL THEN released ELSE smlc_subscr_put(released, s, "Lb-conn")
<1>1. h \in Heap /\ ~h.conn[c].closing /\ h.conn[c].lb_peer # NULL
  BY DataAssumption DEF Core, Attached
<1>2. h.conn[c] \in Conn /\ s \in Imsis \cup {NULL}
  BY <1>1, ConnFields
<1>3. released.conn[c].smlc_loc_req = NULL /\ released.conn[c].smlc_subscr = s
  BY <1>1, <1>2 DEF Heap, Conn
<1>4. closed = FreeConn(left, c)
  BY <1>1, <1>3 DEF lb_conn_close
<1>5. /\ released \in Heap
      /\ released.subscr = h.subscr
  BY <1>1, <1>2, ZenonT(30) DEF Heap, Conn
<1>6. s # NULL => left = [released EXCEPT !.subscr[s] = UsedBy(Users(h, s) \ {c})]
  <2> SUFFICES ASSUME s # NULL
               PROVE  left = [released EXCEPT !.subscr[s] = UsedBy(Users(h, s) \ {c})]
    OBVIOUS
  <2>1. /\ s \in Imsis
        /\ Users(h, s) \in SUBSET ConnIds
        /\ c \in Users(h, s)
        /\ released.subscr[s] = UsedBy(Users(h, s))
    BY <1>2, <1>5 DEF Users, Core, SubscrExact
  <2> HIDE DEF released, s
  <2>2. smlc_subscr_put(released, s, "Lb-conn") = [released EXCEPT !.subscr[s] = UsedBy(Users(h, s) \ {c})]
    BY <1>5, <2>1, LastUserFrees
  <2> QED
    BY <2>2
<1>7. released = [h EXCEPT !.conn = released.conn, !.sccp = [h.sccp EXCEPT ![c] = NULL]]
  BY <1>1, <1>2 DEF Heap
<1>8. /\ released.conn \in [ConnIds -> Conn \cup {NULL}]
      /\ \A d \in ConnIds \ {c} : released.conn[d] = h.conn[d]
  <2>1. released.conn \in [ConnIds -> Conn \cup {NULL}]
    BY <1>5, HeapFields
  <2>2. \A d \in ConnIds \ {c} : released.conn[d] = h.conn[d]
    <3> DEFINE r == [h.conn[c] EXCEPT !.closing = TRUE, !.lb_peer = NULL]
    <3>1. released.conn = [h.conn EXCEPT ![c] = r]
      BY <1>1, <1>2 DEF Heap, Conn
    <3> HIDE DEF r
    <3> QED
      BY <1>1, <3>1, HeapFields
  <2> QED
    BY <2>1, <2>2
<1> HIDE DEF released
<1> DEFINE users == IF s = NULL THEN h.subscr
                    ELSE [h.subscr EXCEPT ![s] = UsedBy(Users(h, s) \ {c})]
<1>9. users \in [Imsis -> Subscr \cup {NULL}]
  <2>1. Users(h, s) \ {c} \in SUBSET ConnIds
    BY DEF Users
  <2>2. UsedBy(Users(h, s) \ {c}) \in Subscr \cup {NULL}
    BY <2>1, UsedByType
  <2> HIDE DEF s
  <2> QED
    BY <1>1, <1>2, <2>2, HeapFields
<1>10. left = [released EXCEPT !.subscr = users]
  BY <1>1, <1>5, <1>6 DEF Heap
<1> HIDE DEF left, users
<1>11. closed = [h EXCEPT !.conn = [released.conn EXCEPT ![c] = NULL],
                          !.sccp = [h.sccp EXCEPT ![c] = NULL],
                          !.subscr = users,
                          !.ahead = {e \in h.ahead : c \notin {e[1], e[2]}}]
  BY <1>1, <1>4, <1>7, <1>10, ZenonT(30) DEF FreeConn, Heap
<1>12. [released.conn EXCEPT ![c] = NULL] = [h.conn EXCEPT ![c] = NULL]
  BY <1>1, <1>8, HeapFields
<1> HIDE DEF closed
<1>13. Closed(h, closed, c, users)
  <2>1. /\ [h.conn EXCEPT ![c] = NULL] \in [ConnIds -> Conn \cup {NULL}]
        /\ [h.sccp EXCEPT ![c] = NULL] \in [ConnIds -> Peers \cup {NULL}]
        /\ {e \in h.ahead : c \notin {e[1], e[2]}} \in SUBSET (ConnIds \X ConnIds)
    BY <1>1, HeapFields
  <2> QED
    BY <1>1, <1>9, <1>11, <1>12, <2>1 DEF Closed, Heap
<1> QED
  BY <1>13 DEF closed, users

\* Connection c has no object, or another one, and all else but the subscribers
\* is as it was.
OnlyConn(h, h2, c) ==
    /\ \A d \in ConnIds \ {c} : h2.conn[d] = h.conn[d] /\ h2.sccp[d] = h.sccp[d] /\ h2.sent[d] = h.sent[d]
    /\ h2.lb_peers = h.lb_peers
    /\ h2.unitdata = h.unitdata

\* A connection that is closed leaves the heap in order.
LEMMA CloseKeepsCore ==
  ASSUME NEW h, NEW c \in ConnIds, Core(h), h.conn[c] # NULL, h.conn[c].smlc_loc_req = NULL
  PROVE  LET h2 == lb_conn_close(h, c)
         IN  /\ Core(h2)
             /\ OnlyConn(h, h2, c)
             /\ h2.conn[c] = NULL /\ h2.sccp[c] = NULL /\ h2.sent = h.sent
<1> DEFINE s == h.conn[c].smlc_subscr
           h2 == lb_conn_close(h, c)
           users == IF s = NULL THEN h.subscr ELSE [h.subscr EXCEPT ![s] = UsedBy(Users(h, s) \ {c})]
<1>1. Closed(h, h2, c, users)
  BY CloseEffect
<1>2. h \in Heap /\ s \in Imsis \cup {NULL}
  BY ConnFields DEF Core
<1> HIDE DEF h2
<1>3. /\ h2 \in Heap /\ h2.fault = {}
      /\ OnlyConn(h, h2, c)
      /\ h2.conn[c] = NULL /\ h2.sccp[c] = NULL /\ h2.sent = h.sent
  BY <1>1, <1>2, HeapFields DEF Closed, OnlyConn, Core
<1>4. SubscrExact(h2)
  <2> SUFFICES ASSUME NEW t \in Imsis
               PROVE  h2.subscr[t] = UsedBy(Users(h2, t))
    BY DEF SubscrExact
  <2>1. h.subscr[t] = UsedBy(Users(h, t))
    BY DEF Core, SubscrExact
  <2>2. CASE t = s
    <3>1. Users(h2, t) = Users(h, t) \ {c}
      BY <1>3, <2>2 DEF Users, OnlyConn
    <3>2. users[t] = UsedBy(Users(h, s) \ {c})
      BY <1>2, <2>2, DataAssumption, HeapFields
    <3> QED
      BY <1>1, <2>2, <3>1, <3>2 DEF Closed
  <2>3. CASE t # s
    <3>1. Users(h2, t) = Users(h, t)
      BY <1>3, <2>3 DEF Users, OnlyConn
    <3>2. users[t] = h.subscr[t]
      BY <1>2, <2>3, HeapFields
    <3> QED
      BY <1>1, <2>1, <3>1, <3>2 DEF Closed
  <2> QED
    BY <2>2, <2>3
<1>5. ListExact(h2)
  BY <1>1, <1>2, <1>3, HeapFields DEF Core, ListExact, lb_conns, Closed, OnlyConn
<1>6. ASSUME NEW d \in ConnIds
      PROVE  Attached(h2, d)
  BY <1>3 DEF Core, Attached, OnlyConn
<1> QED
  BY <1>3, <1>4, <1>5, <1>6 DEF Core, h2

\* A connection object whose use counts or request change.
LEMMA ConnChange ==
  ASSUME NEW h, NEW c \in ConnIds, Core(h), h.conn[c] # NULL, NEW x \in Conn,
         ~x.closing, x.lb_peer = h.conn[c].lb_peer, x.smlc_subscr = h.conn[c].smlc_subscr
  PROVE  LET h2 == [h EXCEPT !.conn[c] = x]
         IN  /\ Core(h2)
             /\ OnlyConn(h, h2, c)
             /\ h2.conn[c] = x /\ h2.sccp = h.sccp /\ h2.sent = h.sent
<1> DEFINE h2 == [h EXCEPT !.conn[c] = x]
<1>1. h \in Heap /\ h.fault = {}
  BY DEF Core
<1>2. /\ h2.conn = [h.conn EXCEPT ![c] = x]
      /\ h2.lb_peers = h.lb_peers /\ h2.ahead = h.ahead /\ h2.subscr = h.subscr
      /\ h2.sccp = h.sccp /\ h2.sent = h.sent /\ h2.unitdata = h.unitdata /\ h2.fault = h.fault
      /\ h2 \in Heap
  BY <1>1 DEF Heap
<1> HIDE DEF h2
<1>3. x # NULL /\ h2.conn[c] = x /\ \A d \in ConnIds \ {c} : h2.conn[d] = h.conn[d]
  BY <1>1, <1>2, DataAssumption, HeapFields
<1>4. \A s \in Imsis : Users(h2, s) = Users(h, s)
  BY <1>3 DEF Users
<1>5. lb_conns(h2) = lb_conns(h)
  BY <1>3 DEF lb_conns
<1>6. SubscrExact(h2) /\ ListExact(h2)
  BY <1>2, <1>4, <1>5 DEF Core, SubscrExact, ListExact
<1>7. \A d \in ConnIds : Attached(h2, d)
  BY <1>2, <1>3 DEF Core, Attached
<1> QED
  BY <1>1, <1>2, <1>3, <1>6, <1>7 DEF Core, OnlyConn, h2

\* The connection with other use counts.
WithUse(h, c, use) == [h EXCEPT !.conn[c] = [h.conn[c] EXCEPT !.use_count = use]]

\* A connection whose use count changes.
LEMMA UseChange ==
  ASSUME NEW h, NEW c \in ConnIds, Core(h), h.conn[c] # NULL, NEW use \in [ConnTokens -> Int]
  PROVE  LET h2 == WithUse(h, c, use)
         IN  /\ Core(h2)
             /\ OnlyConn(h, h2, c)
             /\ h2.conn[c] = [h.conn[c] EXCEPT !.use_count = use]
             /\ h2.conn[c] # NULL
             /\ h2.sccp = h.sccp /\ h2.sent = h.sent
<1> DEFINE x == [h.conn[c] EXCEPT !.use_count = use]
<1>1. h.conn[c] \in Conn
  BY ConnFields DEF Core
<1>2. x \in Conn /\ x.closing = h.conn[c].closing /\ x.lb_peer = h.conn[c].lb_peer
        /\ x.smlc_subscr = h.conn[c].smlc_subscr
  BY <1>1 DEF Conn
<1>3. ~x.closing
  BY <1>2 DEF Core, Attached
<1>4. x # NULL
  BY <1>2, DataAssumption
<1> HIDE DEF x
<1>5. LET h2 == [h EXCEPT !.conn[c] = x]
      IN  /\ Core(h2)
          /\ OnlyConn(h, h2, c)
          /\ h2.conn[c] = x /\ h2.conn[c] # NULL
          /\ h2.sccp = h.sccp /\ h2.sent = h.sent
  BY <1>2, <1>3, <1>4, ConnChange
<1> QED
  BY <1>5 DEF WithUse, x

\* lb_conn_get() and lb_conn_put() in terms of the use counts of the handlers.
LEMMA GetEffect ==
  ASSUME NEW h, NEW c \in ConnIds, Core(h), h.conn[c] # NULL, NEW n \in Int,
         h.conn[c].use_count = ConnUse(n, 0)
  PROVE  lb_conn_get(h, c, "smlc_loc_req") = WithUse(h, c, ConnUse(n, 1))
<1>1. [ConnUse(n, 0) EXCEPT !["smlc_loc_req"] = @ + 1] = ConnUse(n, 1)
  BY DEF ConnUse, ConnTokens
<1>2. h \in Heap /\ h.conn[c] \in Conn
  BY ConnFields DEF Core
<1>3. lb_conn_get(h, c, "smlc_loc_req")
        = [h EXCEPT !.conn[c] = [h.conn[c] EXCEPT !.use_count =
             [h.conn[c].use_count EXCEPT !["smlc_loc_req"] = @ + 1]]]
  BY <1>2 DEF lb_conn_get, Heap, Conn
<1> QED
  BY <1>1, <1>3 DEF WithUse

\* A use count is returned; with the last one the connection is closed.
LEMMA PutEffect ==
  ASSUME NEW h, NEW c \in ConnIds, Core(h), h.conn[c] # NULL, NEW n \in Int, NEW m \in Int,
         h.conn[c].use_count = ConnUse(n, m)
  PROVE  /\ n > 0 => lb_conn_put(h, c, "lb_peer_st_ready")
                       = LET h2 == WithUse(h, c, ConnUse(n - 1, m))
                         IN  IF n - 1 + m = 0 THEN lb_conn_close(h2, c) ELSE h2
         /\ m > 0 => lb_conn_put(h, c, "smlc_loc_req")
                       = LET h2 == WithUse(h, c, ConnUse(n, m - 1))
                         IN  IF n + (m - 1) = 0 THEN lb_conn_close(h2, c) ELSE h2
<1> DEFINE n1 == n - 1
           m1 == m - 1
           put1 == [h EXCEPT !.conn[c].use_count["lb_peer_st_ready"] = @ - 1]
           put2 == [h EXCEPT !.conn[c].use_count["smlc_loc_req"] = @ - 1]
<1>1. /\ [ConnUse(n, m) EXCEPT !["lb_peer_st_ready"] = @ - 1] = ConnUse(n1, m)
      /\ [ConnUse(n, m) EXCEPT !["smlc_loc_req"] = @ - 1] = ConnUse(n, m1)
  BY DEF ConnUse, ConnTokens
<1>2. h \in Heap /\ h.conn[c] \in Conn
  BY ConnFields DEF Core
<1>3. /\ put1 = [h EXCEPT !.conn[c] = [h.conn[c] EXCEPT !.use_count =
                    [h.conn[c].use_count EXCEPT !["lb_peer_st_ready"] = @ - 1]]]
      /\ put2 = [h EXCEPT !.conn[c] = [h.conn[c] EXCEPT !.use_count =
                    [h.conn[c].use_count EXCEPT !["smlc_loc_req"] = @ - 1]]]
  BY <1>2 DEF Heap, Conn
<1>4. put1 = WithUse(h, c, ConnUse(n1, m)) /\ put2 = WithUse(h, c, ConnUse(n, m1))
  BY <1>1, <1>3 DEF WithUse
<1>5. /\ n1 \in Int /\ m1 \in Int
      /\ n > 0 => ~(n1 < 0)
      /\ m > 0 => ~(m1 < 0)
  OBVIOUS
<1>6. ConnUse(n1, m) \in [ConnTokens -> Int] /\ ConnUse(n, m1) \in [ConnTokens -> Int]
  BY <1>5, ConnUseValue, Zenon
<1>7. /\ put1.conn[c].use_count = ConnUse(n1, m)
      /\ put2.conn[c].use_count = ConnUse(n, m1)
  <2>1. /\ WithUse(h, c, ConnUse(n1, m)).conn[c] = [h.conn[c] EXCEPT !.use_count = ConnUse(n1, m)]
        /\ WithUse(h, c, ConnUse(n, m1)).conn[c] = [h.conn[c] EXCEPT !.use_count = ConnUse(n, m1)]
    BY <1>6, UseChange
  <2>2. \A use : [h.conn[c] EXCEPT !.use_count = use].use_count = use
    BY <1>2 DEF Conn
  <2> HIDE DEF put1, put2
  <2> QED
    BY <1>4, <2>1, <2>2
<1> HIDE DEF n1, m1
<1>8. /\ ConnUse(n1, m)["lb_peer_st_ready"] = n1
      /\ ConnTotal(ConnUse(n1, m)) = n1 + m
      /\ ConnUse(n, m1)["smlc_loc_req"] = m1
      /\ ConnTotal(ConnUse(n, m1)) = n + m1
  BY <1>5, ConnUseValue, Zenon
<1>9. n > 0 => lb_conn_put(h, c, "lb_peer_st_ready")
                 = IF n1 + m = 0 THEN lb_conn_close(put1, c) ELSE put1
  <2>1. lb_conn_put(h, c, "lb_peer_st_ready")
          = IF put1.conn[c].use_count["lb_peer_st_ready"] < 0 THEN Fault(h, "use count below zero")
            ELSE IF ConnTotal(put1.conn[c].use_count) = 0 THEN lb_conn_close(put1, c) ELSE put1
    BY DEF lb_conn_put
  <2> HIDE DEF put1
  <2> QED
    BY <1>5, <1>7, <1>8, <2>1
<1>10. m > 0 => lb_conn_put(h, c, "smlc_loc_req")
                  = IF n + m1 = 0 THEN lb_conn_close(put2, c) ELSE put2
  <2>1. lb_conn_put(h, c, "smlc_loc_req")
          = IF put2.conn[c].use_count["smlc_loc_req"] < 0 THEN Fault(h, "use count below zero")
            ELSE IF ConnTotal(put2.conn[c].use_count) = 0 THEN lb_conn_close(put2, c) ELSE put2
    BY DEF lb_conn_put
  <2> HIDE DEF put2
  <2> QED
    BY <1>5, <1>7, <1>8, <2>1
<1> HIDE DEF put1, put2
<1> QED
  BY <1>4, <1>9, <1>10, Zenon DEF n1, m1

\* Connection c has just been allocated: it has no request and no subscriber yet,
\* and precedes the other connections in the list.
Fresh(h, c) ==
    /\ h.conn[c] # NULL
    /\ h.conn[c].smlc_loc_req = NULL
    /\ h.conn[c].smlc_subscr = NULL
    /\ h.conn[c].use_count = ConnUse(1, 0)
    /\ \A d \in lb_conns(h) \ {c} : <<c, d>> \in h.ahead /\ <<d, c>> \notin h.ahead

\* A new connection object, with the use count of the handler that creates it.
LEMMA AllocEffect ==
  ASSUME NEW h, NEW c \in ConnIds, NEW p \in Peers, Core(h), h.conn[c] = NULL,
         h.lb_peers[p] = "READY", h.sccp[c] \in {NULL, p}
  PROVE  LET h2 == lb_conn_alloc(h, p, c, "lb_peer_st_ready")
         IN  /\ Core(h2)
             /\ OnlyConn(h, h2, c)
             /\ Fresh(h2, c)
             /\ h2.sccp = h.sccp /\ h2.sent = h.sent
<1> DEFINE x == [lb_peer |-> p,
                 closing |-> FALSE,
                 use_count |-> [t \in ConnTokens |-> IF t = "lb_peer_st_ready" THEN 1 ELSE 0],
                 smlc_subscr |-> NULL,
                 smlc_loc_req |-> NULL]
           h2 == lb_conn_alloc(h, p, c, "lb_peer_st_ready")
<1>1. h \in Heap /\ h.fault = {}
  BY DEF Core
<1>2. x.use_count = ConnUse(1, 0)
  BY DEF ConnUse, ConnTokens
<1>3. x \in Conn /\ ~x.closing /\ x.lb_peer = p /\ x.smlc_subscr = NULL /\ x.smlc_loc_req = NULL
  BY <1>2, ConnUseValue DEF Conn
<1>4. x # NULL
  BY <1>3, DataAssumption
<1> HIDE DEF x
<1>5. /\ h2.conn = [h.conn EXCEPT ![c] = x]
      /\ h2.ahead = h.ahead \cup ({c} \X lb_conns(h))
      /\ h2.lb_peers = h.lb_peers /\ h2.subscr = h.subscr
      /\ h2.sccp = h.sccp /\ h2.sent = h.sent /\ h2.unitdata = h.unitdata /\ h2.fault = h.fault
  BY <1>1 DEF lb_conn_alloc, Heap, x
<1>6. h2 = [h EXCEPT !.conn = [h.conn EXCEPT ![c] = x], !.ahead = h.ahead \cup ({c} \X lb_conns(h))]
  BY <1>1 DEF lb_conn_alloc, Heap, x
<1>7. h2 \in Heap
  <2>1. h.ahead \cup ({c} \X lb_conns(h)) \in SUBSET (ConnIds \X ConnIds)
    BY <1>1, HeapFields DEF lb_conns
  <2>2. [h.conn EXCEPT ![c] = x] \in [ConnIds -> Conn \cup {NULL}]
    BY <1>1, <1>3, HeapFields
  <2> QED
    BY <1>1, <1>6, <2>1, <2>2 DEF Heap
<1> HIDE DEF h2
<1>8. h2.conn[c] = x /\ \A d \in ConnIds \ {c} : h2.conn[d] = h.conn[d]
  BY <1>1, <1>5, HeapFields
<1>9. SubscrExact(h2)
  <2>1. \A s \in Imsis : Users(h2, s) = Users(h, s)
    BY <1>3, <1>8, DataAssumption DEF Users
  <2> QED
    BY <1>5, <2>1 DEF Core, SubscrExact
<1>10. lb_conns(h2) = lb_conns(h) \cup {c} /\ c \notin lb_conns(h)
  BY <1>4, <1>8 DEF lb_conns
<1>11. ListExact(h2)
  BY <1>5, <1>10 DEF Core, ListExact
<1>12. \A d \in lb_conns(h2) \ {c} : <<c, d>> \in h2.ahead /\ <<d, c>> \notin h2.ahead
  BY <1>5, <1>10 DEF Core, ListExact
<1>13. \A d \in ConnIds : Attached(h2, d)
  BY <1>3, <1>5, <1>8 DEF Core, Attached
<1> QED
  BY <1>1, <1>2, <1>3, <1>4, <1>5, <1>7, <1>8, <1>9, <1>11, <1>12, <1>13 DEF Core, OnlyConn, Fresh, h2
============================================================================
