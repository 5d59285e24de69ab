-------------------------- MODULE SccpConnIdProofs --------------------------
(***************************************************************************)
(* The connection ids of SccpConnId, for an id space of any size.          *)
(***************************************************************************)
EXTENDS SccpConnId, TLAPS, WellFoundedInduction

----------------------------------------------------------------------------
(* The ids form a ring.                                                    *)

\* Going on by less than a turn leads to an id.
LEMMA AfterIsId == \A id \in Ids, i \in 0 .. IdSpace - 1 : After(id, i) \in Ids
  BY IdSpaceAssumption DEF Ids, After

\* The rounds of the loop come to every id but the one before next_id.
LEMMA AllButOneTried ==
    \A id, conn_id \in Ids : After(conn_id, 1) # id => \E i \in Tries : After(id, i) = conn_id
<1> SUFFICES ASSUME NEW id \in Ids, NEW conn_id \in Ids, After(conn_id, 1) # id
             PROVE  \E i \in Tries : After(id, i) = conn_id
  OBVIOUS
<1> DEFINE i == IF conn_id >= id THEN conn_id - id ELSE conn_id - id + IdSpace
<1>1. i \in Tries /\ After(id, i) = conn_id
  BY IdSpaceAssumption DEF Ids, After, Tries
<1> QED BY <1>1

\* The id before next_id is the one that no round comes to.
LEMMA OneNotTried ==
    \A id \in Ids, i \in Tries : After(After(id, i), 1) # id
  BY IdSpaceAssumption DEF Ids, After, Tries

\* The first of the rounds that find their id unused is one of them.
LEMMA FirstRound ==
    ASSUME NEW id, NEW ids, FreeTries(id, ids) # {}
    PROVE  Min(FreeTries(id, ids)) \in FreeTries(id, ids)
<1> DEFINE Free == FreeTries(id, ids)
<1>1. Free \subseteq Nat
  BY IdSpaceAssumption DEF FreeTries, Tries
<1>2. PICK n \in Free : \A m \in Free : ~(<<m, n>> \in OpToRel(<, Nat))
  <2> HIDE DEF Free
  <2> QED BY <1>1, NatLessThanWellFounded, WFMin DEF Free
<1>3. \A m \in Free : n <= m
  <2> SUFFICES ASSUME NEW m \in Free PROVE n <= m
    OBVIOUS
  <2>1. m \in Nat /\ n \in Nat
    BY <1>1
  <2>2. ~(m < n)
    BY <1>2, <2>1, ZenonT(30) DEF OpToRel
  <2> QED BY <2>1, <2>2
<1> QED BY <1>3 DEF Min

----------------------------------------------------------------------------
(* One call.                                                               *)

\* A call that returns an id returns one that is not in use.
LEMMA ReturnsNew ==
    ASSUME NEW id \in Ids, NEW ids
    PROVE  LET new == sccp_lb_inst_next_conn_id(id, ids)
           IN  new = -1 \/ (new \in Ids \ ids /\ NextIdAfter(id, ids) = After(new, 1) /\ After(new, 1) # id)
<1>1. CASE FreeTries(id, ids) = {}
  BY <1>1 DEF sccp_lb_inst_next_conn_id
<1>2. CASE FreeTries(id, ids) # {}
  <2> DEFINE i == Min(FreeTries(id, ids))
  <2>1. i \in Tries /\ After(id, i) \notin ids
    BY <1>2, FirstRound DEF FreeTries
  <2>2. i \in 0 .. IdSpace - 1
    BY <2>1, IdSpaceAssumption DEF Tries
  <2> HIDE DEF i
  <2>3. After(id, i) \in Ids /\ After(After(id, i), 1) # id
    BY <2>1, <2>2, AfterIsId, OneNotTried
  <2> QED BY <1>2, <2>1, <2>3 DEF i, sccp_lb_inst_next_conn_id, NextIdAfter
<1> QED BY <1>1, <1>2

\* A call that returns none has found all ids in use that it comes to.
LEMMA ReturnsNone ==
    ASSUME NEW id \in Ids, NEW ids, sccp_lb_inst_next_conn_id(id, ids) = -1
    PROVE  /\ \A conn_id \in Ids \ ids : After(conn_id, 1) = id
           /\ NextIdAfter(id, ids) \in Ids
<1>1. FreeTries(id, ids) = {}
  <2> SUFFICES ASSUME FreeTries(id, ids) # {} PROVE FALSE
    OBVIOUS
  <2> DEFINE i == Min(FreeTries(id, ids))
  <2>1. i \in Tries
    BY FirstRound DEF FreeTries
  <2> HIDE DEF i
  <2>2. i \in 0 .. IdSpace - 1
    BY <2>1, IdSpaceAssumption DEF Tries
  <2>3. After(id, i) \in Ids
    BY <2>2, AfterIsId
  <2>4. After(id, i) # -1
    BY <2>3, IdSpaceAssumption DEF Ids
  <2> QED BY <2>4 DEF i, sccp_lb_inst_next_conn_id
<1>2. NextIdAfter(id, ids) \in Ids
  BY <1>1, AfterIsId, IdSpaceAssumption DEF NextIdAfter
<1> QED BY <1>1, <1>2, AllButOneTried DEF FreeTries

----------------------------------------------------------------------------
(* The component.                                                          *)

\* next_id is the id after the last one returned.
IInv == TypeOK /\ (last # -1 => next_id = After(last, 1))

LEMMA InitIInv == Init => IInv
  BY IdSpaceAssumption DEF Init, IInv, TypeOK, Ids

LEMMA StepIInv == IInv /\ [Next]_idVars => IInv'
<1> SUFFICES ASSUME IInv, [Next]_idVars PROVE IInv'
  OBVIOUS
<1> USE DEF IInv, TypeOK
<1>1. CASE lb_conn_create_outgoing
  <2> DEFINE new == sccp_lb_inst_next_conn_id(next_id, used)
  <2>1. next_id' = NextIdAfter(next_id, used) /\ last' = new
        /\ used' = IF new < 0 THEN used ELSE used \cup {new}
    BY <1>1 DEF lb_conn_create_outgoing
  <2>2. new = -1 \/ (new \in Ids /\ NextIdAfter(next_id, used) = After(new, 1))
    BY ReturnsNew
  <2>3. new = -1 => NextIdAfter(next_id, used) \in Ids
    BY ReturnsNone
  <2>4. new \in Ids => After(new, 1) \in Ids
    BY AfterIsId, IdSpaceAssumption
  <2> HIDE DEF new
  <2> QED BY <2>1, <2>2, <2>3, <2>4
<1>2. CASE \E conn_id \in Ids : lb_conn_create_incoming(conn_id) \/ lb_conn_close(conn_id)
  BY <1>2 DEF lb_conn_create_incoming, lb_conn_close
<1>3. CASE UNCHANGED idVars
  BY <1>3 DEF idVars
<1> QED BY <1>1, <1>2, <1>3 DEF Next

LEMMA IInvHolds == Spec => []IInv
  BY InitIInv, StepIInv, PTL DEF Spec

\* The connection ids are ids, and next_id wraps around where it has to.
THEOREM IdsTyped == Spec => []TypeOK
<1>1. IInv => TypeOK
  BY DEF IInv
<1> QED BY <1>1, IInvHolds, PTL

\* An outgoing connection gets an id that no connection has.
THEOREM IdsAreNew == Spec => IdIsNew
<1>1. IInv /\ [Next]_idVars => [lb_conn_create_outgoing /\ last' # -1 => last' \in Ids \ used]_idVars
  BY ReturnsNew DEF IInv, TypeOK, lb_conn_create_outgoing
<1> QED BY <1>1, IInvHolds, PTL DEF Spec, IdIsNew

\* The loop overlooks no free id but possibly the one before next_id.
THEOREM IdsRunOutLate == Spec => GivesUpLate
<1>1. IInv /\ [Next]_idVars =>
        [lb_conn_create_outgoing /\ last' = -1 =>
           \A conn_id \in Ids \ used : After(conn_id, 1) = next_id]_idVars
  BY ReturnsNone DEF IInv, TypeOK, lb_conn_create_outgoing
<1> QED BY <1>1, IInvHolds, PTL DEF Spec, GivesUpLate

\* Two calls in a row return different ids.
THEOREM IdsRest == Spec => NotTwiceInARow
<1>1. IInv /\ [Next]_idVars => [lb_conn_create_outgoing /\ last # -1 => last' # last]_idVars
  BY ReturnsNew DEF IInv, TypeOK, lb_conn_create_outgoing
<1> QED BY <1>1, IInvHolds, PTL DEF Spec, NotTwiceInARow
=============================================================================
