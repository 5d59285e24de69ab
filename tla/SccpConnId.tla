----------------------------- MODULE SccpConnId -----------------------------
(***************************************************************************)
(* sccp_lb_inst_next_conn_id(): which SCCP connection id a connection gets   *)
(* that the program opens itself, while the BSCs open connections under ids  *)
(* of their provider's choice.  Nothing calls lb_conn_create_outgoing() yet, *)
(* so this is a component of its own and not a part of module OsmoSmlc.      *)
(***************************************************************************)
EXTENDS Integers, FiniteSetsExt

CONSTANT IdSpace   \* the number of ids, 0x1000000

ASSUME IdSpaceAssumption == IdSpace \in Nat /\ IdSpace >= 2

VARIABLES
    next_id,    \* the static variable of the function
    used,       \* the ids of the lb_conns that have their lb_peer
    last        \* the id that the last call has returned, -1 for none

idVars == <<next_id, used, last>>

Ids == 0 .. IdSpace - 1

TypeOK ==
    /\ next_id \in Ids
    /\ used \in SUBSET Ids
    /\ last \in Ids \cup {-1}

\* Faulty variants of After: the mask is forgotten, and so is the highest id.
AfterUnmasked(id, i) == id + i
AfterShort(id, i) == IF id + i < IdSpace - 1 THEN id + i ELSE 0

\* The id that is i after this one: next_id is increased and masked i times.
After(id, i) == IF id + i < IdSpace THEN id + i ELSE id + i - IdSpace

\* Faulty variant of Tries: all ids.
TriesAll == 0 .. IdSpace - 1

\* The loop tries one id less than there are.
Tries == 0 .. IdSpace - 2

\* Faulty variant of FreeTries: an id is taken as it comes.
FreeTriesUnchecked(id, ids) == Tries

\* The rounds of the loop that find their id unused.
FreeTries(id, ids) == {i \in Tries : After(id, i) \notin ids}

\* The value returned, and the next_id left behind.
sccp_lb_inst_next_conn_id(id, ids) ==
    IF FreeTries(id, ids) = {} THEN -1 ELSE After(id, Min(FreeTries(id, ids)))

NextIdAfter(id, ids) ==
    IF FreeTries(id, ids) = {} THEN After(id, IdSpace - 1)
    ELSE After(After(id, Min(FreeTries(id, ids))), 1)

----------------------------------------------------------------------------

\* lb_conn_create_outgoing(), which creates nothing when there is no id.
lb_conn_create_outgoing ==
    LET new_conn_id == sccp_lb_inst_next_conn_id(next_id, used)
    IN  /\ next_id' = NextIdAfter(next_id, used)
        /\ last' = new_conn_id
        /\ used' = IF new_conn_id < 0 THEN used ELSE used \cup {new_conn_id}

\* A BSC opens a connection; lb_peer_up_l2() refuses an id that is in use.
lb_conn_create_incoming(conn_id) ==
    /\ conn_id \notin used
    /\ used' = used \cup {conn_id}
    /\ UNCHANGED <<next_id, last>>

\* A connection loses its lb_peer and is freed.
lb_conn_close(conn_id) ==
    /\ conn_id \in used
    /\ used' = used \ {conn_id}
    /\ UNCHANGED <<next_id, last>>

Init == next_id = 1 /\ used = {} /\ last = -1

Next ==
    \/ lb_conn_create_outgoing
    \/ \E conn_id \in Ids : lb_conn_create_incoming(conn_id) \/ lb_conn_close(conn_id)

Spec == Init /\ [][Next]_idVars

----------------------------------------------------------------------------

\* An outgoing connection never shares its id with one that there is already,
\* after any number of turns through the ids (sccp_lb_inst.c:43-62).
IdIsNew ==
    [][lb_conn_create_outgoing /\ last' # -1 => last' \in Ids \ used]_idVars

\* The loop gives up although there is a free id, but only on a single one: the
\* id before next_id, which it does not come to (sccp_lb_inst.c:41).
GivesUpLate ==
    [][lb_conn_create_outgoing /\ last' = -1 =>
         \A conn_id \in Ids \ used : After(conn_id, 1) = next_id]_idVars

\* Two calls in a row do not return the same id, however fast the first
\* connection is closed: a late message for it does not meet the second.  This
\* is what the missing round of the loop is good for (sccp_lb_inst.c:41-44).
NotTwiceInARow ==
    [][lb_conn_create_outgoing /\ last # -1 => last' # last]_idVars
=============================================================================
