------------------------------- MODULE LbLink -------------------------------
(***************************************************************************)
(* The Lb interface with both ends: the OsmoSMLC process, a BSC that asks   *)
(* it for locations, and what is on its way between them.                   *)
(*                                                                         *)
(* Connection-oriented messages are those of SCCP connections.  RESET and   *)
(* RESET ACKNOWLEDGE are unitdata: they may be lost and overtaken, carry no *)
(* number, and at most one of a kind is on its way (a second one is lost).  *)
(* The BSC is not part of the repository.  It does what lb_peer.c relies on *)
(* and does itself: RESET until it is acknowledged, and when it receives a  *)
(* RESET it forgets its connections without a word and acknowledges.        *)
(***************************************************************************)
EXTENDS OsmoSmlc

CONSTANTS
    Bsc,      \* the BSC
    BscConns, \* the connections between the BSC and the program
    Patient   \* the one on which the BSC waits as long as it takes

\* The BSC has something to ask for, or its fairness below would be void.
ASSUME LinkAssumption ==
    /\ Bsc \in Peers /\ BscConns \subseteq ConnIds /\ Patient \in BscConns
    /\ Imsis # {} /\ RequestCells # {}

VARIABLES
    bsc,        \* the RESET procedure of the BSC
    held,       \* the connections of the BSC
    asked,      \* the subscribers that they, and those on their way, are about
    connecting, \* the connections whose N-CONNECT is on its way
    to_bsc, to_smlc \* unitdata on its way

bscVars == <<bsc, held, asked, connecting>>
linkVars == <<vars, bscVars, to_bsc, to_smlc>>

Kinds == {"RESET", "RESET_ACK"}

\* A connection is half open when a restart of the program has cut it off.  It is
\* overtaken when the program has taken part in a RESET procedure that the BSC
\* had behind it before it opened the connection.
HeldStates == {"none", "open", "half_open", "overtaken"}

LinkTypeOK ==
    /\ bsc \in {"resetting", "ready"}
    /\ held \in [BscConns -> HeldStates]
    /\ asked \in [BscConns -> Imsis \cup {NULL}]
    /\ connecting \in SUBSET BscConns
    /\ to_bsc \in SUBSET Kinds /\ to_smlc \in SUBSET Kinds

Nothing == [c \in BscConns |-> "none"]

\* The BSC forgets what it has asked for with the connection.
Forgets ==
    asked' = [c \in BscConns |-> IF held'[c] = "none" /\ c \notin connecting' THEN NULL ELSE asked[c]]

----------------------------------------------------------------------------
(* The BSC.                                                                *)

\* It starts, or starts again.
BscStart ==
    /\ bsc' = "resetting" /\ held' = Nothing
    /\ UNCHANGED <<vars, connecting, to_bsc, to_smlc>>
    /\ Forgets

BscSendsReset ==
    /\ bsc = "resetting"
    /\ to_smlc' = to_smlc \cup {"RESET"}
    /\ UNCHANGED <<vars, bscVars, to_bsc>>

BscRxReset ==
    /\ "RESET" \in to_bsc
    /\ bsc' = "ready" /\ held' = Nothing
    /\ to_bsc' = to_bsc \ {"RESET"} /\ to_smlc' = to_smlc \cup {"RESET_ACK"}
    /\ UNCHANGED <<vars, connecting>>
    /\ Forgets

BscRxResetAck ==
    /\ "RESET_ACK" \in to_bsc
    /\ bsc' = "ready"
    /\ to_bsc' = to_bsc \ {"RESET_ACK"}
    /\ UNCHANGED <<vars, held, asked, connecting, to_smlc>>

\* An id is free again when the program has released the connection, too.
Free(c) == held[c] = "none" /\ c \notin connecting /\ g_smlc.sccp[c] = NULL

BscOpens(c) ==
    /\ bsc = "ready" /\ Free(c)
    /\ held' = [held EXCEPT ![c] = "open"]
    /\ \E imsi \in Imsis : asked' = [asked EXCEPT ![c] = imsi]
    /\ connecting' = connecting \cup {c}
    /\ UNCHANGED <<vars, bsc, to_bsc, to_smlc>>

BscGivesUp(c) ==
    /\ c # Patient /\ held[c] # "none"
    /\ held' = [held EXCEPT ![c] = "none"]
    /\ UNCHANGED <<vars, bsc, connecting, to_bsc, to_smlc>>
    /\ Forgets

\* The program has released the connection, usually with a response before.
Released(c) == held[c] = "open" /\ c \notin connecting /\ g_smlc.sccp[c] = NULL

BscSeesRelease(c) ==
    /\ Released(c)
    /\ held' = [held EXCEPT ![c] = "none"]
    /\ UNCHANGED <<vars, bsc, connecting, to_bsc, to_smlc>>
    /\ Forgets

Loss ==
    /\ \/ \E type \in to_bsc : to_bsc' = to_bsc \ {type} /\ UNCHANGED to_smlc
       \/ \E type \in to_smlc : to_smlc' = to_smlc \ {type} /\ UNCHANGED to_bsc
    /\ UNCHANGED <<vars, bscVars>>

----------------------------------------------------------------------------
(* The program, with what it sends on its way.                             *)

Sends == to_bsc' = to_bsc \cup {m.type : m \in {sent \in g_smlc'.unitdata : sent.to = Bsc}}

Arriving(c) == c \in connecting /\ g_smlc.sccp[c] = NULL

SmlcConnect(c) ==
    /\ Arriving(c)
    /\ connecting' = connecting \ {c}
    /\ UNCHANGED <<bsc, held, to_smlc>>
    /\ Forgets
    /\ \E msg \in PerformLocReq, failing \in Outages :
         msg.imsi = asked[c] /\ N_CONNECT(c, Bsc, msg, failing)
    /\ Sends

SmlcData(c) ==
    /\ held[c] = "open"
    /\ \E msg \in TaReport \cup PlainMessage, failing \in Outages : N_DATA(c, msg, failing)
    /\ Sends
    /\ UNCHANGED <<bscVars, to_smlc>>

\* The BSC does not know the connection any more, or SCCP finds that out.
Forgotten(c) == held[c] = "none" /\ g_smlc.sccp[c] # NULL

SmlcDisconnect(c) ==
    /\ Forgotten(c)
    /\ UNCHANGED <<bscVars, to_smlc>>
    /\ \E failing \in Outages : N_DISCONNECT(c, NULL, failing)
    /\ Sends

\* The BSC takes the connection for one that the program knows.
Listening(c) ==
    /\ held[c] \in {"open", "half_open"} /\ c \notin connecting
    /\ held[c] = "open" => g_smlc.sccp[c] # NULL

\* A RESET that the BSC does not wait for any more, or the acknowledgement of
\* an earlier RESET than the last.
Late(type) ==
    \/ type = "RESET" /\ bsc = "ready"
    \/ type = "RESET_ACK" /\ g_smlc.lb_peers[Bsc] = "WAIT_RX_RESET_ACK"

SmlcUnitdata(type) ==
    /\ type \in to_smlc
    /\ to_smlc' = to_smlc \ {type}
    /\ held' = [c \in BscConns |-> IF Late(type) /\ Listening(c) THEN "overtaken" ELSE held[c]]
    /\ UNCHANGED <<bsc, asked, connecting>>
    /\ \E failing \in Outages : N_UNITDATA(Bsc, type, failing)
    /\ Sends

SmlcT12(c) ==
    /\ UNCHANGED <<bscVars, to_smlc>>
    /\ \E failing \in Outages : TimeoutT12(c, failing)
    /\ Sends

SmlcT13 ==
    /\ UNCHANGED <<bscVars, to_smlc>>
    /\ TimeoutT13(Bsc)
    /\ Sends

\* Another BSC may send anything at any time, on any connection of its own.
OtherBscs ==
    /\ UNCHANGED <<bscVars, to_smlc>>
    /\ \/ \E c \in ConnIds \ BscConns, failing \in Outages :
            \/ \E p \in Peers \ {Bsc}, msg \in Message : N_CONNECT(c, p, msg, failing)
            \/ \E msg \in Message : N_DATA(c, msg, failing)
            \/ \E msg \in Message \cup {NULL} : N_DISCONNECT(c, msg, failing)
            \/ TimeoutT12(c, failing)
       \/ \E p \in Peers \ {Bsc}, failing \in Outages :
            \E type \in {"RESET", "RESET_ACK", "unsupported"} : N_UNITDATA(p, type, failing)
       \/ \E p \in Peers \ {Bsc} : TimeoutT13(p)
       \/ N_CONNECT_Empty
    /\ Sends

SmlcVty == Vty /\ UNCHANGED <<bscVars, to_bsc, to_smlc>>

\* The connections that the program had are gone, and the BSC is not told.
SmlcRestart ==
    /\ Restart
    /\ held' = [c \in BscConns |-> IF held[c] = "open" /\ Listening(c) THEN "half_open" ELSE held[c]]
    /\ UNCHANGED <<bsc, asked, connecting, to_bsc, to_smlc>>

----------------------------------------------------------------------------

LinkInit ==
    /\ Init
    /\ bsc = "resetting" /\ held = Nothing /\ asked = [c \in BscConns |-> NULL] /\ connecting = {}
    /\ to_bsc = {} /\ to_smlc = {}

LinkNext ==
    \/ BscStart \/ BscSendsReset \/ BscRxReset \/ BscRxResetAck
    \/ \E c \in BscConns :
         \/ BscOpens(c)
         \/ BscGivesUp(c)
         \/ BscSeesRelease(c)
         \/ SmlcConnect(c)
         \/ SmlcData(c)
         \/ SmlcDisconnect(c)
         \/ SmlcT12(c)
    \/ Loss
    \/ \E type \in Kinds : SmlcUnitdata(type)
    \/ SmlcT13
    \/ OtherBscs
    \/ SmlcVty
    \/ SmlcRestart

LinkSpec == LinkInit /\ [][LinkNext]_linkVars

\* A RESET and the RESET ACKNOWLEDGE can be sent.
ClWorks == {failing \in Outages : failing \cap {"enc_cl", "send_cl"} = {}}

ConnectHeard(c) ==
    /\ SmlcConnect(c)
    /\ \E msg \in PerformLocReq, failing \in ClWorks : N_CONNECT(c, Bsc, msg, failing)
ResetHeard ==
    /\ SmlcUnitdata("RESET")
    /\ \E failing \in ClWorks : N_UNITDATA(Bsc, "RESET", failing)

\* The program's timers are fair, as in FairSpec, and it is running again and
\* again: systemd starts it, and the configuration file has an end.  Of the link
\* it is assumed that what is sent again and again arrives in the end, and not
\* during an outage of the program each time, and of the BSC that it repeats its
\* RESET and does not always miss the program with it, notices a release, lets
\* SCCP release what it has forgotten, and goes on asking and giving up on
\* connections other than Patient.  The conditions under which the steps can be
\* taken are written out; the formula []<>~P stands for the fairness of a step
\* that is possible while P holds and ends P.
ConnFairness(c) ==
    /\ []<>~T12CanExpire(c) \/ []<><<SmlcT12(c)>>_linkVars
    /\ []<>~(Running /\ Forgotten(c)) \/ []<><<SmlcDisconnect(c)>>_linkVars
    /\ <>[]~(Running /\ Arriving(c)) \/ []<><<ConnectHeard(c)>>_linkVars
    /\ []<>~Released(c)

AskFairness(c) ==
    /\ []<>~(bsc = "ready" /\ Free(c)) \/ []<><<BscOpens(c)>>_linkVars
    /\ []<>(held[c] = "none")

ResetFairness ==
    /\ <>[]~(Running /\ bsc = "resetting") \/ []<><<ResetHeard>>_linkVars
    /\ <>[](to_bsc = {}) \/ []<><<BscRxReset \/ BscRxResetAck>>_linkVars
    /\ WF_linkVars(SmlcT13 \/ (T13Runs(Bsc) /\ \E c \in BscConns : SmlcConnect(c)))
    /\ []<>Running

LinkFairness ==
    /\ \A c \in BscConns : ConnFairness(c)
    /\ \A c \in BscConns \ {Patient} : AskFairness(c)
    /\ ResetFairness

LinkFairSpec == LinkSpec /\ LinkFairness

----------------------------------------------------------------------------
(* Safety.                                                                 *)

\* While the program serves the BSC, every connection on which the BSC waits is
\* one with a pending request, unless the two have been overtaken: what the
\* program drops without releasing it, and what it has left open before the
\* RESET, the BSC has been told to forget (lb_peer.c:101-168, 205-260).
BothKnowTheConns ==
    g_smlc.fault = {} /\ g_smlc.lb_peers[Bsc] = "READY" =>
        \A c \in BscConns : Listening(c) => Pending(c)

\* The request that will be answered on a connection of the BSC is about the
\* subscriber that it has asked for on this connection, and not on an earlier one
\* with the same id whose request is still there (lb_peer.c:453).
ServedAsAsked ==
    \A c \in BscConns :
        held[c] # "none" /\ Pending(c) /\ g_smlc.sccp[c] # NULL
          => g_smlc.conn[c].smlc_subscr = asked[c]

----------------------------------------------------------------------------
(* Liveness.                                                               *)

\* The BSC does not wait forever on a connection, whatever is lost and however
\* often either end is started again: the connection is answered, released or
\* forgotten, or it has been overtaken (T-12, T-13, lb_peer.c:205-260).
WaitingEnds ==
    held[Patient] \in {"open", "half_open"} ~> held[Patient] \notin {"open", "half_open"}

\* A BSC that starts gets through its RESET procedure in every state of the
\* program's own (lb_peer.c:101-135).
ResetIsAnswered == bsc = "resetting" ~> bsc = "ready"

\* What the RESET procedure of the program needs of the link and of the BSC: a
\* RESET, and then its acknowledgement, that is sent again and again arrives in
\* the end while T-13 still runs.
InTime ==
    /\ <>[]~(T13Runs(Bsc) /\ "RESET" \in to_bsc)
         \/ []<><<T13Runs(Bsc) /\ BscRxReset>>_linkVars
    /\ <>[]~(T13Runs(Bsc) /\ "RESET_ACK" \in to_smlc)
         \/ []<><<T13Runs(Bsc) /\ SmlcUnitdata("RESET_ACK")>>_linkVars

\* Once neither end is started again, the program comes to serve the BSC and
\* serves it from then on, whatever RESETs are still on their way and whichever
\* end has sent the last one: the two do not reset each other for ever
\* (lb_peer.c:101-260).
LinkComesUp ==
    InTime /\ <>[][~BscStart /\ ~SmlcRestart]_linkVars
      => <>[](bsc = "ready" /\ g_smlc.fault = {} /\ g_smlc.lb_peers[Bsc] = "READY")
============================================================================
