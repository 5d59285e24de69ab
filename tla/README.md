# OsmoSMLC in TLA+

OsmoSMLC is a Serving Mobile Location Centre: a BSC asks it over the Lb
interface (BSSMAP-LE on SCCP) where a subscriber is, and it answers from the
serving cell, whose position the operator has configured, and from the timing
advance that it gets from the BSC. This directory models the program under
`src/src/osmo-smlc/`, checks it with TLC and proves what the runs check, for
instances of every size, with TLAPS. Paths below are relative to the repository.

## 1. The system

The program is one thread around a select loop: SCCP primitives, timers and VTY
lines are handled one at a time, each handler to its end. What makes it hard is
not data races but the order of events from independent BSCs, subscribers and
operators, and the depth of a handler: one message can pass through
`sccp_lb_inst.c`, `lb_peer.c`, `lb_conn.c`, `smlc_loc_req.c` and
`smlc_subscr.c`, allocate, count and free objects in each of them, and re-enter
a file that it came from.

| Component | State it keeps | Operations | Talks to |
|---|---|---|---|
| Cell location database, `cell_locations.c` | list `g_smlc->cell_locations`, and what `write file` has saved | `lac-ci`, `cgi`, `no lac-ci`, `no cgi`, lookup, write, read at start | VTY; read by the location request |
| Location request, `smlc_loc_req.c` | per connection: FSM state, latest cell, timing advance, T-12 | start, TA Response, BSSLAP Reset (handover within the BSC), Abort, Reject, Perform Location Abort, timeout | creates and ends use counts of connection and subscriber; sends through the connection |
| Lb connection, `lb_conn.c` | list of `lb_conn`: peer, SCCP id, subscriber, request, use counts by token | allocate, get, put, close, discard, find by subscriber, send | peer FSM (down), request FSM, subscriber |
| Lb peer, `lb_peer.c` | list of `lb_peer`: address, FSM state, T-13 | RESET in both directions, dispatch of connection-oriented and connectionless messages, discard of all connections | SCCP user, connections |
| SCCP user, `sccp_lb_inst.c` | the next connection id; the SCCP provider keeps the connections | `sccp_lb_sap_up()`: N-CONNECT, N-DATA, N-DISCONNECT, N-UNITDATA; disconnect; send; choice of an id | SCCP provider, peers |
| Subscriber list, `smlc_subscr.c` | list of `smlc_subscr` with use counts by token | find or create, get, put | connection, request |
| Process, `smlc_main.c`, `smlc_data.c` | `g_smlc` | start, configuration file, restart by systemd | all |
| Control interface, `smlc_ctrl.c` | none | lookup that finds nothing | - |
| The BSC on the other side | its connections and its RESET procedure | external | SCCP provider |
| SCCP, M3UA, codecs, FSM and use count libraries | - | external (libosmo-sigtran, libosmocore, libosmogsm) | - |

What makes each of them correct:

- *Cells*: no cell is configured twice, a lookup has one answer, the answer to a
  set or a removal is visible at once, and a restart restores what was written.
- *Requests*: every request ends, in one response at most; the response names
  the position of the cell that was reported last; an encoding or sending
  failure does not leave a request without a timer.
- *Connections and subscribers*: objects live exactly as long as somebody uses
  them; no use count is lost or returned twice, on any path.
- *Peers*: connections are served after a RESET only, a peer that leaves READY
  has no connections, and a lost RESET ACKNOWLEDGE is not waited on for ever.
- *SCCP*: a connection is left open without an object only if the BSC is told
  to forget it, and an id that is used again does not mix two BSCs up.
- *Both ends*: a BSC does not wait for ever on a connection that the program
  does not know, whichever end is restarted and whatever unitdata is lost.

The list of `hazards` in `PROJECT.json` names the line at which each of these
may go wrong and the property that would show it.

## 2. The modules

```
CellLocations     SmlcData        objects, heap, messages   INSTANCEs CellLocations
      |             SmlcSubscr    smlc_subscr.c
      |             LbConn        lb_conn.c
      |             SmlcLocReq    smlc_loc_req.c
      |             LbPeer        lb_peer.c, sending in sccp_lb_inst.c
      |             OsmoSmlc      sccp_lb_sap_up(), timers, VTY, restart   INSTANCEs LcsService
      |             LbLink        OsmoSmlc, a BSC and the link between them
LcsService        the service that OsmoSmlc implements
SccpConnId        sccp_lb_inst_next_conn_id()

MCCellLocations, MCOsmoSmlc, MCLbLink, MCSccpConnId      small instances
CellLocationsProofs, SccpConnIdProofs                    proofs LbConnProofs,
SmlcLocReqProofs, LbPeerProofs, OsmoSmlcProofs, LcsServiceProofs, LbLinkProofs
```

Each module of the second column EXTENDS the one above it, as do the proof
modules of the last line.

**CellLocations** is a specification of its own: `cell_locations` is the list in
the order of `show cells`, `startup` the `cells` node of the saved configuration
file, `line` the line that is read next (0: the main loop runs). There is one
action for each VTY command, one for `write file`, one for a restart and one for
each line and the end of the file, since reading a line *is* running the command
that it holds. An identity is a record of the parts that its type carries.

**SmlcData to LbPeer** describe handlers. A handler is one step of the program
but calls through five files, so each C function that changes objects is an
operator from a heap to a heap, in the module that is named for its file; it has
the guards and early returns of the function and calls what the function calls,
in its order. The heap `g_smlc` is a record:

| Field | In the code |
|---|---|
| `lb_peers[p]` | state of the `lb_peer` FSM of a BSC, NULL if none is allocated |
| `conn[c]` | `struct lb_conn` with this SCCP connection id, with its request |
| `ahead` | the list `lb_conns`: which connection precedes which. New ones are put at the head, which decides what a lookup by subscriber finds |
| `subscr[s]` | `struct smlc_subscr` |
| `sccp[c]` | connections open in the SCCP provider, which hands out the ids |
| `sent[c]`, `unitdata` | what went out: on the connection since its N-CONNECT, and in the last handler |
| `fault` | steps that C does not survive: use of freed memory, a use count below zero, a NULL request, a message freed twice |

A fault ends the process in the model; `Restart` starts it again with nothing
allocated. Use counts are kept by token as in `osmo_use_count`, and an object is
freed by the operator that stands for its use count callback.

**OsmoSmlc** applies one handler per action: `N_CONNECT`, `N_CONNECT_Empty`
(without user data, which changes nothing, `sccp_lb_inst.c:106`), `N_DATA`,
`N_DISCONNECT` (with and without user data, also for a connection that was never
accepted), `N_UNITDATA`, `TimeoutT12`, `TimeoutT13`, `Vty`, `Restart`. Every
action chooses what fails in it from `Outages`: composing the estimate, encoding
a message of each kind, handing it to SCCP. Messages arrive in any order on any
connection; nothing is assumed of the BSC except that SCCP delivers data on open
connections only. `Vty` and `Restart` are those of CellLocations, so requests
run against a list that the operator changes between any two of their messages.

**LcsService** is what a BSC may rely on, without FSMs, use counts, lists and
timers. Per connection it has the BSC to which it is open (`link`), the BSC for
which a request is worked on (`request`) and the last response (`answer`); and
it has the positions that are configured (`known`). A BSC's opening a connection
ends in `Accept`, `Ignore`, `Refuse` or `AnswerAtOnce`; a request ends by
`Answer` or `Withdraw`; `HangUp`, `Reset`, `Restart` and `Configure` are the rest.
The refinement mapping is `Service` in OsmoSmlc: `link` is the open connections
of the SCCP provider, `request` the peer of an allocated object that has a
request, `answer` the last of `sent[c]` if it is a response, and `known` the
positions in the cell list. What the module forbids is any effect of a handler on
a connection that it is not about (a RESET ends the requests of its own BSC
only), an answer to a BSC that has not asked or has hung up, a second answer, and
a position that is not configured at that moment.

**LbLink** puts a BSC on the other side and what is on its way in between. It
has the connections `BscConns`; all other BSCs are `OtherBscs`, who may send
anything at any time on the other connections. That the ids are divided between
the BSCs once and for all is a simplification: an id that moves from one BSC to
another is left to OsmoSmlc. The BSC is not in the repository; it is modelled by
what `lb_peer.c` relies on and does itself: it repeats RESET until it is
acknowledged, and on a RESET it forgets its connections and acknowledges. It may
start again at any time, give up on a connection, and use an id again for
another subscriber while the program still has an object under that id. RESET
and RESET ACKNOWLEDGE may be lost and may overtake connection-oriented messages,
and one of each kind at most is on its way in each direction; since they carry
no number, a second one could not be told from the first. `connecting` is the
connections whose N-CONNECT is on its way. Two states of a connection of the BSC
record its history: "half_open", if the program was restarted while it was open,
and "overtaken", if the program has taken a late RESET or RESET ACKNOWLEDGE for
the BSC's word that it has no connections. The second is a limit of the protocol
that no end can detect, and the properties leave it out by name.

**SccpConnId** is the choice of an id for a connection that the program opens
itself, with the number of ids as a parameter. Nothing calls
`lb_conn_create_outgoing()` yet, so it stands alone and OsmoSmlc does not use it.

Two simplifications are justified by a property or a remark. The loop of
`lb_peer_discard_all_conns()` is one step over the set of the peer's
connections; `DiscardAllIsTheLoop`, which is checked and proved, says that the
loop over `lb_conn_discard()` gives the same heap, for states that the program
reaches. A peer is identified with its address: `lb_peer_find_or_create()` never
makes two for one address, and a peer is never freed.

Definitions that are introduced with "Faulty variant" are not part of the model:
each is a plausible error in the function below it and shows, put in the place
of that function, that a property can fail.

## 3. What is checked

| Run | Instance | Properties | States |
|---|---|---|---|
| `cells` | 2 PLMNs, 1 LAC, 2 CIs, 2 positions | `TypeOK NoTwoMatch AnswerStays ReadBack RestoredAtStart SetIsFound RemovedIsGone` | 75 138 |
| `requests` | 1 BSC, 2 connections, 2 subscribers, 2 cells, 1 position; answering fails in each way | `TypeOK HeldByRequest NoUseCountFault AnsweredOnce EndsInAnswer LocationFollowsHandover` | 15 312 |
| `peers` | 2 BSCs, 2 connections, 2 subscribers, 1 cell; the RESET procedure fails in each way | `OnlyReadyPeersHaveConns SamePeerOnBothSides SubscrUseIsExact DiscardAllIsTheLoop OrphansAreReset OneBscAtATime ImplementsService` | 11 483 |
| `liveness` | 1 BSC, 2 connections, 1 subscriber, no symmetry | `RequestsEnd ResetGivesUp` | 4 103 |
| `link` | the BSC and another one, 1 connection each, 2 subscribers, 1 cell; the link and both ends fail, and so does composing RESET and RESET ACKNOWLEDGE and sending anything | `LinkTypeOK BothKnowTheConns ServedAsAsked` | 172 666 |
| `link_liveness` | the BSC alone, 2 connections, 1 subscriber, no symmetry; sending RESET and RESET ACKNOWLEDGE fails | `BothKnowTheConns WaitingEnds ResetIsAnswered LinkComesUp` | 54 506 |
| `conn_ids` | 8 ids | `TypeOK IdIsNew GivesUpLate NotTwiceInARow` | 4 096 |

State counts are those after symmetry reduction, where it is used. Deadlock is
checked in every run: the program can always be restarted.

*Why the bounds are enough.* No counter of the model needs a cap: a connection
sends two messages at most, a use count is bounded by the connections, and the
cell list by the identities, since no two entries match each other. In `cells`
the two PLMNs and two CIs give six identities, of which each LAC-CI matches two
CGIs, which is where the exact and the inexact pass of the lookup differ. In
`requests` two connections are enough for one subscriber on two connections, two
subscribers, an id used again and a lookup that finds another connection; one
position suffices because a wrong lookup also shows as a location for a cell
that is not in the list. `peers` needs the second BSC for an id that moves from
one BSC to another; a third connection with two BSCs makes the state space too
large to explore in minutes and adds no new relation, as every property is about
one connection or a pair. `link` has a connection of the BSC and one of another
BSC, about the same two subscribers; every message of the RESET procedure can be
lost at any point, and both ends can start again any number of times.
`link_liveness` has a second connection of the BSC instead, which is the one it
goes on asking on, and so checks `BothKnowTheConns` for two connections of one
BSC. Neither has positions, which keeps them small: a response that names none
ends the connection all the same. `link_liveness` has one subscriber, since no
liveness property tells subscribers apart, and one outage, the one that can end
the process; the theorems about LbLink hold for every `Outages`, every number of
connections and every number of other BSCs, which the liveness run leaves out.
In `conn_ids` eight ids are enough to exhaust them and to turn past the end of
the id space in every set of ids in use. CGIs are left to `cells` (`Plmns` is
empty in the other runs), where the lookup is checked with all types. The runs
with TLC cover small instances only; the theorems of section 5 are for all.

*Symmetry.* The program compares addresses, ids, subscribers, cells and positions
for equality only; the order of the list of connections is in the heap and not
in the ids. The permuted sets are therefore interchangeable. `link` permutes the
subscribers only. The liveness runs use no symmetry.

*Properties of note.* `AnswerStays` is about requests that match several
entries: one by LAC matches all cells of the area, one by LAC and CI the cells
of several PLMNs. The answer then depends on the order of the list, and the
property says how: the entry that answers keeps answering until it is removed,
since entries are added at the tail and an inexact match is overwritten and not
joined by an exact one. What `no lac-ci` leaves behind is not covered for such a
request: it removes the entry that answers, and the next CGI that matches takes
over. `HeldByRequest` says that between handlers a connection object is held by
the one use count of its pending request: a token that is leaked on any of the
paths through `lb_peer_st_ready()` and `smlc_loc_req_start()` would leave an
object that no timer ends. `EndsInAnswer` looks one handler ahead: whatever
event comes next, on the same connection or another, a pending request stays
pending or its connection is released, after a response unless the failure
response fails too; only the BSC itself ends it otherwise. So a BSC whose
response SCCP has not sent, which the program does not notice (`lb_peer.c:313`),
learns at least that it has nothing to wait for. `OrphansAreReset` says when an
SCCP connection may stay open without an object. `ImplementsService` is the
refinement described in section 2. `OneBscAtATime` adds to it what the BSCs do
not see: the connections and subscribers of all BSCs share their lists, and a
lookup in them that finds the wrong connection, as it does in the variant
`AllocAtTail`, lets one BSC end the request of another. `BothKnowTheConns`
relates the two ends: whatever a READY program has dropped or left open, its
RESETs account for. The connections that a late RESET or an old RESET
ACKNOWLEDGE cuts off are excluded (`overtaken`): the messages carry no number,
so that neither end can tell, and the BSC has only its own timer.
`ServedAsAsked` is about an id that is used again: the request that is answered
is the BSC's own and not its predecessor's. `WaitingEnds` puts all timers and
the RESET procedure of both ends together. `LinkComesUp` says that the RESET
procedure converges: each end changes its own state on a RESET and may send one
at any moment, without a number that tells an old one from a new, and still the
two come to rest with the program serving the BSC. `NotTwiceInARow` is what the
round that the loop of `sccp_lb_inst_next_conn_id()` lacks is good for, and
`GivesUpLate` what it costs. `LocationFollowsHandover` relates a response to the
cell list at that moment and to the cell that the BSC has reported, not to the
one in the request.

*Fairness.* `FairSpec` adds weak fairness for each T-12, for each T-13 and for
the restart of a failed process. It is written as what `WF` abbreviates, a step
is taken again and again unless it is impossible again and again, and the
condition under which the step is possible is written out: `T12CanExpire`, which
is that T-12 runs and that its end changes something; `T13Runs`; a fault. A
restart ends the fault, so that its fairness is `[]<>(g_smlc.fault = {})`. T-12
is started once, on entering WAIT_TA (`smlc_loc_req.c:167`), and further
messages in WAIT_TA do not restart it; its time cannot be made infinite by
configuration, as the timer groups are not on the VTY. T-13 is restarted by
`lb_peer_reset()` (`lb_peer.c:152`), and only a connection that is opened gets
there, so it is assumed that T-13 expires or that such connections come for ever
(`CoFrom`), and `ResetGivesUp` is about a peer that stays quiet on connections.
`contrib/systemd/osmo-smlc.service:6` restarts the process always. No fairness
is assumed of the BSC, of SCCP, or of the operator.

`LinkFairSpec` needs more, since `WaitingEnds` and `ResetIsAnswered` are
promises of two ends. The timers are fair as above, and the program is running
again and again: systemd starts it, and the configuration file has an end. Of
the link it is assumed that a message which is sent again and again arrives in
the end, and not each time in an outage in which the program cannot answer
(`ConnectHeard`, `ResetHeard`), and that SCCP delivers an N-CONNECT and, once
the BSC has forgotten a connection, an N-DISCONNECT. Of the BSC it is assumed
that it repeats its RESET, notices that a connection is released, and goes on
asking and giving up on connections other than the one on which it waits. That
it goes on asking is needed for a BSC whose connection a restart has cut off:
the program that comes up again sends its RESET only when it hears something
(`lb_peer.c:205-260`). `LinkComesUp` has two hypotheses of its own. One is that
neither end is started again from some point on, which rules out the outage that
ends the process, too. The other is `InTime`: a RESET of the program that is
repeated, and the acknowledgement of it, arrive in the end while T-13 runs. The
code has nothing to offer without it, since an acknowledgement that comes after
T-13 is in no event mask (`lb_peer.c:366-371`). TLC finds `LinkComesUp` violated
when any one of these conditions is dropped. `ConnFairness` and `AskFairness` say this of one
connection, `ResetFairness` of the RESET procedure and the process. Again the
conditions are written out. That saves TLC running each handler once more in
every state, and it lets the liveness be proved, for which `WF` and `SF` would
need `ENABLED`.

## 4. Where the code and its comments disagree

Each is a run of its own that TLC finds violated:

- `OneConnPerSubscr`: `smlc_loc_req.c:137-138` means to discard the older
  connection of a subscriber, but line 128 looks for it with a field that is
  still NULL, and finds the new connection. (Line 128 is not enough to repair it:
  with the lookup corrected, line 139 closes the other connection and line 143
  returns a use count to it when it is freed. The variant `AllocAtTail` shows
  that situation as a violation of `NoUseCountFault`.)
- `EarlyConnIsDisconnected`: `lb_peer.c:211-212` says that a connection of a peer
  before its RESET is disconnected; line 217 disconnects only an existing object.
- `DisconnectDropsConn`: `sccp_lb_inst.c:145` says that the `lb_conn` is dropped
  on N-DISCONNECT; it lives until T-12 ends its request.
- `MessagesAreFreedOnce`: `lb_peer.c:123` frees the received message instead of
  the response, against the comment at line 129.
- `RequestlessIsSurvived`: `smlc_loc_req.c:69-70` provides for a connection
  without a request, and line 71 dereferences it.

Without a run: `doc/manuals/chapters/cells.adoc:7` offers LAC-CI and CGI as two
kinds of entries, but setting a CGI overwrites a LAC-CI entry that it matches
instead of adding one (`cell_locations.c:80`).

## 5. What is proved

All theorems hold for every choice of the constants under these assumptions.
`NoPartAssumption` (CellLocations) says that `NoPart` is not a PLMN, LAC, CI or
position. `DataAssumption` (SmlcData) says that `NULL` is none of the objects
that it stands in for, that the connection ids are finitely many, that requests
name well-formed cells and that outages are sets of the known failures, among
them the empty one, where nothing fails. `LinkAssumption` (LbLink) says that
`Bsc` is one of the peers, that its connections are some of the connection ids
and `Patient` one of them, and that there is a subscriber and a cell to ask for.
`IdSpaceAssumption` (SccpConnId) says that there are two ids at least. Peers,
subscribers, cells and positions may be infinite sets, and `Outages` may hold
any further ones, also those in which everything fails at once, which no run
covers.

**CellLocationsProofs.** The inductive invariant is `TypeOK`, `NoTwoMatch`, the
same for the saved file, and `ReadBack`. `NoTwoMatch` alone is not inductive: a
restart reads the file, and a file with two matching entries would have its
second line overwrite the first. The proof rests on what the lookup returns
(`FindCorrect`), on `cell_location_set()` and `cell_location_remove()` keeping
entries distinct, and on set being append for an entry of the file. All seven
properties of the run are theorems: `TypeCorrect`, `EntriesAreDistinct`,
`ReadBackCorrect`, `AnswersStay`, `Restored`, `SetIsSeen`, `RemovedIsUnknown`.
`AnswersStay` compares the lookup in two lists. An entry that is appended comes
behind all that match (`FirstOfMore`), and cannot match exactly what an entry
matches already, since it would have overwritten that one; and taking an entry
out moves the indices behind it but not their order (`FirstOfRest`).

**OsmoSmlcProofs.** `DatabaseRefinement` shows that the whole process implements
the specification of the database, so the theorems above carry over to the list
that requests are answered from; `CellsTyped` uses this.

`HeapInOrder` is the main result: between two handlers `HeapOK(g_smlc)` or
`Failed(g_smlc)` holds. `Failed` leaves two faults only, the NULL request and the
double free, which section 4 shows to be reachable. `HeapOK` has three parts that
need each other, which is why none of the properties is inductive alone:

- `Core`: the heap is well typed and without fault, the use count of every
  subscriber is the number of the connections for it, the list holds allocated
  connections, and every connection is for a READY peer and for the same peer as
  the SCCP connection with its id;
- `Quiet`: every connection is held by its request alone, in WAIT_TA;
- `SentOK`: nothing but a TA Request has been sent on the connection, or a
  response has ended it and object and SCCP connection are gone.

`Quiet` is false within a handler, so the argument goes up through the files like
the calls do. `LbConnProofs` shows that each operation on a connection or a
subscriber keeps `Core` and touches no other connection. `SmlcLocReqProofs`
describes a handler of the request by what it leaves: the request waits
(`Waiting`) or has ended, with one response (`Answering`) or, if the failure
response fails too or the BSC has aborted, without (`Silent`), and the connection
then still has the handler's own use or is gone (`Ending`). `LbPeerProofs` closes
the handler: what the peer FSM does before, between and after restores `HeapOK`,
or ends in `Failed`.
`OsmoSmlcProofs` has one lemma per action. From the invariant follow
`TypeCorrect`, `ConnsAreHeld`, `ConnsAreServed`, `PeersAgree`, `SubscrUseExact`,
`NoUseFault` and `ResponseEndsConn`, the properties of the runs `requests` and
`peers` that are about a single state.

`DiscardIsTheLoop` rests on `LoopIsDiscardAll` in LbPeerProofs: on every heap in
order the loop of `lb_peer_discard_all_conns()`, a fold over the connections of
the peer, gives the heap that the single step describes. It is proved of
the rounds for any part of the connections (`Without`): after each of them a
connection is gone, and its subscriber with it if no other has it (`DiscardOne`,
`WithoutTwice`). The induction is over these parts, ordered by inclusion: were
there one for which the loop did anything else, there would be a smallest one,
and it follows from the one that lacks its last connection. Of the order of the
rounds nothing is used.

`EveryRequestEnds` and `EveryResetEnds` are liveness. A T-12 that runs and expires
leaves no object for its connection (`T12Ends`), a pending request is in WAIT_TA
in every state in order (`PendingRunsT12`), so T-12 can expire until the request
is gone; and a process that has failed does nothing until it starts again with
nothing allocated. The temporal step is left to the decision procedure for
propositional temporal logic.

**LcsServiceProofs.** For what relates two states, the invariant says too little.
`HandlerEffect` therefore says that every handler has one of five effects on the
connections: nothing happens to any (`Stays`), a BSC opens one (`Opens`), the
request of one ends (`Ends`), one is closed by its BSC (`HangsUp`), or all of one
BSC are dropped (`Discarded`). The theorems are read off from these:
`ServiceRefinement` (every effect is a step of LcsService, or a stutter),
`OrphansReset`, `RequestsAnswered` (`EndsInAnswer`, where each event is followed
down to the response) and `HandoverFollowed` (with what the database returns).

`BscsAreApart` is `OneBscAtATime` for any number of BSCs. What a handler may do to
the peers follows from the operators alone: every step of the RESET procedure of a
peer leaves the other peers as they are and tells them nothing (`OnlyPeer`, which
is put together step by step by `OnlyPeerTwice`). What it may do to connections
follows from its effect and from the invariant: the object and the SCCP
connection with one id belong to the same peer, so that whatever handles the
connection is about that peer (`Within`).

**LbLinkProofs.** Every step of the linked system is a step of the process or
leaves it alone (`LinkedProcess`), so that the invariant of the process and its
effects are at hand. `BothKnowTheConns` and `ServedAsAsked` are then inductive
together with `LinkTypeOK` and with what `BscOK` says of the BSC: while it
resets it has no connections, a connection is not cut off before its N-CONNECT
has arrived, and a peer with a half open connection is not READY. Without the
last, a program that comes up again and turns READY by an old acknowledgement
would serve a BSC that waits on what the program has lost. The safety theorems
are `LinkTyped`, `BothKnow` and `Served`.

Of the other BSCs the argument uses one lemma: whatever they do, the connections
of this one, its RESET procedure and what is on its way to it stay as they are
(`OthersStep`). It needs one more invariant, that what the program has under the
ids of the BSC is the BSC's (`OwnIds`): without it a RESET of another BSC could
drop them. With it all theorems about the link, the liveness included, hold next
to any number of other BSCs, whose timers and requests need no fairness at all.

`ResetsEnd` and `NoEndlessWait` are the liveness of both ends. A BSC that resets
repeats its RESET; the program that receives it has an acknowledgement under way
when the handler ends, whatever state it was in (`ResetAcked`); and what is sent
again and again arrives. `NoEndlessWait` follows a BSC that waits for ever into
a contradiction, in three steps. If its connection stays open, its N-CONNECT
arrives, a request that is pending on it ends by T-12 with a release, and the
release is noticed; so from some point on the connection is one that the program
does not serve (`ComesToBeCutOff`, with `SccpStep`, `HeldStep` and
`ConnectingStep` for what may happen to it on the way). Then the BSC is READY
for ever and asks on another connection again and again (`GoesOnAsking`), and
the program, whose peer is not READY as `BothKnowTheConns` says, refuses it and
sends a RESET, unless an outage keeps it from that (`RefusalSends`). In that
state no RESET ACKNOWLEDGE is sent, so that what is under way comes to be a
RESET (`CutOffStep`), it arrives, and the BSC forgets the connection on which it
waits. `NoEndlessWait` has a hypothesis, which the run meets: the BSC has a
connection besides `Patient`, without which the program hears nothing of the BSC
and says nothing.

`LinkUp` is `LinkComesUp`, under the same hypothesis. When neither end is
started again, the BSC gets through its own RESET (`ResetsEnd`) and no step but
a start makes it send another. From then on at most one RESET is still under
way, and a peer that is READY stays READY unless that RESET arrives
(`SteadyStep`); so the peer is READY for ever or not READY for ever. In the
latter case the BSC goes on asking on another connection (`GoesOnAsking`), each
such connection is refused with a RESET of the program that starts T-13, one of
these RESETs arrives in time and makes the BSC acknowledge it, and one of the
acknowledgements arrives in time and makes the peer READY (`ResetProcedure`,
from `RefusalSends` and `UnitdataStep`): a contradiction.

**SccpConnIdProofs.** `IdsTyped`, `IdsAreNew`, `IdsRunOutLate` and `IdsRest`, for
every size of the id space, from `TypeOK` and the fact that `next_id` comes right
after the id returned last, unless the last call has returned none.

*Model-checked only.* Every property of a run that passes is a theorem. What the
proofs take over from the definitions as they stand is the fairness: that the
conditions written out there are those under which the steps are enabled is read
off from the guards and not proved, since `ENABLED` is out of the prover's reach.
That the small instances take every action is something only TLC shows.

## 6. What is not modelled

- The radius of an estimate (`ta_to_m`, GAD uncertainty), texts of the VTY,
  logging and counters: nothing reads them back.
- `sccp_lb_down_l2_co_initial()`, `smlc_loc_req_reset()`, the state DISCARDING
  and the FSM events and cleanup of the peer that nothing dispatches: they have
  no caller in the program. `lb_conn_create_outgoing()` has none either and is
  modelled in SccpConnId only, for the id that it gets.
- The control interface, which has no commands.
- SCCP, M3UA and the codecs, which are libraries: ids are unique while open, data
  arrives on open connections only, and sending or encoding may fail.
- Deferred freeing of FSM instances (`smlc_main.c:238`): objects are freed at
  once in the model, so that it sees a use after free earlier than C would.

## 7. Plan

Done, in this order: CellLocations with its proofs; SmlcData to OsmoSmlc with
their runs; the heap invariant and what follows from it; the abstract service and
the refinement; the BSC on the other side; connection ids; the proofs about
all three; the discard loop and the liveness of both specifications; other BSCs
on the link, and that each handler deals with one BSC.

Left, should the code or the provers allow it:

1. *Ids that move between BSCs* on the link, which `peers` covers without it.
2. *Outgoing connections* in OsmoSmlc, when the program opens some.
