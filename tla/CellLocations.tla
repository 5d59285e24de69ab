--------------------------- MODULE CellLocations ---------------------------
(***************************************************************************)
(* The cell location database of OsmoSMLC (src/osmo-smlc/cell_locations.c): *)
(* the list g_smlc->cell_locations, the four VTY commands of the `cells'    *)
(* node that change it, the lookup that positioning uses, and the round     *)
(* trip of the list through the configuration file, which vty commands      *)
(* write and the next start of the program reads back line by line.         *)
(*                                                                         *)
(* A cell identity is a record of the parts that its CELL_IDENT type        *)
(* carries, NoPart standing for a part that the type does not carry.        *)
(***************************************************************************)
EXTENDS Integers, Sequences, SequencesExt

CONSTANTS
    Plmns,      \* MCC and MNC pairs (with the MNC's number of digits)
    Lacs,       \* location area codes
    Cis,        \* cell identities within a location area
    Positions,  \* pairs of a latitude and a longitude within their range
    NoPart      \* "this identity type has no such part", and "no position"

ASSUME NoPartAssumption ==
    /\ NoPart \notin Plmns
    /\ NoPart \notin Lacs
    /\ NoPart \notin Cis
    /\ NoPart \notin Positions

VARIABLES
    cell_locations, \* the list, in the order of `show cells'
    startup,        \* the entries of the configuration file's `cells' node
    line            \* 0 when the main loop runs, else the next line to read

cellVars == <<cell_locations, startup, line>>

----------------------------------------------------------------------------
(* Identities.                                                             *)

\* struct gsm0808_cell_id, restricted to the types that have a LAC or a CI.
CellId == [plmn : Plmns \cup {NoPart}, lac : Lacs \cup {NoPart}, ci : Cis \cup {NoPart}]

\* vty_parse_lac_ci(): CELL_IDENT_LAC_AND_CI.
LacCi == [plmn : {NoPart}, lac : Lacs, ci : Cis]

\* vty_parse_cgi(): CELL_IDENT_WHOLE_GLOBAL.
Cgi == [plmn : Plmns, lac : Lacs, ci : Cis]

\* The two types that the VTY can configure.
ConfigId == LacCi \cup Cgi

\* The types by which a request can name its cell: a PLMN comes with a LAC.
RequestId == {cell_id \in CellId : cell_id.plmn # NoPart => cell_id.lac # NoPart}

\* struct cell_location.
CellLocation == [cell_id : ConfigId, lat_lon : Positions]

Agree(x, y) == x = NoPart \/ y = NoPart \/ x = y
Common(x, y) == x # NoPart /\ y # NoPart

\* gsm0808_cell_ids_match(): with exact, type and values are the same; without,
\* the parts that both identities carry are the same, and there is such a part.
gsm0808_cell_ids_match(id1, id2, exact) ==
    IF exact THEN id1 = id2
    ELSE /\ Agree(id1.plmn, id2.plmn) /\ Agree(id1.lac, id2.lac) /\ Agree(id1.ci, id2.ci)
         /\ \/ Common(id1.plmn, id2.plmn)
            \/ Common(id1.lac, id2.lac)
            \/ Common(id1.ci, id2.ci)

----------------------------------------------------------------------------
(* The list.                                                               *)

MatchingIn(list, cell_id, exact) ==
    {i \in DOMAIN list : gsm0808_cell_ids_match(list[i].cell_id, cell_id, exact)}

Identities(list) == {list[i].cell_id : i \in DOMAIN list}

First(indices) == CHOOSE i \in indices : \A j \in indices : i <= j

\* Faulty variant of cell_location_find(): without the second, inexact pass.
FindExactOnly(list, cell_id) ==
    LET exact == MatchingIn(list, cell_id, TRUE)
    IN  IF exact # {} THEN First(exact) ELSE 0

\* Faulty variant: the loops do not stop at the first match.
FindLast(list, cell_id) ==
    LET loose == MatchingIn(list, cell_id, FALSE)
    IN  IF loose = {} THEN 0 ELSE CHOOSE i \in loose : \A j \in loose : j <= i

\* cell_location_find(): the first entry that matches exactly, or else the
\* first that matches in the parts both have; 0 for NULL.
cell_location_find(list, cell_id) ==
    LET exact == MatchingIn(list, cell_id, TRUE)
        loose == MatchingIn(list, cell_id, FALSE)
    IN  IF exact # {} THEN First(exact)
        ELSE IF loose # {} THEN First(loose) ELSE 0

\* cell_location_from_ta(): the centre of the estimate, NoPart for -ENOENT
\* (its radius is a function of the timing advance alone).
cell_location_from_ta(list, cell_id) ==
    LET i == cell_location_find(list, cell_id)
    IN  IF i = 0 THEN NoPart ELSE list[i].lat_lon

\* Faulty variants of cell_location_set(): llist_add() for llist_add_tail(), and
\* a position that is only stored in a new entry.
SetPrepends(list, cell_id, lat_lon) ==
    LET i == cell_location_find(list, cell_id)
    IN  IF i = 0 THEN <<[cell_id |-> cell_id, lat_lon |-> lat_lon]>> \o list
        ELSE [list EXCEPT ![i].lat_lon = lat_lon]

SetOnlyCreates(list, cell_id, lat_lon) ==
    IF cell_location_find(list, cell_id) = 0
    THEN Append(list, [cell_id |-> cell_id, lat_lon |-> lat_lon])
    ELSE list

\* cell_location_set() with cell_location_find_or_create(): overwrites the
\* position of the entry that is found, whatever its identity, or appends one.
cell_location_set(list, cell_id, lat_lon) ==
    LET i == cell_location_find(list, cell_id)
    IN  IF i = 0 THEN Append(list, [cell_id |-> cell_id, lat_lon |-> lat_lon])
        ELSE [list EXCEPT ![i].lat_lon = lat_lon]

\* Faulty variant of cell_location_remove(): spares an entry of the other type.
RemoveExactOnly(list, cell_id) ==
    LET i == FindExactOnly(list, cell_id)
    IN  IF i = 0 THEN list ELSE RemoveAt(list, i)

\* cell_location_remove(): removes the entry that is found; -ENOENT changes nothing.
cell_location_remove(list, cell_id) ==
    LET i == cell_location_find(list, cell_id)
    IN  IF i = 0 THEN list ELSE RemoveAt(list, i)

----------------------------------------------------------------------------
(* The VTY.                                                                *)

\* cfg_cells_lac_ci and cfg_cells_cgi.  A latitude or longitude that does not
\* parse or is out of range (NoPart) ends in vty_parse_location()'s warning.
SetLocation(cell_id, lat_lon) ==
    /\ line = 0
    /\ cell_locations' = IF lat_lon = NoPart THEN cell_locations
                         ELSE cell_location_set(cell_locations, cell_id, lat_lon)
    /\ UNCHANGED <<startup, line>>

cfg_cells_lac_ci == \E cell_id \in LacCi, lat_lon \in Positions \cup {NoPart} : SetLocation(cell_id, lat_lon)
cfg_cells_cgi == \E cell_id \in Cgi, lat_lon \in Positions \cup {NoPart} : SetLocation(cell_id, lat_lon)

\* cfg_cells_no_lac_ci and cfg_cells_no_cgi.
RemoveLocation(cell_id) ==
    /\ line = 0
    /\ cell_locations' = cell_location_remove(cell_locations, cell_id)
    /\ UNCHANGED <<startup, line>>

cfg_cells_no_lac_ci == \E cell_id \in LacCi : RemoveLocation(cell_id)
cfg_cells_no_cgi == \E cell_id \in Cgi : RemoveLocation(cell_id)

\* config_write_cells(), for `write file': one line for each entry, in order,
\* with the identity's own type and all six decimals of the position.
config_write_cells ==
    /\ line = 0
    /\ startup' = cell_locations
    /\ UNCHANGED <<cell_locations, line>>

\* Faulty variant of Restart: the file is read into the list as it is.
RestartKeepsList ==
    /\ line' = 1
    /\ UNCHANGED <<cell_locations, startup>>

\* The process ends and is started again: smlc_state_alloc() empties the list,
\* then main() reads the configuration file.
Restart ==
    /\ cell_locations' = <<>>
    /\ line' = 1
    /\ UNCHANGED startup

\* One line of the file runs the VTY command it holds.
ReadLine ==
    /\ line \in 1..Len(startup)
    /\ cell_locations' = cell_location_set(cell_locations, startup[line].cell_id, startup[line].lat_lon)
    /\ line' = line + 1
    /\ UNCHANGED startup

\* Faulty variant of ReadEnd: the reader runs past the end of the file.
ReadPastEnd ==
    /\ line = Len(startup) + 1
    /\ line' = line + 1
    /\ UNCHANGED <<cell_locations, startup>>

\* The file ends and main() goes on to the main loop.
ReadEnd ==
    /\ line = Len(startup) + 1
    /\ line' = 0
    /\ UNCHANGED <<cell_locations, startup>>

Init ==
    /\ cell_locations = <<>>
    /\ startup = <<>>
    /\ line = 1

Vty ==
    \/ cfg_cells_lac_ci
    \/ cfg_cells_cgi
    \/ cfg_cells_no_lac_ci
    \/ cfg_cells_no_cgi
    \/ config_write_cells

ReadFile == ReadLine \/ ReadEnd

Next == Vty \/ ReadFile \/ Restart

Spec == Init /\ [][Next]_cellVars

----------------------------------------------------------------------------
(* Properties.                                                             *)

\* The list holds well-formed entries and the reader is at a line of the file.
TypeOK ==
    /\ cell_locations \in Seq(CellLocation)
    /\ startup \in Seq(CellLocation)
    /\ line \in 0..(Len(startup) + 1)

\* No two entries of the list match each other, not even in the parts that
\* both have: no sequence of commands can configure a cell twice, so that an
\* entry is never shadowed by another one (cell_locations.c:80).
NoTwoMatchIn(list) ==
    \A i, j \in DOMAIN list :
        i # j => ~gsm0808_cell_ids_match(list[i].cell_id, list[j].cell_id, FALSE)

NoTwoMatch == NoTwoMatchIn(cell_locations)

\* The entry that answers a request answers it for as long as it is in the list.
\* A request by LAC and CI, or by one of them alone, may match entries that do not
\* match each other: whatever is configured later, set or removed elsewhere never
\* takes it over, not even an entry that would match it exactly, so that of all
\* entries that match the one configured first answers (cell_locations.c:46-53, 85).
AnswerStays ==
    [][UNCHANGED cell_locations \/ \A cell_id \in RequestId :
         LET i == cell_location_find(cell_locations, cell_id)
             j == cell_location_find(cell_locations', cell_id)
         IN  i # 0 /\ cell_locations[i].cell_id \in Identities(cell_locations')
               => j # 0 /\ cell_locations'[j].cell_id = cell_locations[i].cell_id]_cellVars

\* While the file is read, the list is the part of the file read so far: no
\* line overwrites the position that an earlier line has set.
ReadBack == line # 0 => cell_locations = SubSeq(startup, 1, line - 1)

\* When the main loop starts, the list is the one `write file' has saved.
RestoredAtStart == [][line # 0 /\ line' = 0 => cell_locations' = startup]_cellVars

\* Whatever the list is like when a position is set for an identity, the next
\* lookup of that identity finds it, whichever entry was overwritten
\* (cell_locations.c:80).
SetIsFound ==
    \A cell_id \in ConfigId, lat_lon \in Positions :
        cell_location_from_ta(cell_location_set(cell_locations, cell_id, lat_lon), cell_id) = lat_lon

\* A CGI that is removed has no position any more: no other entry takes over for
\* it (cell_locations.c:101).  It holds because entries never match each other.
RemovedIsGone ==
    \A cell_id \in Cgi :
        cell_location_from_ta(cell_location_remove(cell_locations, cell_id), cell_id) = NoPart
============================================================================
