------------------------ MODULE CellLocationsProofs ------------------------
(***************************************************************************)
(* What holds of the cell location database for every set of identities    *)
(* and positions and for lists of every length.                            *)
(***************************************************************************)
EXTENDS CellLocations, SequenceTheorems, WellFoundedInduction, TLAPS

----------------------------------------------------------------------------
(* The lookup.                                                             *)

\* A non-empty set of list indices has a first element.
LEMMA FirstIsLeast ==
  ASSUME NEW indices \in SUBSET Nat, indices # {}
  PROVE  /\ First(indices) \in indices
         /\ \A j \in indices : First(indices) <= j
<1>1. PICK i \in indices : \A j \in indices : ~(<<j, i>> \in OpToRel(<, Nat))
  BY NatLessThanWellFounded, WFMin
<1>2. \A j \in indices : i <= j
  <2> TAKE j \in indices
  <2>1. i \in Nat /\ j \in Nat
    OBVIOUS
  <2>2. ~(j < i)
    BY <1>1, <2>1 DEF OpToRel
  <2> QED
    BY <2>1, <2>2
<1> QED
  BY <1>2 DEF First

\* Matching is symmetric, and an identity of a configurable type matches itself.
LEMMA MatchSymmetric ==
  ASSUME NEW a \in CellId, NEW b \in CellId,
         gsm0808_cell_ids_match(a, b, FALSE)
  PROVE  gsm0808_cell_ids_match(b, a, FALSE)
  BY DEF gsm0808_cell_ids_match, Agree, Common

\* An identity matches itself.
LEMMA MatchReflexive ==
  ASSUME NEW a \in ConfigId
  PROVE  gsm0808_cell_ids_match(a, a, FALSE)
  BY NoPartAssumption DEF gsm0808_cell_ids_match, Agree, Common, ConfigId, LacCi, Cgi

\* cell_location_find() returns the index of an entry that matches, or 0 when
\* no entry does, not even in the parts that both have.
LEMMA FindCorrect ==
  ASSUME NEW list \in Seq(CellLocation), NEW cell_id \in ConfigId
  PROVE  LET i == cell_location_find(list, cell_id)
         IN  \/ /\ i \in DOMAIN list
                /\ gsm0808_cell_ids_match(list[i].cell_id, cell_id, FALSE)
             \/ /\ i = 0
                /\ \A j \in DOMAIN list : ~gsm0808_cell_ids_match(list[j].cell_id, cell_id, FALSE)
<1> DEFINE exact == MatchingIn(list, cell_id, TRUE)
           loose == MatchingIn(list, cell_id, FALSE)
<1>1. /\ exact \in SUBSET Nat
      /\ loose \in SUBSET Nat
  <2>1. DOMAIN list \subseteq Nat
    BY LenProperties
  <2> QED
    BY <2>1 DEF MatchingIn
<1>2. exact \subseteq loose
  BY MatchReflexive DEF MatchingIn, gsm0808_cell_ids_match
<1>3. CASE exact # {}
  <2>1. First(exact) \in exact
    BY <1>1, <1>3, FirstIsLeast
  <2> QED
    BY <1>2, <1>3, <2>1 DEF cell_location_find, MatchingIn
<1>4. CASE exact = {} /\ loose # {}
  <2>1. First(loose) \in loose
    BY <1>1, <1>4, FirstIsLeast
  <2> QED
    BY <1>4, <2>1 DEF cell_location_find, MatchingIn
<1>5. CASE loose = {}
  BY <1>2, <1>5 DEF cell_location_find, MatchingIn
<1> QED
  BY <1>3, <1>4, <1>5

----------------------------------------------------------------------------
(* The three changes of the list.                                          *)

\* cell_location_set() keeps the list well formed and its entries distinct: it
\* leaves every identity where it is and adds one only if none matches it.
LEMMA SetKeepsDistinct ==
  ASSUME NEW list \in Seq(CellLocation), NEW cell_id \in ConfigId, NEW lat_lon \in Positions,
         NoTwoMatchIn(list)
  PROVE  LET new == cell_location_set(list, cell_id, lat_lon)
         IN  /\ new \in Seq(CellLocation)
             /\ NoTwoMatchIn(new)
<1> DEFINE i == cell_location_find(list, cell_id)
           new == cell_location_set(list, cell_id, lat_lon)
<1>1. CASE i # 0
  <2>1. i \in 1..Len(list)
    BY <1>1, FindCorrect, LenProperties
  <2>2. new = [list EXCEPT ![i].lat_lon = lat_lon]
    BY <1>1 DEF cell_location_set
  <2>3. list[i] \in CellLocation
    BY <2>1, ElementOfSeq
  <2>4. [list[i] EXCEPT !.lat_lon = lat_lon] \in CellLocation
    BY <2>3 DEF CellLocation
  <2>5. /\ new \in Seq(CellLocation)
        /\ Len(new) = Len(list)
        /\ \A j \in 1..Len(list) : new[j].cell_id = list[j].cell_id
    BY <2>1, <2>2, <2>3, <2>4, ExceptSeq DEF CellLocation
  <2> QED
    BY <2>5, LenProperties DEF NoTwoMatchIn
<1>2. CASE i = 0
  <2> DEFINE e == [cell_id |-> cell_id, lat_lon |-> lat_lon]
  <2>1. new = Append(list, e)
    BY <1>2 DEF cell_location_set
  <2>2. e \in CellLocation
    BY DEF CellLocation
  <2>3. /\ new \in Seq(CellLocation)
        /\ Len(new) = Len(list) + 1
        /\ \A j \in 1..Len(list) : new[j] = list[j]
        /\ new[Len(list) + 1] = e
    BY <2>1, <2>2, AppendProperties
  <2>4. \A j \in 1..Len(list) : /\ ~gsm0808_cell_ids_match(list[j].cell_id, cell_id, FALSE)
                                /\ ~gsm0808_cell_ids_match(cell_id, list[j].cell_id, FALSE)
    <3> SUFFICES ASSUME NEW j \in 1..Len(list)
                 PROVE  /\ ~gsm0808_cell_ids_match(list[j].cell_id, cell_id, FALSE)
                        /\ ~gsm0808_cell_ids_match(cell_id, list[j].cell_id, FALSE)
      OBVIOUS
    <3>1. 0 \notin DOMAIN list
      BY LenProperties
    <3>2. ~gsm0808_cell_ids_match(list[j].cell_id, cell_id, FALSE)
      BY <1>2, <3>1, FindCorrect, LenProperties
    <3>3. list[j].cell_id \in CellId /\ cell_id \in CellId
      <4>1. list[j] \in CellLocation
        BY ElementOfSeq
      <4>2. ConfigId \subseteq CellId
        BY DEF ConfigId, LacCi, Cgi, CellId
      <4> QED
        BY <4>1, <4>2 DEF CellLocation
    <3> QED
      BY <3>2, <3>3, MatchSymmetric
  <2>5. \A j, k \in 1..(Len(list) + 1) :
          j # k => ~gsm0808_cell_ids_match(new[j].cell_id, new[k].cell_id, FALSE)
    <3> SUFFICES ASSUME NEW j \in 1..(Len(list) + 1), NEW k \in 1..(Len(list) + 1), j # k
                 PROVE  ~gsm0808_cell_ids_match(new[j].cell_id, new[k].cell_id, FALSE)
      OBVIOUS
    <3>1. Len(list) \in Nat /\ DOMAIN list = 1..Len(list)
      BY LenProperties
    <3>2. CASE j \in 1..Len(list) /\ k \in 1..Len(list)
      BY <2>3, <3>1, <3>2 DEF NoTwoMatchIn
    <3>3. CASE j \in 1..Len(list) /\ k = Len(list) + 1
      <4>1. new[j] = list[j] /\ new[k].cell_id = cell_id
        BY <2>3, <3>3
      <4> QED
        BY <4>1, <2>4, <3>3
    <3>4. CASE j = Len(list) + 1 /\ k \in 1..Len(list)
      <4>1. new[k] = list[k] /\ new[j].cell_id = cell_id
        BY <2>3, <3>4
      <4> QED
        BY <4>1, <2>4, <3>4
    <3>5. j \in 1..Len(list) \/ j = Len(list) + 1
      BY <3>1
    <3>6. k \in 1..Len(list) \/ k = Len(list) + 1
      BY <3>1
    <3> HIDE DEF new
    <3> QED
      BY <3>2, <3>3, <3>4, <3>5, <3>6
  <2> QED
    BY <2>3, <2>5, LenProperties DEF NoTwoMatchIn
<1> QED
  BY <1>1, <1>2

\* An entry that matches no other one is appended, not merged, when it is set.
LEMMA SetAppends ==
  ASSUME NEW list \in Seq(CellLocation), NEW cell_id \in ConfigId, NEW lat_lon \in Positions,
         \A j \in DOMAIN list : ~gsm0808_cell_ids_match(list[j].cell_id, cell_id, FALSE)
  PROVE  cell_location_set(list, cell_id, lat_lon)
           = Append(list, [cell_id |-> cell_id, lat_lon |-> lat_lon])
  BY FindCorrect DEF cell_location_set

\* Removing one element keeps the others, in their order.
LEMMA RemoveAtProperties ==
  ASSUME NEW S, NEW s \in Seq(S), NEW i \in 1..Len(s)
  PROVE  /\ RemoveAt(s, i) \in Seq(S)
         /\ Len(RemoveAt(s, i)) = Len(s) - 1
         /\ \A j \in 1..(Len(s) - 1) : RemoveAt(s, i)[j] = IF j < i THEN s[j] ELSE s[j + 1]
<1> DEFINE a == SubSeq(s, 1, i - 1)
           b == SubSeq(s, i + 1, Len(s))
<1>1. Len(s) \in Nat /\ i \in Nat /\ 1 <= i /\ i <= Len(s)
  BY LenProperties
<1>2. /\ a \in Seq(S)
      /\ Len(a) = i - 1
      /\ \A j \in 1..(i - 1) : a[j] = s[j]
  BY <1>1, SubSeqProperties, ElementOfSeq
<1>3. /\ b \in Seq(S)
      /\ Len(b) = Len(s) - i
      /\ \A j \in 1..(Len(s) - i) : b[j] = s[i + j]
  <2>1. \A j \in (i + 1)..Len(s) : s[j] \in S
    BY <1>1, ElementOfSeq
  <2>2. /\ b \in Seq(S)
        /\ Len(b) = IF i + 1 <= Len(s) THEN Len(s) - (i + 1) + 1 ELSE 0
        /\ \A j \in 1..(1 + Len(s) - (i + 1)) : b[j] = s[(i + 1) + j - 1]
    BY <1>1, <2>1, SubSeqProperties, Z3
  <2> QED
    BY <1>1, <2>2
<1>4. RemoveAt(s, i) = a \o b
  BY DEF RemoveAt
<1> HIDE DEF a, b
<1>5. /\ a \o b \in Seq(S)
      /\ Len(a \o b) = Len(s) - 1
      /\ \A j \in 1..(Len(s) - 1) : (a \o b)[j] = IF j <= i - 1 THEN a[j] ELSE b[j - (i - 1)]
  <2>1. Len(a) + Len(b) = Len(s) - 1
    BY <1>1, <1>2, <1>3
  <2>2. /\ a \o b \in Seq(S)
        /\ Len(a \o b) = Len(a) + Len(b)
        /\ \A j \in 1..(Len(a) + Len(b)) : (a \o b)[j] = IF j <= Len(a) THEN a[j] ELSE b[j - Len(a)]
    BY <1>2, <1>3, ConcatProperties
  <2> QED
    BY <1>2, <2>1, <2>2
<1>6. ASSUME NEW j \in 1..(Len(s) - 1)
      PROVE  (a \o b)[j] = IF j < i THEN s[j] ELSE s[j + 1]
  <2>1. CASE j < i
    <3>1. j \in 1..(i - 1)
      BY <1>1, <2>1
    <3> QED
      BY <1>1, <1>2, <1>5, <2>1, <3>1
  <2>2. CASE ~(j < i)
    <3>1. j - (i - 1) \in 1..(Len(s) - i) /\ i + (j - (i - 1)) = j + 1 /\ ~(j <= i - 1)
      BY <1>1, <2>2
    <3>2. (a \o b)[j] = b[j - (i - 1)]
      BY <1>5, <3>1
    <3> QED
      BY <1>3, <3>1, <3>2, <2>2
  <2> QED
    BY <2>1, <2>2
<1> QED
  BY <1>4, <1>5, <1>6

\* cell_location_remove() keeps the list well formed and its entries distinct.
LEMMA RemoveKeepsDistinct ==
  ASSUME NEW list \in Seq(CellLocation), NEW cell_id \in ConfigId, NoTwoMatchIn(list)
  PROVE  LET new == cell_location_remove(list, cell_id)
         IN  /\ new \in Seq(CellLocation)
             /\ NoTwoMatchIn(new)
<1> DEFINE i == cell_location_find(list, cell_id)
           new == cell_location_remove(list, cell_id)
<1>1. CASE i # 0
  <2>1. i \in 1..Len(list)
    BY <1>1, FindCorrect, LenProperties
  <2>2. new = RemoveAt(list, i)
    BY <1>1 DEF cell_location_remove
  <2>3. /\ new \in Seq(CellLocation)
        /\ Len(new) = Len(list) - 1
        /\ \A j \in 1..(Len(list) - 1) : new[j] = IF j < i THEN list[j] ELSE list[j + 1]
    BY <2>1, <2>2, RemoveAtProperties
  <2>4. ASSUME NEW j \in DOMAIN new, NEW k \in DOMAIN new, j # k
        PROVE  ~gsm0808_cell_ids_match(new[j].cell_id, new[k].cell_id, FALSE)
    <3> DEFINE at(n) == IF n < i THEN n ELSE n + 1
    <3>1. j \in 1..(Len(list) - 1) /\ k \in 1..(Len(list) - 1) /\ Len(list) \in Nat
      BY <2>3, LenProperties
    <3>2. at(j) \in 1..Len(list) /\ at(k) \in 1..Len(list) /\ at(j) # at(k)
      BY <2>1, <2>4, <3>1
    <3>3. new[j] = list[at(j)] /\ new[k] = list[at(k)]
      BY <2>3, <3>1
    <3>4. DOMAIN list = 1..Len(list)
      BY LenProperties
    <3> HIDE DEF at, new
    <3> QED
      BY <3>2, <3>3, <3>4 DEF NoTwoMatchIn
  <2> QED
    BY <2>3, <2>4 DEF NoTwoMatchIn
<1>2. CASE i = 0
  BY <1>2 DEF cell_location_remove
<1> QED
  BY <1>1, <1>2

----------------------------------------------------------------------------
(* The invariant.  NoTwoMatch is inductive only together with what the     *)
(* configuration file holds, because reading the file rebuilds the list:   *)
(* the file was written from a list without matching entries, and its      *)
(* lines are read one after the other.                                     *)

Inv ==
    /\ TypeOK
    /\ NoTwoMatch
    /\ NoTwoMatchIn(startup)
    /\ ReadBack

\* An empty list and an empty file.
LEMMA InitInv == Init => Inv
<1> SUFFICES ASSUME Init
             PROVE  Inv
  OBVIOUS
<1>1. cell_locations = <<>> /\ startup = <<>> /\ line = 1
  BY DEF Init
<1>2. SubSeq(<<>>, 1, 0) = <<>>
  BY SubSeqEmpty
<1>3. <<>> \in Seq(CellLocation) /\ Len(<<>>) = 0 /\ DOMAIN <<>> = {}
  OBVIOUS
<1> QED
  BY <1>1, <1>2, <1>3 DEF Inv, TypeOK, NoTwoMatch, NoTwoMatchIn, ReadBack

\* A line of the file appends its entry to the list read so far.
LEMMA ReadLineAppends ==
  ASSUME Inv, ReadLine
  PROVE  cell_locations' = SubSeq(startup, 1, line)
<1>1. /\ line \in 1..Len(startup)
      /\ Len(startup) \in Nat
      /\ startup \in Seq(CellLocation)
      /\ DOMAIN startup = 1..Len(startup)
  BY LenProperties DEF Inv, TypeOK, ReadLine
<1>2. startup[line] \in CellLocation
  BY <1>1, ElementOfSeq
<1> DEFINE read == SubSeq(startup, 1, line - 1)
<1>3. cell_locations = read
  BY <1>1 DEF Inv, ReadBack
<1>4. /\ read \in Seq(CellLocation)
      /\ Len(read) = line - 1
      /\ \A j \in 1..(line - 1) : read[j] = startup[j]
  BY <1>1, SubSeqProperties, ElementOfSeq
<1> HIDE DEF read
<1>5. \A j \in DOMAIN read : ~gsm0808_cell_ids_match(read[j].cell_id, startup[line].cell_id, FALSE)
  <2>1. DOMAIN read = 1..(line - 1)
    BY <1>4, LenProperties
  <2> SUFFICES ASSUME NEW j \in 1..(line - 1)
               PROVE  ~gsm0808_cell_ids_match(read[j].cell_id, startup[line].cell_id, FALSE)
    BY <2>1
  <2>2. j \in DOMAIN startup /\ line \in DOMAIN startup /\ j # line
    BY <1>1
  <2>3. read[j] = startup[j]
    BY <1>4
  <2> QED
    BY <2>2, <2>3 DEF Inv, NoTwoMatchIn
<1>6. startup[line].cell_id \in ConfigId /\ startup[line].lat_lon \in Positions
  BY <1>2 DEF CellLocation
<1>7. startup[line] = [cell_id |-> startup[line].cell_id, lat_lon |-> startup[line].lat_lon]
  BY <1>2 DEF CellLocation
<1>8. cell_locations' = Append(read, startup[line])
  <2>1. cell_locations' = cell_location_set(read, startup[line].cell_id, startup[line].lat_lon)
    BY <1>3 DEF ReadLine
  <2>2. cell_location_set(read, startup[line].cell_id, startup[line].lat_lon)
          = Append(read, [cell_id |-> startup[line].cell_id, lat_lon |-> startup[line].lat_lon])
    BY <1>4, <1>5, <1>6, SetAppends
  <2> QED
    BY <1>7, <2>1, <2>2
<1>9. SubSeq(startup, 1, line) = Append(read, startup[line])
  <2> DEFINE next == SubSeq(startup, 1, line)
             appended == Append(read, startup[line])
  <2>1. /\ next \in Seq(CellLocation)
        /\ Len(next) = line
        /\ \A j \in 1..line : next[j] = startup[j]
    BY <1>1, SubSeqProperties, ElementOfSeq
  <2>2. /\ appended \in Seq(CellLocation)
        /\ Len(appended) = line
        /\ \A j \in 1..(line - 1) : appended[j] = startup[j]
        /\ appended[line] = startup[line]
    BY <1>1, <1>2, <1>4, AppendProperties
  <2>3. \A j \in 1..Len(next) : next[j] = appended[j]
    BY <1>1, <2>1, <2>2
  <2> HIDE DEF next, appended
  <2>4. next = appended
    BY <2>1, <2>2, <2>3, SeqEqual
  <2> QED
    BY <2>4 DEF next, appended
<1> QED
  BY <1>8, <1>9

\* Every command, and every line that is read, preserves the invariant.
LEMMA StepInv == Inv /\ [Next]_cellVars => Inv'
<1> SUFFICES ASSUME Inv, [Next]_cellVars
             PROVE  Inv'
  OBVIOUS
<1> USE DEF Inv
<1>1. ASSUME NEW cell_id \in ConfigId, NEW lat_lon \in Positions \cup {NoPart},
             SetLocation(cell_id, lat_lon)
      PROVE  Inv'
  <2>1. /\ cell_locations' \in Seq(CellLocation)
        /\ NoTwoMatchIn(cell_locations')
    BY <1>1, SetKeepsDistinct DEF SetLocation, TypeOK, NoTwoMatch
  <2> QED
    BY <1>1, <2>1 DEF SetLocation, TypeOK, NoTwoMatch, ReadBack
<1>2. ASSUME NEW cell_id \in ConfigId, RemoveLocation(cell_id)
      PROVE  Inv'
  <2>1. /\ cell_locations' \in Seq(CellLocation)
        /\ NoTwoMatchIn(cell_locations')
    BY <1>2, RemoveKeepsDistinct DEF RemoveLocation, TypeOK, NoTwoMatch
  <2> QED
    BY <1>2, <2>1 DEF RemoveLocation, TypeOK, NoTwoMatch, ReadBack
<1>3. CASE config_write_cells
  BY <1>3, LenProperties DEF config_write_cells, TypeOK, NoTwoMatch, ReadBack
<1>4. CASE Restart
  <2>1. SubSeq(startup, 1, 0) = <<>>
    BY SubSeqEmpty
  <2>2. <<>> \in Seq(CellLocation) /\ DOMAIN <<>> = {}
    OBVIOUS
  <2>3. Len(startup) \in Nat
    BY LenProperties DEF TypeOK
  <2>4. cell_locations' = <<>> /\ startup' = startup /\ line' = 1 /\ line' - 1 = 0
    BY <1>4 DEF Restart
  <2>5. NoTwoMatchIn(<<>>)
    BY <2>2 DEF NoTwoMatchIn
  <2>6. TypeOK'
    BY <2>2, <2>3, <2>4 DEF TypeOK
  <2>7. NoTwoMatch' /\ NoTwoMatchIn(startup)' /\ ReadBack'
    BY <2>1, <2>4, <2>5 DEF NoTwoMatch, ReadBack
  <2> QED
    BY <2>6, <2>7
<1>5. CASE ReadLine
  <2>1. startup[line] \in CellLocation
    BY <1>5, ElementOfSeq DEF ReadLine, TypeOK
  <2>2. /\ cell_locations' \in Seq(CellLocation)
        /\ NoTwoMatchIn(cell_locations')
    BY <1>5, <2>1, SetKeepsDistinct DEF ReadLine, TypeOK, NoTwoMatch, CellLocation
  <2>3. cell_locations' = SubSeq(startup, 1, line)
    BY <1>5, ReadLineAppends
  <2>4. Len(startup) \in Nat
    BY LenProperties DEF TypeOK
  <2>5. startup' = startup /\ line' = line + 1 /\ line \in 1..Len(startup) /\ line' - 1 = line
    BY <1>5, <2>4 DEF ReadLine
  <2> QED
    BY <2>2, <2>3, <2>4, <2>5 DEF TypeOK, NoTwoMatch, ReadBack
<1>6. CASE ReadEnd
  BY <1>6, LenProperties DEF ReadEnd, TypeOK, NoTwoMatch, ReadBack
<1>7. CASE UNCHANGED cellVars
  BY <1>7 DEF cellVars, TypeOK, NoTwoMatch, NoTwoMatchIn, ReadBack
<1>8. CASE cfg_cells_lac_ci \/ cfg_cells_cgi
  BY <1>1, <1>8 DEF cfg_cells_lac_ci, cfg_cells_cgi, ConfigId
<1>9. CASE cfg_cells_no_lac_ci \/ cfg_cells_no_cgi
  BY <1>2, <1>9 DEF cfg_cells_no_lac_ci, cfg_cells_no_cgi, ConfigId
<1> QED
  BY <1>3, <1>4, <1>5, <1>6, <1>7, <1>8, <1>9 DEF Next, Vty, ReadFile

\* The invariant holds in every reachable state.
THEOREM Invariance == Spec => []Inv
  BY InitInv, StepInv, PTL DEF Spec

\* Every entry is well formed and the reader stays within the file.
THEOREM TypeCorrect == Spec => []TypeOK
<1>1. Inv => TypeOK
  BY DEF Inv
<1> QED
  BY <1>1, Invariance, PTL

\* However the operator configures the cells, and across restarts, no two
\* entries of the list match each other (cell_locations.c:78-89).
THEOREM EntriesAreDistinct == Spec => []NoTwoMatch
<1>1. Inv => NoTwoMatch
  BY DEF Inv
<1> QED
  BY <1>1, Invariance, PTL

\* While the configuration file is read, the list is what was read so far.
THEOREM ReadBackCorrect == Spec => []ReadBack
<1>1. Inv => ReadBack
  BY DEF Inv
<1> QED
  BY <1>1, Invariance, PTL

\* The list with which the main loop starts is the one `write file' has saved:
\* no entry is lost, merged or reordered on the way through the file.
THEOREM Restored == Spec => RestoredAtStart
<1>1. Inv /\ [Next]_cellVars => [line # 0 /\ line' = 0 => cell_locations' = startup]_cellVars
  <2> SUFFICES ASSUME Inv, Next, line # 0, line' = 0
               PROVE  cell_locations' = startup
    BY DEF cellVars
  <2>1. Len(startup) \in Nat /\ line \in 0..(Len(startup) + 1)
    BY LenProperties DEF Inv, TypeOK
  <2>2. ~ReadLine /\ ~Restart
    BY <2>1 DEF ReadLine, Restart
  <2>3. ReadEnd
    BY <2>2 DEF Next, Vty, ReadFile, cfg_cells_lac_ci, cfg_cells_cgi, cfg_cells_no_lac_ci, cfg_cells_no_cgi,
                SetLocation, RemoveLocation, config_write_cells
  <2>4. line = Len(startup) + 1 /\ cell_locations' = cell_locations
    BY <2>3 DEF ReadEnd
  <2>5. cell_locations = SubSeq(startup, 1, Len(startup))
    BY <2>1, <2>4 DEF Inv, ReadBack
  <2> QED
    BY <2>4, <2>5, SubSeqFull DEF Inv, TypeOK
<1> QED
  BY <1>1, Invariance, PTL DEF Spec, RestoredAtStart

----------------------------------------------------------------------------
(* What a command does for the next lookup.                                *)

\* The lookup of an identity after cell_location_set() of it finds the position.
LEMMA SetThenFind ==
  ASSUME NEW list \in Seq(CellLocation), NEW cell_id \in ConfigId, NEW lat_lon \in Positions
  PROVE  cell_location_from_ta(cell_location_set(list, cell_id, lat_lon), cell_id) = lat_lon
<1> DEFINE i == cell_location_find(list, cell_id)
           new == cell_location_set(list, cell_id, lat_lon)
<1>1. DOMAIN list = 1..Len(list) /\ Len(list) \in Nat
  BY LenProperties
<1>2. CASE i # 0
  <2>1. i \in DOMAIN list
    BY <1>2, FindCorrect
  <2>2. new = [list EXCEPT ![i].lat_lon = lat_lon]
    BY <1>2 DEF cell_location_set
  <2>3. list[i] \in CellLocation
    BY <1>1, <2>1, ElementOfSeq
  <2>4. /\ DOMAIN new = DOMAIN list
        /\ \A j \in DOMAIN list : new[j].cell_id = list[j].cell_id
        /\ new[i].lat_lon = lat_lon
    BY <2>1, <2>2, <2>3 DEF CellLocation
  <2>5. \A exact \in BOOLEAN : MatchingIn(new, cell_id, exact) = MatchingIn(list, cell_id, exact)
    BY <2>4 DEF MatchingIn
  <2>6. cell_location_find(new, cell_id) = i
    BY <2>5 DEF cell_location_find
  <2> HIDE DEF i, new
  <2> QED
    BY <1>2, <2>4, <2>6 DEF cell_location_from_ta, new
<1>3. CASE i = 0
  <2> DEFINE n == Len(list) + 1
  <2>1. new = Append(list, [cell_id |-> cell_id, lat_lon |-> lat_lon])
    BY <1>3 DEF cell_location_set
  <2>2. [cell_id |-> cell_id, lat_lon |-> lat_lon] \in CellLocation
    BY DEF CellLocation
  <2>3. /\ new \in Seq(CellLocation)
        /\ DOMAIN new = 1..n
        /\ \A j \in DOMAIN list : new[j] = list[j]
        /\ new[n] = [cell_id |-> cell_id, lat_lon |-> lat_lon]
    BY <1>1, <2>1, <2>2, AppendProperties, LenProperties
  <2>4. \A j \in DOMAIN list : list[j].cell_id # cell_id
    <3>1. 0 \notin DOMAIN list
      BY <1>1
    <3>2. \A j \in DOMAIN list : ~gsm0808_cell_ids_match(list[j].cell_id, cell_id, FALSE)
      BY <1>3, <3>1, FindCorrect
    <3>3. gsm0808_cell_ids_match(cell_id, cell_id, FALSE)
      BY MatchReflexive
    <3> QED
      BY <3>2, <3>3
  <2>5. MatchingIn(new, cell_id, TRUE) = {n}
    <3> HIDE DEF new
    <3> QED
      BY <1>1, <2>3, <2>4 DEF MatchingIn, gsm0808_cell_ids_match
  <2>6. First({n}) = n
    BY <1>1 DEF First
  <2>7. cell_location_find(new, cell_id) = n
    BY <2>5, <2>6 DEF cell_location_find
  <2> HIDE DEF new
  <2> QED
    BY <1>1, <2>3, <2>7 DEF cell_location_from_ta, new
<1> QED
  BY <1>2, <1>3

\* The position that is set for an identity is seen by the next lookup of it.
THEOREM SetIsSeen == Spec => []SetIsFound
<1>1. Inv => SetIsFound
  BY SetThenFind DEF Inv, TypeOK, SetIsFound
<1> QED
  BY <1>1, Invariance, PTL

\* Two entries that match the same CGI match each other.
LEMMA CgiMatchesJoin ==
  ASSUME NEW a \in ConfigId, NEW b \in ConfigId, NEW cell_id \in Cgi,
         gsm0808_cell_ids_match(a, cell_id, FALSE),
         gsm0808_cell_ids_match(b, cell_id, FALSE)
  PROVE  gsm0808_cell_ids_match(a, b, FALSE)
  BY NoPartAssumption DEF gsm0808_cell_ids_match, Agree, Common, ConfigId, LacCi, Cgi

\* A CGI has no position after cell_location_remove() of it, in a list whose
\* entries are distinct.
LEMMA RemoveThenFind ==
  ASSUME NEW list \in Seq(CellLocation), NEW cell_id \in Cgi, NoTwoMatchIn(list)
  PROVE  cell_location_from_ta(cell_location_remove(list, cell_id), cell_id) = NoPart
<1> DEFINE i == cell_location_find(list, cell_id)
           new == cell_location_remove(list, cell_id)
<1>1. /\ DOMAIN list = 1..Len(list)
      /\ Len(list) \in Nat
      /\ cell_id \in ConfigId
  BY LenProperties DEF ConfigId
<1>2. new \in Seq(CellLocation)
  BY <1>1, RemoveKeepsDistinct
<1>3. \A j \in DOMAIN new : ~gsm0808_cell_ids_match(new[j].cell_id, cell_id, FALSE)
  <2>1. CASE i = 0
    <3>1. 0 \notin DOMAIN list
      BY <1>1
    <3>2. \A j \in DOMAIN list : ~gsm0808_cell_ids_match(list[j].cell_id, cell_id, FALSE)
      BY <1>1, <2>1, <3>1, FindCorrect
    <3>3. new = list
      BY <2>1 DEF cell_location_remove
    <3> QED
      BY <3>2, <3>3
  <2>2. CASE i # 0
    <3>1. i \in 1..Len(list) /\ gsm0808_cell_ids_match(list[i].cell_id, cell_id, FALSE)
      BY <1>1, <2>2, FindCorrect
    <3>2. new = RemoveAt(list, i)
      BY <2>2 DEF cell_location_remove
    <3>3. /\ Len(new) = Len(list) - 1
          /\ \A j \in 1..(Len(list) - 1) : new[j] = IF j < i THEN list[j] ELSE list[j + 1]
      BY <3>1, <3>2, RemoveAtProperties
    <3>4. \A k \in 1..Len(list) : k # i => ~gsm0808_cell_ids_match(list[k].cell_id, cell_id, FALSE)
      <4> SUFFICES ASSUME NEW k \in 1..Len(list), k # i,
                          gsm0808_cell_ids_match(list[k].cell_id, cell_id, FALSE)
                   PROVE  FALSE
        OBVIOUS
      <4>1. list[k].cell_id \in ConfigId /\ list[i].cell_id \in ConfigId
        <5>1. list[k] \in CellLocation /\ list[i] \in CellLocation
          BY <3>1, ElementOfSeq
        <5> QED
          BY <5>1 DEF CellLocation
      <4>2. gsm0808_cell_ids_match(list[k].cell_id, list[i].cell_id, FALSE)
        BY <3>1, <4>1, CgiMatchesJoin
      <4> QED
        BY <1>1, <3>1, <4>2 DEF NoTwoMatchIn
    <3> SUFFICES ASSUME NEW j \in DOMAIN new
                 PROVE  ~gsm0808_cell_ids_match(new[j].cell_id, cell_id, FALSE)
      OBVIOUS
    <3>5. j \in 1..(Len(list) - 1)
      BY <1>2, <3>3, LenProperties
    <3> HIDE DEF i, new
    <3>6. CASE j < i
      <4>1. j \in 1..Len(list) /\ j # i
        BY <1>1, <3>1, <3>5, <3>6
      <4>2. new[j] = list[j]
        BY <3>3, <3>5, <3>6
      <4> QED
        BY <3>4, <4>1, <4>2
    <3>7. CASE ~(j < i)
      <4>1. j + 1 \in 1..Len(list) /\ j + 1 # i
        BY <1>1, <3>1, <3>5, <3>7
      <4>2. new[j] = list[j + 1]
        BY <3>3, <3>5, <3>7
      <4> QED
        BY <3>4, <4>1, <4>2
    <3> QED
      BY <3>6, <3>7
  <2> QED
    BY <2>1, <2>2
<1>4. 0 \notin DOMAIN new
  BY <1>2, LenProperties
<1>5. cell_location_find(new, cell_id) = 0
  <2> HIDE DEF new
  <2> QED
    BY <1>1, <1>2, <1>3, FindCorrect
<1> QED
  BY <1>5 DEF cell_location_from_ta

\* A CGI that is removed has no position any more.
THEOREM RemovedIsUnknown == Spec => []RemovedIsGone
<1>1. Inv => RemovedIsGone
  BY RemoveThenFind DEF Inv, TypeOK, NoTwoMatch, RemovedIsGone
<1> QED
  BY <1>1, Invariance, PTL

----------------------------------------------------------------------------
(* Which entry answers, before and after a command.                        *)

\* Later indices do not change which one is the first.
LEMMA FirstOfMore ==
  ASSUME NEW few \in SUBSET Nat, few # {}, NEW n \in Nat, \A k \in few : k < n,
         NEW many, few \subseteq many, many \subseteq few \cup {n}
  PROVE  First(many) = First(few)
<1>1. /\ First(few) \in few
      /\ \A k \in few : First(few) <= k
  BY FirstIsLeast
<1>2. /\ First(many) \in many
      /\ \A k \in many : First(many) <= k
  BY FirstIsLeast
<1>3. First(many) <= First(few) /\ First(few) < n /\ First(many) \in Nat /\ First(few) \in Nat
  BY <1>1, <1>2
<1>4. First(many) \in few
  BY <1>2, <1>3
<1>5. First(few) <= First(many)
  BY <1>1, <1>4
<1> QED
  BY <1>3, <1>5

\* Nor does taking out another index, behind which the rest moves up.
LEMMA FirstOfRest ==
  ASSUME NEW n \in Nat, NEW k \in 1..n, NEW all \in SUBSET (1..n), all # {}, First(all) # k,
         NEW rest,
         rest = {j \in 1..(n - 1) : (IF j < k THEN j ELSE j + 1) \in all}
  PROVE  /\ rest # {}
         /\ First(rest) \in 1..(n - 1)
         /\ First(all) = IF First(rest) < k THEN First(rest) ELSE First(rest) + 1
<1> DEFINE at(j) == IF j < k THEN j ELSE j + 1
           f == First(all)
           p == IF f < k THEN f ELSE f - 1
           q == First(rest)
<1>1. f \in all /\ \A j \in all : f <= j
  <2>1. all \in SUBSET Nat
    OBVIOUS
  <2> QED
    BY <2>1, FirstIsLeast
<1> HIDE DEF f
<1>2. f \in 1..n /\ f # k /\ n \in Nat /\ k \in 1..n
  BY <1>1 DEF f
<1>3. p \in 1..(n - 1) /\ at(p) = f
  BY <1>2
<1>4. p \in rest
  BY <1>1, <1>3
<1>5. q \in rest /\ \A j \in rest : q <= j
  <2>1. rest \in SUBSET Nat
    OBVIOUS
  <2> QED
    BY <1>4, <2>1, FirstIsLeast
<1> HIDE DEF q
<1>6. q \in 1..(n - 1) /\ at(q) \in all
  BY <1>5
<1>7. q <= p /\ f <= at(q)
  BY <1>1, <1>4, <1>5, <1>6
<1>8. at(q) = f
  BY <1>2, <1>3, <1>6, <1>7
<1> QED
  BY <1>4, <1>6, <1>8 DEF f, q

\* What is found is the first of the exact matches, or of the others.
LEMMA FindIsFirst ==
  ASSUME NEW list \in Seq(CellLocation), NEW cell_id, cell_location_find(list, cell_id) # 0
  PROVE  \E exact \in BOOLEAN :
           /\ MatchingIn(list, cell_id, exact) # {}
           /\ cell_location_find(list, cell_id) = First(MatchingIn(list, cell_id, exact))
           /\ ~exact => MatchingIn(list, cell_id, TRUE) = {}
  BY DEF cell_location_find

\* It is the same in a list whose first and other exact matches are the same.
LEMMA FoundAgain ==
  ASSUME NEW list, NEW cell_id, NEW exact \in BOOLEAN,
         MatchingIn(list, cell_id, exact) # {},
         ~exact => MatchingIn(list, cell_id, TRUE) = {}
  PROVE  cell_location_find(list, cell_id) = First(MatchingIn(list, cell_id, exact))
<1>1. CASE exact
  BY <1>1 DEF cell_location_find
<1>2. CASE ~exact
  BY <1>2 DEF cell_location_find
<1> QED
  BY <1>1, <1>2

\* The request for cell_id is answered by the same entry as before, if the list
\* still has it.
StillAnswers(list, new, cell_id) ==
    LET i == cell_location_find(list, cell_id)
        j == cell_location_find(new, cell_id)
    IN  i # 0 /\ list[i].cell_id \in Identities(new) => j # 0 /\ new[j].cell_id = list[i].cell_id

\* cell_location_set() overwrites an entry in its place or adds one behind all.
LEMMA SetKeepsAnswers ==
  ASSUME NEW list \in Seq(CellLocation), NEW set_id \in ConfigId, NEW lat_lon \in Positions,
         NEW cell_id \in CellId
  PROVE  StillAnswers(list, cell_location_set(list, set_id, lat_lon), cell_id)
<1> DEFINE new == cell_location_set(list, set_id, lat_lon)
           k == cell_location_find(list, set_id)
           i == cell_location_find(list, cell_id)
           n == Len(list) + 1
<1>1. DOMAIN list = 1..Len(list) /\ Len(list) \in Nat
  BY LenProperties
<1> SUFFICES ASSUME i # 0
             PROVE  LET j == cell_location_find(new, cell_id)
                    IN  j # 0 /\ new[j].cell_id = list[i].cell_id
  BY DEF StillAnswers
<1>2. PICK exact \in BOOLEAN :
        /\ MatchingIn(list, cell_id, exact) # {}
        /\ i = First(MatchingIn(list, cell_id, exact))
        /\ ~exact => MatchingIn(list, cell_id, TRUE) = {}
  BY FindIsFirst
<1>3. \A e \in BOOLEAN : MatchingIn(list, cell_id, e) \in SUBSET Nat /\ MatchingIn(list, cell_id, e) \subseteq 1..Len(list)
  BY <1>1 DEF MatchingIn
<1>4. i \in MatchingIn(list, cell_id, exact)
  BY <1>2, <1>3, FirstIsLeast
<1>5. i \in 1..Len(list)
  BY <1>3, <1>4
<1>6. CASE k # 0
  <2>1. k \in DOMAIN list
    BY <1>6, FindCorrect
  <2>2. new = [list EXCEPT ![k].lat_lon = lat_lon]
    BY <1>6 DEF cell_location_set
  <2>3. list[k] \in CellLocation
    BY <1>1, <2>1, ElementOfSeq
  <2>4. /\ DOMAIN new = DOMAIN list
        /\ \A j \in DOMAIN list : new[j].cell_id = list[j].cell_id
    BY <2>1, <2>2, <2>3 DEF CellLocation
  <2>5. \A e \in BOOLEAN : MatchingIn(new, cell_id, e) = MatchingIn(list, cell_id, e)
    BY <2>4 DEF MatchingIn
  <2>6. cell_location_find(new, cell_id) = i
    BY <2>5 DEF cell_location_find
  <2> HIDE DEF i, new
  <2> QED
    BY <1>1, <1>5, <2>4, <2>6
<1>7. CASE k = 0
  <2>1. new = Append(list, [cell_id |-> set_id, lat_lon |-> lat_lon])
    BY <1>7 DEF cell_location_set
  <2>2. [cell_id |-> set_id, lat_lon |-> lat_lon] \in CellLocation
    BY DEF CellLocation
  <2>3. /\ DOMAIN new = 1..n
        /\ \A j \in 1..Len(list) : new[j] = list[j]
        /\ new[n].cell_id = set_id
    BY <1>1, <2>1, <2>2, AppendProperties, LenProperties
  <2> HIDE DEF new, k
  <2>4. \A e \in BOOLEAN :
          /\ MatchingIn(list, cell_id, e) \subseteq MatchingIn(new, cell_id, e)
          /\ MatchingIn(new, cell_id, e) \subseteq MatchingIn(list, cell_id, e) \cup {n}
    BY <1>1, <2>3 DEF MatchingIn
  <2>5. ~exact => MatchingIn(new, cell_id, TRUE) = {}
    <3> SUFFICES ASSUME ~exact, NEW j \in MatchingIn(new, cell_id, TRUE)
                 PROVE  FALSE
      OBVIOUS
    <3>1. j = n /\ set_id = cell_id
      BY <1>2, <2>3, <2>4 DEF MatchingIn, gsm0808_cell_ids_match
    <3>2. k = i
      BY <3>1 DEF k
    <3> QED
      BY <1>7, <3>2
  <2>6. First(MatchingIn(new, cell_id, exact)) = i
    <3>1. \A j \in MatchingIn(list, cell_id, exact) : j < n
      BY <1>1, <1>3
    <3>2. n \in Nat
      BY <1>1
    <3> QED
      BY <1>2, <1>3, <2>4, <3>1, <3>2, FirstOfMore
  <2>7. MatchingIn(new, cell_id, exact) # {}
    BY <1>2, <2>4
  <2>8. cell_location_find(new, cell_id) = i
    BY <2>5, <2>6, <2>7, FoundAgain
  <2> HIDE DEF i
  <2> QED
    BY <1>1, <1>5, <2>3, <2>8
<1> QED
  BY <1>6, <1>7

\* cell_location_remove() takes out one entry and leaves the others in their order.
\* The entry that it takes out is the only one with its identity.
LEMMA RemoveKeepsAnswers ==
  ASSUME NEW list \in Seq(CellLocation), NEW removed_id \in ConfigId, NoTwoMatchIn(list),
         NEW cell_id \in CellId
  PROVE  StillAnswers(list, cell_location_remove(list, removed_id), cell_id)
<1> DEFINE new == cell_location_remove(list, removed_id)
           k == cell_location_find(list, removed_id)
           i == cell_location_find(list, cell_id)
           at(j) == IF j < k THEN j ELSE j + 1
<1>1. DOMAIN list = 1..Len(list) /\ Len(list) \in Nat
  BY LenProperties
<1> SUFFICES ASSUME i # 0, list[i].cell_id \in Identities(new)
             PROVE  LET j == cell_location_find(new, cell_id)
                    IN  j # 0 /\ new[j].cell_id = list[i].cell_id
  BY DEF StillAnswers
<1>2. CASE k = 0
  BY <1>2 DEF cell_location_remove
<1>3. CASE k # 0
  <2>1. k \in 1..Len(list)
    BY <1>1, <1>3, FindCorrect
  <2>2. new = RemoveAt(list, k)
    BY <1>3 DEF cell_location_remove
  <2>3. /\ new \in Seq(CellLocation)
        /\ DOMAIN new = 1..(Len(list) - 1)
        /\ \A j \in 1..(Len(list) - 1) : new[j] = list[at(j)]
    <3>1. /\ new \in Seq(CellLocation)
          /\ Len(new) = Len(list) - 1
          /\ \A j \in 1..(Len(list) - 1) : new[j] = IF j < k THEN list[j] ELSE list[j + 1]
      BY <2>1, <2>2, RemoveAtProperties
    <3> HIDE DEF new, k
    <3>2. DOMAIN new = 1..(Len(list) - 1)
      BY <3>1, LenProperties
    <3> QED
      BY <3>1, <3>2
  <2> HIDE DEF new, k
  <2>4. PICK exact \in BOOLEAN :
          /\ MatchingIn(list, cell_id, exact) # {}
          /\ i = First(MatchingIn(list, cell_id, exact))
          /\ ~exact => MatchingIn(list, cell_id, TRUE) = {}
    BY FindIsFirst
  <2> HIDE DEF i
  <2>5. \A e \in BOOLEAN : /\ MatchingIn(list, cell_id, e) \in SUBSET (1..Len(list))
                           /\ MatchingIn(list, cell_id, e) \in SUBSET Nat
    BY <1>1 DEF MatchingIn
  <2>6. i \in 1..Len(list)
    BY <2>4, <2>5, FirstIsLeast
  <2>7. \A j \in 1..(Len(list) - 1) : at(j) \in 1..Len(list) /\ at(j) # k
    BY <1>1, <2>1
  <2>8. i # k
    <3>1. PICK j \in 1..(Len(list) - 1) : new[j].cell_id = list[i].cell_id
      BY <2>3 DEF Identities
    <3>2. at(j) \in 1..Len(list) /\ list[at(j)].cell_id = list[i].cell_id
      BY <2>3, <2>7, <3>1
    <3>3. list[i].cell_id \in ConfigId
      <4>1. list[i] \in CellLocation
        BY <2>6, ElementOfSeq
      <4> QED
        BY <4>1 DEF CellLocation
    <3>4. at(j) = i
      <4> HIDE DEF at
      <4> QED
        BY <1>1, <2>6, <3>2, <3>3, MatchReflexive DEF NoTwoMatchIn
    <3> QED
      BY <2>7, <3>4
  <2>9. \A e \in BOOLEAN :
          MatchingIn(new, cell_id, e) = {j \in 1..(Len(list) - 1) : at(j) \in MatchingIn(list, cell_id, e)}
    <3> HIDE DEF at
    <3> QED
      BY <1>1, <2>3, <2>7 DEF MatchingIn
  <2>10. /\ MatchingIn(new, cell_id, exact) # {}
         /\ First(MatchingIn(new, cell_id, exact)) \in 1..(Len(list) - 1)
         /\ i = at(First(MatchingIn(new, cell_id, exact)))
    BY <1>1, <2>1, <2>4, <2>5, <2>8, <2>9, FirstOfRest
  <2>11. ~exact => MatchingIn(new, cell_id, TRUE) = {}
    BY <2>4, <2>9
  <2>12. cell_location_find(new, cell_id) = First(MatchingIn(new, cell_id, exact))
    BY <2>10, <2>11, FoundAgain
  <2> HIDE DEF at
  <2> QED
    BY <2>3, <2>10, <2>12
<1> QED
  BY <1>2, <1>3

\* Whatever the operator configures or removes, a request is answered by the same
\* entry until that entry is removed.
THEOREM AnswersStay == Spec => AnswerStays
<1>1. Inv /\ [Next]_cellVars =>
        [UNCHANGED cell_locations \/ \A cell_id \in RequestId :
           StillAnswers(cell_locations, cell_locations', cell_id)]_cellVars
  <2> SUFFICES ASSUME Inv, Next, cell_locations' # cell_locations, NEW cell_id \in CellId
               PROVE  StillAnswers(cell_locations, cell_locations', cell_id)
    BY DEF cellVars, RequestId
  <2>1. cell_locations \in Seq(CellLocation) /\ NoTwoMatchIn(cell_locations)
    BY DEF Inv, TypeOK, NoTwoMatch
  <2>2. ASSUME NEW set_id \in ConfigId, NEW lat_lon \in Positions \cup {NoPart},
               SetLocation(set_id, lat_lon)
        PROVE  StillAnswers(cell_locations, cell_locations', cell_id)
    BY <2>1, <2>2, SetKeepsAnswers DEF SetLocation
  <2>3. ASSUME NEW removed_id \in ConfigId, RemoveLocation(removed_id)
        PROVE  StillAnswers(cell_locations, cell_locations', cell_id)
    BY <2>1, <2>3, RemoveKeepsAnswers DEF RemoveLocation
  <2>4. CASE Vty
    BY <2>2, <2>3, <2>4 DEF Vty, cfg_cells_lac_ci, cfg_cells_cgi, cfg_cells_no_lac_ci, cfg_cells_no_cgi,
                            config_write_cells, ConfigId
  <2>5. CASE ReadLine
    <3>1. startup[line] \in CellLocation
      BY <2>5, ElementOfSeq DEF ReadLine, Inv, TypeOK
    <3>2. startup[line].cell_id \in ConfigId /\ startup[line].lat_lon \in Positions
      BY <3>1 DEF CellLocation
    <3> QED
      BY <2>1, <2>5, <3>2, SetKeepsAnswers DEF ReadLine
  <2>6. CASE Restart
    <3>1. Identities(cell_locations') = {}
      BY <2>6 DEF Restart, Identities
    <3> QED
      BY <3>1 DEF StillAnswers
  <2>7. CASE ReadEnd
    BY <2>7 DEF ReadEnd
  <2> QED
    BY <2>4, <2>5, <2>6, <2>7 DEF Next, ReadFile
<1>2. Inv /\ [Next]_cellVars =>
        [UNCHANGED cell_locations \/ \A cell_id \in RequestId :
           LET i == cell_location_find(cell_locations, cell_id)
               j == cell_location_find(cell_locations', cell_id)
           IN  i # 0 /\ cell_locations[i].cell_id \in Identities(cell_locations')
                 => j # 0 /\ cell_locations'[j].cell_id = cell_locations[i].cell_id]_cellVars
  BY <1>1 DEF StillAnswers
<1> QED
  BY <1>2, Invariance, PTL DEF Spec, AnswerStays
============================================================================
