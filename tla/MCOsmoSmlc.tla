----------------------------- MODULE MCOsmoSmlc -----------------------------
(***************************************************************************)
(* OsmoSmlc on small instances.                                            *)
(***************************************************************************)
EXTENDS OsmoSmlc

\* A request names its cell by LAC and CI, or by the LAC alone.
LacCiCells == [plmn : {NoPart}, lac : Lacs, ci : Cis]
MCRequestCells == LacCiCells \cup [plmn : {NoPart}, lac : Lacs, ci : {NoPart}]

\* Nothing fails.
NoOutage == {{}}

\* The ways in which answering a request can fail.
AnswerOutages == {{}, {"gad"}, {"enc_location"}, {"enc_location", "enc_cause"}, {"send_co"}}

\* The ways in which the RESET procedure can fail, and a lost response.
ResetOutages == {{}, {"send_co"}, {"enc_cl"}, {"send_cl"}}

\* Symmetry of the values that the program only compares for equality.
Symmetry == Permutations(ConnIds) \cup Permutations(Imsis) \cup Permutations(Peers)
                \cup Permutations(Cis) \cup Permutations(Positions)
============================================================================
