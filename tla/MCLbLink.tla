------------------------------ MODULE MCLbLink ------------------------------
(***************************************************************************)
(* LbLink on small instances.                                              *)
(***************************************************************************)
EXTENDS LbLink

\* A request names its cell by LAC and CI, and the BSC has the timing advance.
MCRequestCells == [plmn : {NoPart}, lac : Lacs, ci : Cis]

\* Nothing fails, or SCCP does not take a message of the RESET procedure.
FewOutages == {{}, {"send_cl"}}

\* Nothing fails, SCCP takes no message, or none of the RESET procedure can be
\* composed.
ManyOutages == {{}, {"send_cl", "send_co"}, {"enc_cl"}}

\* The subscribers are only compared for equality.
Symmetry == Permutations(Imsis)
=============================================================================
