------------------------------ MODULE NbfiTxMC ------------------------------
(***************************************************************************)
(* Instances of NbfiTx for TLC.  Flag words are sets of names, so the sets *)
(* of flag words the runs draw from are named here.                        *)
(***************************************************************************)
EXTENDS NbfiTx

Plain      == {{}}
Mixed      == {{}, {"NOACK"}}
AllFlags   == {{}, {"NOACK"}, {"NO_RETRIES"}, {"SAME_TX_ITER"}}
=============================================================================
