----------------------------- MODULE MCTxOutbox -----------------------------
(* An instance of TxOutbox for TLC.                                        *)
EXTENDS TxOutbox, TLC

CONSTANTS a, b, d1, d2
=============================================================================
