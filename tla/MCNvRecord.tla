------------------------------ MODULE MCNvRecord -----------------------------
(* NvRecord on a small instance; the configuration gives the constants.    *)
EXTENDS NvRecord
==============================================================================
