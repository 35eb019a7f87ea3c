------------------------ MODULE MCTechnicalScheduler ------------------------
(* Small instances of TechnicalScheduler for TLC. *)
EXTENDS TechnicalScheduler

CONSTANTS quota, result, access

\* One task of each sort, in the order of the code.
OneOfEach == <<quota, result, access>>
=============================================================================
