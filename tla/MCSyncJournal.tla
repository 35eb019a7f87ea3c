------------------------------ MODULE MCSyncJournal ------------------------------
(* Two named installations of SyncJournal for TLC. *)
EXTENDS SyncJournal

CONSTANTS d1, d2
================================================================================
