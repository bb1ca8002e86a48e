----------------------------- MODULE MCRecords -----------------------------
(* A small instance of Records for TLC.                                     *)
EXTENDS Records
=============================================================================
