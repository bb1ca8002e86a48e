------------------------------- MODULE MCRabin -------------------------------
(* Small instances of Rabin for TLC; the cfg gives every constant its value. *)
EXTENDS Rabin
=============================================================================
