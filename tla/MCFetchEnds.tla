---------------------------- MODULE MCFetchEnds -----------------------------
(***************************************************************************)
(* SegFetch for TLC, with one object: it has two segments, and the         *)
(* certificate of its signer is still to be fetched.  Nothing goes wrong.  *)
(***************************************************************************)
EXTENDS SegFetch

CONSTANT a

Uncertified ==
    {[size |-> [s \in {a} |-> 2], latest |-> {}, cached |-> FALSE, maxRetries |-> 1]}
=============================================================================
