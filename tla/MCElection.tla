----------------------------- MODULE MCElection -----------------------------
(* A small instance of Election for TLC.                                   *)
EXTENDS Election, TLC

CONSTANTS n1, n2, n3

TermsGrow == "term_went_back" \notin mishaps
NoMishap == mishaps = {}
MCSymmetry == Permutations(Node)
=============================================================================
