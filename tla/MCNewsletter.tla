---------------------------- MODULE MCNewsletter ----------------------------
(* Newsletter with small sets.  Addresses, campaigns and sends are only       *)
(* compared, so each may be permuted.                                         *)
EXTENDS Newsletter, TLC

Symmetry == Permutations(Emails) \cup Permutations(Campaigns) \cup Permutations(Sends)
=============================================================================
