---------------------------- MODULE MCDashboard ----------------------------
(* Small instances of Dashboard.                                            *)
EXTENDS Dashboard, TLC

Symmetry == Permutations(Macs) \cup Permutations(Contacts)
=============================================================================
