------------------------------ MODULE MCLedger ------------------------------
(* Two processes append to a repository that still has the aggregate       *)
(* document of an older release.                                           *)
EXTENDS Ledger

MCIds == 1..5
MCLegacy == {[id |-> 3, time |-> 0, previous |-> None],
             [id |-> 5, time |-> 1, previous |-> 3]}
=============================================================================
