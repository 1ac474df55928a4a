------------------------------ MODULE MCLedger ------------------------------
EXTENDS Ledger

(* Jobs 11 and 12 are of user 1, job 21 is of user 2. *)
MCHirerOf == [j \in Job |-> j \div 10]
=============================================================================
