---------------------------- MODULE AtomicLedger ----------------------------
(***************************************************************************)
(* What the compute-unit ledger promises to its callers: every operation   *)
(* happens at once or not at all, whatever other operations are running.   *)
(* The state is what the database has committed; there are no connections, *)
(* no row locks and no values read earlier.                                *)
(***************************************************************************)
EXTENDS Integers

CONSTANTS User,      \* user ids (UUIDs, compared by settle: naturals here)
          Job,       \* job ids
          HirerOf,   \* the hirer of every job
          Grant,     \* amounts an administrator may allocate
          Price      \* amounts a job may reserve

VARIABLES account,   \* "none", "registering", "open" (has a balance row), "bare" (has none)
          row,       \* the row of compute_unit_balances
          log,       \* sums of compute_unit_transactions, by user and tx_type
          phase,     \* what the callers did with a job: "new", "reserved", "closed"
          price      \* the amount reserved for the job

vars == <<account, row, log, phase, price>>

(* WORKER_PAYOUT_FRACTION is 0.85; the cast to i64 drops the fraction. *)
Payout(charge) == (charge * 85) \div 100

(* Who may act as a worker: everybody whose registration got as far as a   *)
(* row of users, with or without a balance.                                *)
Registered(u) == account[u] \in {"open", "bare"}

Init == /\ account = [u \in User |-> "none"]
        /\ row = [u \in User |-> [bal |-> 0, res |-> 0]]
        /\ log = [u \in User |-> [allocation |-> 0, job_debit |-> 0,
                                  job_credit |-> 0, job_refund |-> 0]]
        /\ phase = [j \in Job |-> "new"]
        /\ price = [j \in Job |-> 0]

(* A registration goes on: the user, then the balance row or none. *)
Register(u, before, after) ==
    /\ account[u] = before
    /\ account' = [account EXCEPT ![u] = after]
    /\ UNCHANGED <<row, log, phase, price>>

Allocate(u, n) ==
    /\ account[u] = "open"
    /\ row' = [row EXCEPT ![u].bal = @ + n]
    /\ log' = [log EXCEPT ![u].allocation = @ + n]
    /\ UNCHANGED <<account, phase, price>>

(* The units have to be there when they are reserved. *)
Reserve(j, n) ==
    LET h == HirerOf[j] IN
    /\ phase[j] = "new"
    /\ account[h] = "open"
    /\ row[h].bal - row[h].res >= n
    /\ row' = [row EXCEPT ![h].res = @ + n]
    /\ log' = [log EXCEPT ![h].job_debit = @ - n]
    /\ phase' = [phase EXCEPT ![j] = "reserved"]
    /\ price' = [price EXCEPT ![j] = n]
    /\ UNCHANGED account

(* The reservation ends; the worker w is paid for the charge. *)
Settle(j, w, charge) ==
    LET h == HirerOf[j]
        refund == price[j] - charge
        freed == [row EXCEPT ![h] = [bal |-> @.bal + refund, res |-> @.res - price[j]]]
    IN /\ phase[j] = "reserved"
       /\ charge \in 0..price[j]
       /\ Registered(w)
       /\ row' = IF account[w] = "open"
                   THEN [freed EXCEPT ![w].bal = @ + Payout(charge)]
                   ELSE freed
       /\ log' = [log EXCEPT ![h].job_refund = @ + refund,
                             ![w].job_credit = @ + Payout(charge)]
       /\ phase' = [phase EXCEPT ![j] = "closed"]
       /\ UNCHANGED <<account, price>>

Refund(j) ==
    LET h == HirerOf[j] IN
    /\ phase[j] = "reserved"
    /\ row' = [row EXCEPT ![h] = [bal |-> @.bal + price[j], res |-> @.res - price[j]]]
    /\ log' = [log EXCEPT ![h].job_refund = @ + price[j]]
    /\ phase' = [phase EXCEPT ![j] = "closed"]
    /\ UNCHANGED <<account, price>>

Next == \/ \E u \in User : \/ Register(u, "none", "registering")
                           \/ Register(u, "registering", "open")
                           \/ Register(u, "registering", "bare")
                           \/ \E n \in Grant : Allocate(u, n)
        \/ \E j \in Job : \/ \E n \in Price : Reserve(j, n)
                          \/ \E w \in User, charge \in 0..price[j] : Settle(j, w, charge)
                          \/ Refund(j)

Spec == Init /\ [][Next]_vars
=============================================================================
