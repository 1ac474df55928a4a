------------------------------- MODULE Ledger -------------------------------
(***************************************************************************)
(* The compute-unit ledger of decentgpu-master (credits/engine.rs): its    *)
(* operations as PostgreSQL transactions at READ COMMITTED.  A step is a   *)
(* statement that may have to wait for a row lock, or the rest of the      *)
(* transaction up to COMMIT.  The UPDATEs and INSERTs that follow the last *)
(* lock are one step with the COMMIT: their rows are locked, so nobody     *)
(* sees them earlier, and a failure among them rolls everything back       *)
(* (Abort).  A row that does not exist cannot be locked.                   *)
(*                                                                         *)
(* Only allocate has a caller in the code; reserve, settle and refund_full *)
(* are used here as their comments say: a job is reserved once, and then   *)
(* settled or refunded once with the amount reserved, by one caller at a   *)
(* time.  `phase' and `price' are what such callers know.                  *)
(***************************************************************************)
EXTENDS Integers, FiniteSets, FiniteSetsExt

CONSTANTS User, Job, HirerOf, Grant, Price,
          MaxUuid,     \* the greatest UUID
          Client,      \* the handlers that may be in an operation at a time
          NoClient,    \* the holder of a lock that is free
          NoTx,        \* a client that is in no operation
          NoJob,       \* the job of an allocation
          MaxGranted   \* bound on the units allocated to a user

VARIABLES account, row, log, phase, price,   \* committed, as in AtomicLedger
          lock,   \* the client that holds the lock of a user's balance row
          tx      \* the transaction that a client is in

ledger == <<account, row, log, phase, price>>
vars == <<account, row, log, phase, price, lock, tx>>

(* The allocate handler admits 1 to 1 000 000 units. *)
MaxGrant == 1000000

ASSUME LedgerAssumption ==
    /\ MaxUuid \in Nat /\ User \subseteq 0..MaxUuid
    /\ HirerOf \in [Job -> User]
    /\ Grant \subseteq 1..MaxGrant /\ Price \subseteq Nat
    /\ NoClient \notin Client /\ NoJob \notin Job
    /\ MaxGranted \in Nat

Transaction == [op : {"allocate", "reserve", "settle", "refund"},
                step : {"first", "second", "commit"},
                user : User, worker : User, job : Job \cup {NoJob},
                amount : Nat,   \* to add, to reserve, or reserved before
                charge : Nat,   \* what settle charges for the actual duration
                read : Nat]     \* cu_balance as the SELECT returned it

ASSUME NoTxAssumption == NoTx \notin Transaction

Payout(charge) == (charge * 85) \div 100
Registered(u) == account[u] \in {"open", "bare"}
Available(u) == row[u].bal - row[u].res

(* Mutant: hirer then worker, as the comment of settle begins. *)
HirerAlways(t) == TRUE

(* settle locks the rows in the order of the UUIDs.  Elsewhere worker = user. *)
HirerFirst(t) == t.user < t.worker
First(t) == IF HirerFirst(t) THEN t.user ELSE t.worker
Second(t) == IF HirerFirst(t) THEN t.worker ELSE t.user

TypeOK ==
    /\ account \in [User -> {"none", "registering", "open", "bare"}]
    /\ row \in [User -> [bal : Nat, res : Nat]]
    /\ log \in [User -> [allocation : Nat, job_debit : Int, job_credit : Nat, job_refund : Nat]]
    /\ phase \in [Job -> {"new", "reserved", "closed"}]
    /\ price \in [Job -> Nat]
    /\ lock \in [User -> Client \cup {NoClient}]
    /\ tx \in [Client -> Transaction \cup {NoTx}]

Init == /\ account = [u \in User |-> "none"]
        /\ row = [u \in User |-> [bal |-> 0, res |-> 0]]
        /\ log = [u \in User |-> [allocation |-> 0, job_debit |-> 0,
                                  job_credit |-> 0, job_refund |-> 0]]
        /\ phase = [j \in Job |-> "new"]
        /\ price = [j \in Job |-> 0]
        /\ lock = [u \in User |-> NoClient]
        /\ tx = [c \in Client |-> NoTx]

-----------------------------------------------------------------------------
(* Registration: the row of users, then the balance row.  The handler may  *)
(* fail in between, and nothing tries again: the user stays without one.   *)

CreateUser(u) == /\ account[u] = "none"
                 /\ account' = [account EXCEPT ![u] = "registering"]
                 /\ UNCHANGED <<row, log, phase, price, lock, tx>>

Initialize(u) == /\ account[u] = "registering"
                 /\ account' = [account EXCEPT ![u] = "open"]
                 /\ UNCHANGED <<row, log, phase, price, lock, tx>>

InitializeFails(u) == /\ account[u] = "registering"
                      /\ account' = [account EXCEPT ![u] = "bare"]
                      /\ UNCHANGED <<row, log, phase, price, lock, tx>>

-----------------------------------------------------------------------------
(* Transactions, locks and their end. *)

Begin(c, t) == /\ tx[c] = NoTx
               /\ tx' = [tx EXCEPT ![c] = t]
               /\ UNCHANGED <<account, row, log, phase, price, lock>>

At(c, op, step) == tx[c] # NoTx /\ tx[c].op = op /\ tx[c].step = step

(* SELECT ... FOR UPDATE, or an UPDATE: waits for the lock of the row. *)
Lock(c, u) == /\ lock[u] \in {NoClient, c}
              /\ lock' = [lock EXCEPT ![u] = c]

Goto(c, step) == tx' = [tx EXCEPT ![c].step = step]

(* COMMIT or ROLLBACK. *)
End(c) == /\ tx' = [tx EXCEPT ![c] = NoTx]
          /\ lock' = [u \in User |-> IF lock[u] = c THEN NoClient ELSE lock[u]]

(* A statement fails, the connection breaks, or the handler is dropped. *)
Abort(c) == /\ tx[c] # NoTx
            /\ End(c)
            /\ UNCHANGED ledger

(* The row of the user is missing: NotFound. *)
NotFound(c) == /\ At(c, "allocate", "first") \/ At(c, "reserve", "first")
               /\ account[tx[c].user] # "open"
               /\ End(c)
               /\ UNCHANGED ledger

-----------------------------------------------------------------------------
(* allocate *)

BeginAllocate(c, u, n) ==
    /\ Registered(u)
    /\ log[u].allocation + n <= MaxGranted
    /\ Begin(c, [op |-> "allocate", step |-> "first", user |-> u, worker |-> u,
                 job |-> NoJob, amount |-> n, charge |-> 0, read |-> 0])

(* Mutant: allocate without FOR UPDATE. *)
AllocateReadUnlocked(c) ==
    LET u == tx[c].user IN
    /\ At(c, "allocate", "first")
    /\ account[u] = "open"
    /\ tx' = [tx EXCEPT ![c].step = "commit", ![c].read = row[u].bal]
    /\ UNCHANGED <<account, row, log, phase, price, lock>>

AllocateRead(c) ==
    LET u == tx[c].user IN
    /\ At(c, "allocate", "first")
    /\ account[u] = "open"
    /\ Lock(c, u)
    /\ tx' = [tx EXCEPT ![c].step = "commit", ![c].read = row[u].bal]
    /\ UNCHANGED ledger

(* The new balance is computed from the one that was read. *)
AllocateCommit(c) ==
    LET t == tx[c] IN
    /\ At(c, "allocate", "commit")
    /\ row' = [row EXCEPT ![t.user].bal = t.read + t.amount]
    /\ log' = [log EXCEPT ![t.user].allocation = @ + t.amount]
    /\ End(c)
    /\ UNCHANGED <<account, phase, price>>

-----------------------------------------------------------------------------
(* reserve *)

(* The callers' part: nobody else is doing something with the job. *)
Untouched(j) == \A c \in Client : tx[c] # NoTx => tx[c].job # j

BeginReserve(c, j, n) ==
    /\ phase[j] = "new"
    /\ Registered(HirerOf[j])
    /\ Untouched(j)
    /\ Begin(c, [op |-> "reserve", step |-> "first", user |-> HirerOf[j],
                 worker |-> HirerOf[j], job |-> j, amount |-> n, charge |-> 0, read |-> 0])

(* Mutant: reserve checks the balance, not what is available of it. *)
ReserveReadBalance(c) ==
    LET u == tx[c].user IN
    /\ At(c, "reserve", "first")
    /\ account[u] = "open"
    /\ row[u].bal >= tx[c].amount
    /\ Lock(c, u)
    /\ Goto(c, "commit")
    /\ UNCHANGED ledger

(* Mutant: reserve without FOR UPDATE. *)
ReserveReadUnlocked(c) ==
    LET u == tx[c].user IN
    /\ At(c, "reserve", "first")
    /\ account[u] = "open"
    /\ Available(u) >= tx[c].amount
    /\ Goto(c, "commit")
    /\ UNCHANGED <<account, row, log, phase, price, lock>>

ReserveRead(c) ==
    LET u == tx[c].user IN
    /\ At(c, "reserve", "first")
    /\ account[u] = "open"
    /\ Available(u) >= tx[c].amount
    /\ Lock(c, u)
    /\ Goto(c, "commit")
    /\ UNCHANGED ledger

(* InsufficientComputeUnits, decided under the lock. *)
ReserveRefused(c) ==
    LET u == tx[c].user IN
    /\ At(c, "reserve", "first")
    /\ account[u] = "open"
    /\ lock[u] = NoClient
    /\ Available(u) < tx[c].amount
    /\ End(c)
    /\ UNCHANGED ledger

ReserveCommit(c) ==
    LET t == tx[c] IN
    /\ At(c, "reserve", "commit")
    /\ row' = [row EXCEPT ![t.user].res = @ + t.amount]
    /\ log' = [log EXCEPT ![t.user].job_debit = @ - t.amount]
    /\ phase' = [phase EXCEPT ![t.job] = "reserved"]
    /\ price' = [price EXCEPT ![t.job] = t.amount]
    /\ End(c)
    /\ UNCHANGED account

-----------------------------------------------------------------------------
(* settle *)

(* The charge is the price of the actual duration, the reserved amount at most. *)
BeginSettle(c, j, w, charge) ==
    /\ phase[j] = "reserved"
    /\ charge <= price[j]
    /\ Registered(w)
    /\ Untouched(j)
    /\ Begin(c, [op |-> "settle", step |-> "first", user |-> HirerOf[j], worker |-> w,
                 job |-> j, amount |-> price[j], charge |-> charge, read |-> 0])

(* Mutant: settle waits for a row that is missing. *)
LockPresent(c, u) == account[u] = "open" /\ Lock(c, u)

(* SELECT ... FOR UPDATE of settle: a missing row is neither locked nor an error. *)
LockIfPresent(c, u) == IF account[u] = "open" THEN Lock(c, u) ELSE UNCHANGED lock

SettleLockFirst(c) == /\ At(c, "settle", "first")
                      /\ LockIfPresent(c, First(tx[c]))
                      /\ Goto(c, "second")
                      /\ UNCHANGED ledger

SettleLockSecond(c) == /\ At(c, "settle", "second")
                       /\ LockIfPresent(c, Second(tx[c]))
                       /\ Goto(c, "commit")
                       /\ UNCHANGED ledger

(* Mutant: only what was charged is released. *)
FreedCharge(t) == [row EXCEPT ![t.user] = [bal |-> @.bal + (t.amount - t.charge),
                                           res |-> @.res - t.charge]]

(* Mutant: the charge is taken from the reservation a second time. *)
FreedTwice(t) == [row EXCEPT ![t.user] = [bal |-> @.bal + (t.amount - t.charge),
                                          res |-> @.res - t.amount - t.charge]]

(* The refund goes to cu_balance; of the charge itself nothing is taken.   *)
(* CHECK (cu_reserved >= 0) lets the first UPDATE pass or fail.            *)
Freed(t) == [row EXCEPT ![t.user] = [bal |-> @.bal + (t.amount - t.charge),
                                     res |-> @.res - t.amount]]

SettleCommit(c) ==
    LET t == tx[c] IN
    /\ At(c, "settle", "commit")
    /\ row[t.user].res >= t.amount
    /\ row' = IF account[t.worker] = "open"
                THEN [Freed(t) EXCEPT ![t.worker].bal = @ + Payout(t.charge)]
                ELSE Freed(t)
    /\ log' = [log EXCEPT ![t.user].job_refund = @ + (t.amount - t.charge),
                          ![t.worker].job_credit = @ + Payout(t.charge)]
    /\ phase' = [phase EXCEPT ![t.job] = "closed"]
    /\ End(c)
    /\ UNCHANGED <<account, price>>

-----------------------------------------------------------------------------
(* refund_full *)

BeginRefund(c, j) ==
    /\ phase[j] = "reserved"
    /\ Untouched(j)
    /\ Begin(c, [op |-> "refund", step |-> "first", user |-> HirerOf[j],
                 worker |-> HirerOf[j], job |-> j, amount |-> price[j],
                 charge |-> 0, read |-> 0])

(* There is no SELECT ... FOR UPDATE: the UPDATE takes the lock itself. *)
RefundUpdate(c) == /\ At(c, "refund", "first")
                   /\ LockIfPresent(c, tx[c].user)
                   /\ Goto(c, "commit")
                   /\ UNCHANGED ledger

RefundCommit(c) ==
    LET t == tx[c] IN
    /\ At(c, "refund", "commit")
    /\ row[t.user].res >= t.amount
    /\ row' = Freed(t)
    /\ log' = [log EXCEPT ![t.user].job_refund = @ + t.amount]
    /\ phase' = [phase EXCEPT ![t.job] = "closed"]
    /\ End(c)
    /\ UNCHANGED <<account, price>>

-----------------------------------------------------------------------------
Registration == \E u \in User : CreateUser(u) \/ Initialize(u) \/ InitializeFails(u)

Call(c) ==
    \/ \E u \in User, n \in Grant : BeginAllocate(c, u, n)
    \/ \E j \in Job : \/ \E n \in Price : BeginReserve(c, j, n)
                      \/ \E w \in User, charge \in 0..price[j] : BeginSettle(c, j, w, charge)
                      \/ BeginRefund(c, j)

(* What the database does for a client once it is free to. *)
Statement(c) ==
    \/ AllocateRead(c) \/ AllocateCommit(c) \/ NotFound(c)
    \/ ReserveRead(c) \/ ReserveRefused(c) \/ ReserveCommit(c)
    \/ SettleLockFirst(c) \/ SettleLockSecond(c) \/ SettleCommit(c)
    \/ RefundUpdate(c) \/ RefundCommit(c)

Next == Registration \/ \E c \in Client : Call(c) \/ Statement(c) \/ Abort(c)

Spec == Init /\ [][Next]_vars

(* A statement that waits for a row lock gets it: PostgreSQL queues the    *)
(* waiters of a row first come, first served.                              *)
FairSpec == Spec /\ \A c \in Client : SF_vars(Statement(c))

-----------------------------------------------------------------------------
(* Properties *)

(* What is reserved is there, whatever reserve, settle and refund_full do  *)
(* at the same time for several jobs of a hirer: the check of `available'  *)
(* holds until the reservation is committed.                               *)
ReservedWithinBalance == \A u \in User : row[u].res <= row[u].bal

(* The logged transactions that add to a balance.  The job_debit that      *)
(* reserve logs is not among them: nothing ever takes it from cu_balance.  *)
Gains(u) == log[u].allocation + log[u].job_refund + log[u].job_credit

(* Everything a user is logged to have gained is in the balance, and       *)
(* nothing else: no update is lost between the SELECT and the UPDATE of    *)
(* allocate, whatever settles and refunds do to the row meanwhile.         *)
GainsAreLogged == \A u \in User : account[u] = "open" => row[u].bal = Gains(u)

(* "Reserve CUs for a job (moves balance -> reserved)" (engine.rs:105):    *)
(* units move, so that jobs never leave users with more than they were     *)
(* allocated.                                                              *)
UnitsComeFromAllocation ==
    MapThenSumSet(LAMBDA u : row[u].bal, User)
        <= MapThenSumSet(LAMBDA u : log[u].allocation, User)

(* The jobs of a hirer whose reservation is neither settled nor refunded. *)
OpenJobs(u) == {j \in Job : phase[j] = "reserved" /\ HirerOf[j] = u}

Cost(p, jobs) == MapThenSumSet(LAMBDA j : p[j], jobs)

(* What is reserved of a balance is what is reserved for the open jobs of  *)
(* the hirer: no reservation is released twice, left behind, or released   *)
(* in another amount than it was made in.                                  *)
ReservedIsOpenJobs == \A u \in User : row[u].res = Cost(price, OpenJobs(u))

(* The row that the next statement of a client needs. *)
Wanted(t) == IF t.step = "first" THEN First(t) ELSE Second(t)

WaitsFor(c, d) == /\ tx[c] # NoTx
                  /\ tx[c].step \in {"first", "second"}
                  /\ lock[Wanted(tx[c])] = d
                  /\ c # d

(* No operations wait for each other's row locks, however many settle jobs *)
(* between the same users in opposite roles ("to avoid deadlocks").        *)
NoLockCycle ==
    ~\E C \in SUBSET Client :
        C # {} /\ \A c \in C : \E d \in C : WaitsFor(c, d)

Atomic == INSTANCE AtomicLedger WITH
    User <- User, Job <- Job, HirerOf <- HirerOf, Grant <- Grant, Price <- Price,
    account <- account, row <- row, log <- log, phase <- phase, price <- price

(* Every operation takes effect at its COMMIT as if it ran alone. *)
ImplementsAtomicLedger == Atomic!Spec

(* Every operation ends, those of users without a balance row included. *)
TransactionsEnd == \A c \in Client : tx[c] # NoTx ~> tx[c] = NoTx

(* Why these hold: the invariant behind the row locks.  A client holds no  *)
(* lock but those its transaction has asked for, in the order of UUIDs;    *)
LocksHeld ==
    \A c \in Client, u \in User : lock[u] = c =>
        /\ tx[c] # NoTx
        /\ tx[c].step # "first"
        /\ u \in {First(tx[c]), Second(tx[c])}
        /\ tx[c].step = "second" => u = First(tx[c])

(* from the lock on, what was read and checked stays true;                 *)
TxSound(c) ==
    LET t == tx[c]
        Locked(u) == account[u] = "open" => lock[u] = c
    IN tx[c] # NoTx =>
       /\ Registered(t.user) /\ Registered(t.worker)
       /\ t.op # "settle" => t.worker = t.user /\ t.step # "second"
       /\ t.op = "allocate" => t.job = NoJob /\ t.amount \in Grant
       /\ t.op # "allocate" => t.job \in Job /\ t.user = HirerOf[t.job]
       /\ t.op = "reserve" => phase[t.job] = "new" /\ t.amount \in Price
       /\ t.op \in {"settle", "refund"} => /\ phase[t.job] = "reserved"
                                         /\ t.amount = price[t.job]
                                         /\ t.charge <= t.amount
       /\ t.op = "refund" => t.charge = 0
       /\ t.step # "first" => Locked(First(t))
       /\ t.step = "commit" => Locked(Second(t))
       /\ t.op \in {"allocate", "reserve"} /\ t.step = "commit" => account[t.user] = "open"
       /\ t.op = "allocate" /\ t.step = "commit" => t.read = row[t.user].bal
       /\ t.op = "reserve" /\ t.step = "commit" => Available(t.user) >= t.amount

(* a job is in one transaction at a time;                                  *)
OneTxPerJob == \A c, d \in Client :
    /\ c # d /\ tx[c] # NoTx /\ tx[d] # NoTx
    /\ tx[c].job = tx[d].job
    => tx[c].job = NoJob

(* a reservation has a balance row to be in;                               *)
ReservedHaveRow == \A j \in Job : phase[j] = "reserved" => account[HirerOf[j]] = "open"

(* and a row that will be opened later has not been used yet.              *)
UnlessBareLogged == \A u \in User : account[u] # "bare" => row[u].bal = Gains(u)

LedgerInv == /\ TypeOK
             /\ LocksHeld
             /\ \A c \in Client : TxSound(c)
             /\ OneTxPerJob
             /\ ReservedHaveRow
             /\ UnlessBareLogged
             /\ ReservedWithinBalance

(* Only finitely many jobs are ever reserved, so that their sum is defined. *)
OpenJobsFinite == \A u \in User : IsFiniteSet(OpenJobs(u))

BooksInv == ReservedIsOpenJobs /\ OpenJobsFinite
=============================================================================
