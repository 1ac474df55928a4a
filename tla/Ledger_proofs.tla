---------------------------- MODULE Ledger_proofs ----------------------------
(***************************************************************************)
(* What Ledger guarantees for any users, jobs, amounts and clients:        *)
(*   LocksProtect            the inductive invariant LedgerInv;            *)
(*   LedgerTyping            the variables keep their types;               *)
(*   ReservationsAreCovered  nothing is reserved that is not there;        *)
(*   BalancesAreGains        no update of a balance is lost;               *)
(*   NoDeadlock              nobody waits for row locks in a circle;       *)
(*   ReservationsAddUp       what is reserved is what open jobs reserved;  *)
(*   RefinesAtomicLedger     every behaviour is one of AtomicLedger.       *)
(***************************************************************************)
EXTENDS Ledger, FiniteSetTheorems, WellFoundedInduction, TLAPS


(* The payout is an amount, too. *)
LEMMA PayoutIsNat == ASSUME NEW n \in Nat PROVE Payout(n) \in Nat
  BY DEF Payout

(* UUIDs are compared as numbers. *)
LEMMA UuidIsNat == ASSUME NEW u \in User PROVE u \in Nat /\ u <= MaxUuid
  <1>1. u \in 0..MaxUuid
    BY LedgerAssumption
  <1> QED BY <1>1, LedgerAssumption

(* What the assumptions say of the constants, without the bounds. *)
LEMMA Names == NoClient \notin Client /\ NoJob \notin Job /\ HirerOf \in [Job -> User]
  BY LedgerAssumption

(* First and Second are users of the transaction. *)
LEMMA RowsOfTransaction ==
  ASSUME NEW t \in Transaction
  PROVE  /\ First(t) \in User /\ Second(t) \in User
         /\ t.user \in {First(t), Second(t)} /\ t.worker \in {First(t), Second(t)}
         /\ First(t) <= Second(t)
         /\ t.worker = t.user => First(t) = t.user /\ Second(t) = t.user
  <1>1. t.user \in User /\ t.worker \in User
    BY DEF Transaction
  <1>2. t.user \in Nat /\ t.worker \in Nat
    BY <1>1, UuidIsNat
  <1>3. CASE t.user < t.worker
    BY <1>1, <1>2, <1>3 DEF First, Second, HirerFirst
  <1>4. CASE ~(t.user < t.worker)
    BY <1>1, <1>2, <1>4 DEF First, Second, HirerFirst
  <1> QED BY <1>3, <1>4

(* The fields of a user's balance row and log are numbers. *)
LEMMA Amounts ==
  ASSUME LedgerInv, NEW u \in User
  PROVE  /\ row[u] \in [bal : Nat, res : Nat] /\ row[u].bal \in Nat /\ row[u].res \in Nat
         /\ log[u] \in [allocation : Nat, job_debit : Int, job_credit : Nat, job_refund : Nat]
         /\ log[u].allocation \in Nat /\ log[u].job_debit \in Int
         /\ log[u].job_credit \in Nat /\ log[u].job_refund \in Nat
  <1>1. row[u] \in [bal : Nat, res : Nat]
    BY DEF LedgerInv, TypeOK
  <1>2. log[u] \in [allocation : Nat, job_debit : Int, job_credit : Nat, job_refund : Nat]
    BY DEF LedgerInv, TypeOK
  <1> QED BY <1>1, <1>2

-----------------------------------------------------------------------------
(* Steps that keep the promises of the transactions. *)

(* A transaction that ends changed nothing but rows it had locked and its  *)
(* job: what the others have read and checked stays true.                  *)
LEMMA EndKeepsOthers ==
  ASSUME LedgerInv, NEW c \in Client, tx[c] # NoTx, End(c), TypeOK',
         account' = account,
         \A u \in User : row'[u] # row[u] => lock[u] = c,
         \A j \in Job : tx[c].job # j => phase'[j] = phase[j] /\ price'[j] = price[j]
  PROVE  LocksHeld' /\ (\A d \in Client : TxSound(d)') /\ OneTxPerJob'
  <1>1. \A d \in Client : d # c => tx'[d] = tx[d]
    BY DEF End, LedgerInv, TypeOK
  <1>2. tx'[c] = NoTx
    BY DEF End, LedgerInv, TypeOK
  <1>3. \A d \in Client, u \in User : d # c => (lock'[u] = d <=> lock[u] = d)
    BY Names DEF End, LedgerInv, TypeOK
  <1>4. \A u \in User : lock'[u] # c
    BY Names DEF End
  <1>5. LocksHeld'
    BY <1>1, <1>2, <1>3, <1>4 DEF LocksHeld, LedgerInv, First, Second, HirerFirst
  <1>6. ASSUME NEW d \in Client PROVE TxSound(d)'
    <2>1. CASE d = c
      BY <2>1, <1>2 DEF TxSound
    <2>2. CASE d # c /\ tx[d] = NoTx
      BY <2>2, <1>1 DEF TxSound
    <2>3. CASE d # c /\ tx[d] # NoTx
      <3> DEFINE t == tx[d]
      <3>1. t \in Transaction /\ tx'[d] = t /\ TxSound(d)
        BY <2>3, <1>1 DEF LedgerInv, TypeOK
      <3>2. t.op # "allocate" => phase'[t.job] = phase[t.job] /\ price'[t.job] = price[t.job]
        <4>1. t.job \in Job => tx[c].job # t.job
          BY <2>3, Names DEF LedgerInv, OneTxPerJob
        <4> QED BY <4>1, <3>1, <2>3 DEF TxSound
      <3>3. First(t) \in User /\ Second(t) \in User /\ t.user \in User
        BY <3>1, RowsOfTransaction DEF Transaction
      <3>4. \A u \in User : lock[u] = d => lock'[u] = d /\ row'[u] = row[u]
        BY <1>3, <2>3
      <3>5. t.op \in {"allocate", "reserve"} /\ t.step = "commit" => lock[t.user] = d
        <4>1. t.worker = t.user => First(t) = t.user
          BY <3>1, RowsOfTransaction
        <4> QED BY <4>1, <3>1, <2>3 DEF TxSound
      <3> QED BY <3>1, <3>2, <3>3, <3>4, <3>5, <2>3 DEF TxSound, Registered, Available, First, Second, HirerFirst
    <2> QED BY <2>1, <2>2, <2>3
  <1>7. OneTxPerJob'
    BY <1>1, <1>2 DEF OneTxPerJob, LedgerInv
  <1> QED BY <1>5, <1>6, <1>7

(* A client that begins a transaction holds nothing yet. *)
LEMMA BeginKeepsInv ==
  ASSUME LedgerInv, NEW c \in Client, NEW t \in Transaction, Begin(c, t),
         t.step = "first", Registered(t.user), Registered(t.worker),
         t.op # "settle" => t.worker = t.user,
         t.op = "allocate" => t.job = NoJob /\ t.amount \in Grant,
         t.op # "allocate" => t.job \in Job /\ t.user = HirerOf[t.job],
         t.op # "allocate" => Untouched(t.job),
         t.op = "reserve" => phase[t.job] = "new" /\ t.amount \in Price,
         t.op \in {"settle", "refund"} => /\ phase[t.job] = "reserved"
                                         /\ t.amount = price[t.job]
                                         /\ t.charge <= t.amount,
         t.op = "refund" => t.charge = 0
  PROVE  LedgerInv'
  <1>1. TypeOK'
    BY DEF LedgerInv, TypeOK, Begin
  <1>2. tx'[c] = t /\ \A d \in Client : d # c => tx'[d] = tx[d]
    BY DEF LedgerInv, TypeOK, Begin
  <1>3. \A u \in User : lock[u] # c
    BY DEF LedgerInv, LocksHeld, Begin
  <1>4. LocksHeld'
    BY <1>2, <1>3 DEF LedgerInv, LocksHeld, Begin, First, Second, HirerFirst
  <1>5. ASSUME NEW d \in Client PROVE TxSound(d)'
    <2>1. CASE d = c
      BY <2>1, <1>2 DEF TxSound, Begin, Registered
    <2>2. CASE d # c
      BY <2>2, <1>2 DEF LedgerInv, TxSound, Begin, Registered, Available, First, Second, HirerFirst
    <2> QED BY <2>1, <2>2
  <1>6. OneTxPerJob'
    BY <1>2 DEF LedgerInv, OneTxPerJob, Begin, Untouched
  <1>7. ReservedHaveRow' /\ UnlessBareLogged' /\ ReservedWithinBalance'
    BY DEF LedgerInv, ReservedHaveRow, UnlessBareLogged, Gains, ReservedWithinBalance, Begin
  <1> QED BY <1>1, <1>4, <1>5, <1>6, <1>7 DEF LedgerInv

(* A client that takes a lock goes on to its next step; nobody else had    *)
(* the lock.                                                               *)
LEMMA LockKeepsInv ==
  ASSUME LedgerInv, NEW c \in Client, tx[c] # NoTx, UNCHANGED ledger,
         NEW step \in {"second", "commit"}, NEW read \in Nat,
         tx' = [tx EXCEPT ![c] = [@ EXCEPT !.step = step, !.read = read]],
         NEW u \in User, LockIfPresent(c, u),
         tx[c].step = "first" => u = First(tx[c]),
         tx[c].step = "second" => u = Second(tx[c]) /\ step = "commit",
         tx[c].step # "commit",
         step = "second" => tx[c].op = "settle",
         step = "commit" /\ tx[c].step = "first" => tx[c].op # "settle",
         step = "commit" /\ tx[c].op \in {"allocate", "reserve"} => account[tx[c].user] = "open",
         tx[c].op = "allocate" => read = row[tx[c].user].bal,
         tx[c].op = "reserve" => Available(tx[c].user) >= tx[c].amount
  PROVE  LedgerInv'
  <1> DEFINE t == tx[c]
             n == [t EXCEPT !.step = step, !.read = read]
  <1>0. t \in Transaction /\ TxSound(c)
    BY DEF LedgerInv, TypeOK
  <1>1. n \in Transaction /\ n # NoTx
    BY <1>0, NoTxAssumption DEF Transaction
  <1>2. tx'[c] = n /\ \A d \in Client : d # c => tx'[d] = tx[d]
    BY DEF LedgerInv, TypeOK
  <1>3. /\ n.op = t.op /\ n.user = t.user /\ n.worker = t.worker /\ n.job = t.job
        /\ n.amount = t.amount /\ n.charge = t.charge
        /\ n.step = step /\ n.read = read
    BY <1>0 DEF Transaction
  <1>4. First(n) = First(t) /\ Second(n) = Second(t)
    BY <1>3 DEF First, Second, HirerFirst
  <1>5. TypeOK'
    BY <1>1, <1>2 DEF LedgerInv, TypeOK, ledger, LockIfPresent, Lock
  <1>6. \A v \in User : v # u => lock'[v] = lock[v]
    BY DEF LedgerInv, TypeOK, LockIfPresent, Lock
  <1>7. lock'[u] = c \/ lock'[u] = lock[u]
    BY DEF LedgerInv, TypeOK, LockIfPresent, Lock
  <1>8. \A d \in Client : d # c /\ lock[u] = d => lock'[u] = d
    BY Names DEF LedgerInv, TypeOK, LockIfPresent, Lock
  <1>9. account[u] = "open" => lock'[u] = c
    BY DEF LedgerInv, TypeOK, LockIfPresent, Lock
  <1>10. LocksHeld'
    <2> SUFFICES ASSUME NEW d \in Client, NEW v \in User, lock'[v] = d
                 PROVE  /\ tx'[d] # NoTx
                        /\ tx'[d].step # "first"
                        /\ v \in {First(tx'[d]), Second(tx'[d])}
                        /\ tx'[d].step = "second" => v = First(tx'[d])
      BY DEF LocksHeld, First, Second, HirerFirst
    <2>1. CASE d # c
      BY <2>1, <1>2, <1>6, <1>7 DEF LedgerInv, LocksHeld
    <2>2. CASE d = c
      <3>1. v = u \/ lock[v] = c
        BY <2>2, <1>6
      <3>2. u \in {First(t), Second(t)} /\ (step = "second" => u = First(t))
        BY <1>0 DEF Transaction
      <3>3. lock[v] = c => v \in {First(t), Second(t)} /\ t.step = "second"
        BY <1>0 DEF LedgerInv, LocksHeld, Transaction
      <3>4. v \in {First(t), Second(t)} /\ (step = "second" => v = First(t))
        BY <3>1, <3>2, <3>3
      <3>5. tx'[d] = n
        BY <1>2, <2>2
      <3> HIDE DEF n
      <3> QED BY <3>4, <3>5, <1>1, <1>3, <1>4
    <2> QED BY <2>1, <2>2
  <1>11. ASSUME NEW d \in Client PROVE TxSound(d)'
    <2>1. CASE d # c
      BY <2>1, <1>2, <1>6, <1>7, <1>8, RowsOfTransaction
         DEF LedgerInv, TypeOK, TxSound, Registered, Available, First, Second, HirerFirst, ledger
    <2>2. CASE d = c
      <3>1. step = "commit" /\ t.op # "settle" => First(t) = Second(t) /\ First(t) = t.user
        BY <1>0, RowsOfTransaction DEF TxSound
      <3>2. account[First(t)] = "open" => lock'[First(t)] = c
        <4>1. CASE t.step = "first"
          BY <4>1, <1>9
        <4>2. CASE t.step = "second"
          <5>1. account[First(t)] = "open" => lock[First(t)] = c
            BY <4>2, <1>0 DEF TxSound
          <5>2. First(t) \in User
            BY <1>0, RowsOfTransaction
          <5> QED BY <5>1, <5>2, <1>6, <1>7
        <4> QED BY <4>1, <4>2, <1>0 DEF Transaction
      <3>3. step = "commit" => (account[Second(t)] = "open" => lock'[Second(t)] = c)
        BY <3>1, <3>2, <1>9, <1>0 DEF Transaction
      <3> QED BY <2>2, <3>2, <3>3, <1>0, <1>2, <1>3, <1>4
              DEF TxSound, Registered, Available, First, Second, HirerFirst, ledger
    <2> QED BY <2>1, <2>2
  <1>12. OneTxPerJob'
    BY <1>2, <1>3 DEF LedgerInv, OneTxPerJob
  <1>13. ReservedHaveRow' /\ UnlessBareLogged' /\ ReservedWithinBalance'
    BY DEF LedgerInv, ReservedHaveRow, UnlessBareLogged, Gains, ReservedWithinBalance, ledger
  <1> QED BY <1>5, <1>10, <1>11, <1>12, <1>13 DEF LedgerInv

(* A transaction that ends without a COMMIT leaves the ledger as it was. *)
LEMMA EndKeepsInv ==
  ASSUME LedgerInv, NEW c \in Client, tx[c] # NoTx, End(c), UNCHANGED ledger
  PROVE  LedgerInv'
  <1>1. TypeOK'
    BY DEF LedgerInv, TypeOK, End, ledger
  <1>2. LocksHeld' /\ (\A d \in Client : TxSound(d)') /\ OneTxPerJob'
    BY <1>1, EndKeepsOthers DEF ledger
  <1>3. ReservedHaveRow' /\ UnlessBareLogged' /\ ReservedWithinBalance'
    BY DEF LedgerInv, ReservedHaveRow, UnlessBareLogged, Gains, ReservedWithinBalance, ledger
  <1> QED BY <1>1, <1>2, <1>3 DEF LedgerInv

-----------------------------------------------------------------------------
(* The commits *)

(* What a client may rely on when it commits. *)
LEMMA AtCommit ==
  ASSUME LedgerInv, NEW c \in Client, tx[c] # NoTx, tx[c].step = "commit"
  PROVE  /\ tx[c] \in Transaction /\ TxSound(c)
         /\ account[tx[c].user] = "open" => lock[tx[c].user] = c
         /\ account[tx[c].worker] = "open" => lock[tx[c].worker] = c
         /\ tx[c].op # "allocate" => tx[c].job \in Job /\ tx[c].job # NoJob
         /\ tx[c].op \in {"settle", "refund"} => account[tx[c].user] = "open"
  <1>1. tx[c] \in Transaction /\ TxSound(c)
    BY DEF LedgerInv, TypeOK
  <1>2. tx[c].user \in {First(tx[c]), Second(tx[c])} /\ tx[c].worker \in {First(tx[c]), Second(tx[c])}
    BY <1>1, RowsOfTransaction
  <1> QED BY <1>1, <1>2, Names DEF LedgerInv, TxSound, ReservedHaveRow

LEMMA AllocateCommitKeepsInv ==
  ASSUME LedgerInv, NEW c \in Client, AllocateCommit(c)
  PROVE  LedgerInv'
  <1> DEFINE t == tx[c]
  <1>1. /\ t # NoTx /\ t \in Transaction /\ TxSound(c)
        /\ lock[t.user] = c /\ account[t.user] = "open"
        /\ t.read = row[t.user].bal /\ t.user \in User /\ t.amount \in Nat
    BY AtCommit DEF AllocateCommit, At, TxSound, Transaction
  <1>2. /\ row' = [row EXCEPT ![t.user].bal = t.read + t.amount]
        /\ log' = [log EXCEPT ![t.user].allocation = @ + t.amount]
        /\ account' = account /\ phase' = phase /\ price' = price /\ End(c)
    BY DEF AllocateCommit
  <1>3. TypeOK'
    <2>1. t.read + t.amount \in Nat
      BY <1>1 DEF LedgerInv, TypeOK
    <2>2. row' \in [User -> [bal : Nat, res : Nat]]
      BY <1>2, <2>1 DEF LedgerInv, TypeOK
    <2>3. log' \in [User -> [allocation : Nat, job_debit : Int, job_credit : Nat, job_refund : Nat]]
      BY <1>1, <1>2 DEF LedgerInv, TypeOK
    <2>4. tx' \in [Client -> Transaction \cup {NoTx}] /\ lock' \in [User -> Client \cup {NoClient}]
      BY <1>2 DEF LedgerInv, TypeOK, End
    <2> QED BY <1>2, <2>2, <2>3, <2>4 DEF LedgerInv, TypeOK
  <1>4. \A u \in User : u # t.user => row'[u] = row[u] /\ log'[u] = log[u]
    BY <1>2 DEF LedgerInv, TypeOK
  <1>5. /\ row'[t.user].bal = row[t.user].bal + t.amount /\ row'[t.user].res = row[t.user].res
        /\ log'[t.user].allocation = log[t.user].allocation + t.amount
        /\ log'[t.user].job_refund = log[t.user].job_refund
        /\ log'[t.user].job_credit = log[t.user].job_credit
    BY <1>1, <1>2 DEF LedgerInv, TypeOK
  <1>6. LocksHeld' /\ (\A d \in Client : TxSound(d)') /\ OneTxPerJob'
    BY <1>1, <1>2, <1>3, <1>4, EndKeepsOthers
  <1>7. ReservedHaveRow'
    BY <1>2 DEF LedgerInv, ReservedHaveRow
  <1>8. UnlessBareLogged'
    BY <1>1, <1>2, <1>4, <1>5 DEF LedgerInv, TypeOK, UnlessBareLogged, Gains
  <1>9. ReservedWithinBalance'
    BY <1>1, <1>4, <1>5 DEF LedgerInv, TypeOK, ReservedWithinBalance
  <1> QED BY <1>3, <1>6, <1>7, <1>8, <1>9 DEF LedgerInv

LEMMA ReserveCommitKeepsInv ==
  ASSUME LedgerInv, NEW c \in Client, ReserveCommit(c)
  PROVE  LedgerInv'
  <1> DEFINE t == tx[c]
  <1>1. /\ t # NoTx /\ t \in Transaction /\ TxSound(c)
        /\ lock[t.user] = c /\ account[t.user] = "open" /\ t.user = HirerOf[t.job]
        /\ row[t.user].bal - row[t.user].res >= t.amount
        /\ t.user \in User /\ t.amount \in Nat /\ t.job \in Job
    BY AtCommit DEF ReserveCommit, At, TxSound, Transaction, Available
  <1>2. /\ row' = [row EXCEPT ![t.user].res = @ + t.amount]
        /\ log' = [log EXCEPT ![t.user].job_debit = @ - t.amount]
        /\ phase' = [phase EXCEPT ![t.job] = "reserved"]
        /\ price' = [price EXCEPT ![t.job] = t.amount]
        /\ account' = account /\ End(c)
    BY DEF ReserveCommit
  <1>3. TypeOK'
    <2>1. row[t.user] \in [bal : Nat, res : Nat] /\ row[t.user].res + t.amount \in Nat
      BY <1>1, Amounts
    <2>2. row' \in [User -> [bal : Nat, res : Nat]]
      BY <1>1, <1>2, <2>1 DEF LedgerInv, TypeOK
    <2>3. log[t.user].job_debit - t.amount \in Int
      BY <1>1, Amounts
    <2>4. log' \in [User -> [allocation : Nat, job_debit : Int, job_credit : Nat, job_refund : Nat]]
      BY <1>2, <2>3 DEF LedgerInv, TypeOK
    <2> QED BY <1>1, <1>2, <2>2, <2>4 DEF LedgerInv, TypeOK, End
  <1>4. \A u \in User : u # t.user => row'[u] = row[u] /\ log'[u] = log[u]
    BY <1>2 DEF LedgerInv, TypeOK
  <1>5. /\ row'[t.user].bal = row[t.user].bal /\ row'[t.user].res = row[t.user].res + t.amount
        /\ log'[t.user].allocation = log[t.user].allocation
        /\ log'[t.user].job_refund = log[t.user].job_refund
        /\ log'[t.user].job_credit = log[t.user].job_credit
    BY <1>1, <1>2 DEF LedgerInv, TypeOK
  <1>6. \A j \in Job : t.job # j => phase'[j] = phase[j] /\ price'[j] = price[j]
    BY <1>2 DEF LedgerInv, TypeOK
  <1>7. LocksHeld' /\ (\A d \in Client : TxSound(d)') /\ OneTxPerJob'
    BY <1>1, <1>2, <1>3, <1>4, <1>6, EndKeepsOthers
  <1>8. ReservedHaveRow'
    BY <1>1, <1>2, <1>6 DEF LedgerInv, ReservedHaveRow
  <1>9. UnlessBareLogged'
    BY <1>1, <1>2, <1>4, <1>5 DEF LedgerInv, TypeOK, UnlessBareLogged, Gains
  <1>10. ReservedWithinBalance'
    BY <1>1, <1>4, <1>5 DEF LedgerInv, TypeOK, ReservedWithinBalance
  <1> QED BY <1>3, <1>7, <1>8, <1>9, <1>10 DEF LedgerInv

(* What settle and refund_full do to the row of the hirer. *)
LEMMA FreedRow ==
  ASSUME LedgerInv, NEW t \in Transaction, row[t.user].res >= t.amount, t.charge <= t.amount
  PROVE  /\ Freed(t) \in [User -> [bal : Nat, res : Nat]]
         /\ \A u \in User : u # t.user => Freed(t)[u] = row[u]
         /\ Freed(t)[t.user].bal = row[t.user].bal + (t.amount - t.charge)
         /\ Freed(t)[t.user].res = row[t.user].res - t.amount
  <1>1. t.user \in User /\ t.amount \in Nat /\ t.charge \in Nat
    BY DEF Transaction
  <1>2. row[t.user].bal \in Nat /\ row[t.user].res \in Nat
    BY <1>1 DEF LedgerInv, TypeOK
  <1>3. row[t.user].bal + (t.amount - t.charge) \in Nat /\ row[t.user].res - t.amount \in Nat
    BY <1>1, <1>2
  <1> QED BY <1>1, <1>3 DEF Freed, LedgerInv, TypeOK

LEMMA RefundCommitKeepsInv ==
  ASSUME LedgerInv, NEW c \in Client, RefundCommit(c)
  PROVE  LedgerInv'
  <1> DEFINE t == tx[c]
  <1>1. /\ t # NoTx /\ t \in Transaction /\ TxSound(c)
        /\ lock[t.user] = c /\ account[t.user] = "open"
        /\ t.charge = 0 /\ t.charge <= t.amount /\ row[t.user].res >= t.amount
        /\ t.user \in User /\ t.amount \in Nat /\ t.job \in Job
    BY AtCommit DEF RefundCommit, At, TxSound, Transaction
  <1>2. /\ row' = Freed(t)
        /\ log' = [log EXCEPT ![t.user].job_refund = @ + t.amount]
        /\ phase' = [phase EXCEPT ![t.job] = "closed"]
        /\ price' = price /\ account' = account /\ End(c)
    BY DEF RefundCommit
  <1>0. /\ row' \in [User -> [bal : Nat, res : Nat]]
        /\ \A u \in User : u # t.user => row'[u] = row[u]
        /\ row'[t.user].bal = row[t.user].bal + (t.amount - t.charge)
        /\ row'[t.user].res = row[t.user].res - t.amount
    BY <1>1, <1>2, FreedRow
  <1>3. TypeOK'
    <2>1. log' \in [User -> [allocation : Nat, job_debit : Int, job_credit : Nat, job_refund : Nat]]
      BY <1>1, <1>2 DEF LedgerInv, TypeOK
    <2> QED BY <1>0, <1>2, <2>1 DEF LedgerInv, TypeOK, End
  <1>4. \A u \in User : u # t.user => row'[u] = row[u] /\ log'[u] = log[u]
    BY <1>0, <1>2 DEF LedgerInv, TypeOK
  <1>5. /\ row'[t.user].bal = row[t.user].bal + t.amount
        /\ row'[t.user].res = row[t.user].res - t.amount
    BY <1>0, <1>1
  <1>6. /\ log'[t.user].allocation = log[t.user].allocation
        /\ log'[t.user].job_refund = log[t.user].job_refund + t.amount
        /\ log'[t.user].job_credit = log[t.user].job_credit
    BY <1>1, <1>2 DEF LedgerInv, TypeOK
  <1>7. \A j \in Job : t.job # j => phase'[j] = phase[j] /\ price'[j] = price[j]
    BY <1>2 DEF LedgerInv, TypeOK
  <1>8. LocksHeld' /\ (\A d \in Client : TxSound(d)') /\ OneTxPerJob'
    BY <1>1, <1>2, <1>3, <1>4, <1>7, EndKeepsOthers
  <1>9. ReservedHaveRow'
    BY <1>2 DEF LedgerInv, TypeOK, ReservedHaveRow
  <1>10. UnlessBareLogged'
    BY <1>1, <1>2, <1>4, <1>5, <1>6 DEF LedgerInv, TypeOK, UnlessBareLogged, Gains
  <1>11. ReservedWithinBalance'
    BY <1>1, <1>4, <1>5 DEF LedgerInv, TypeOK, ReservedWithinBalance
  <1> QED BY <1>3, <1>8, <1>9, <1>10, <1>11 DEF LedgerInv

(* settle changes two rows, or one twice when the hirer is the worker. *)
LEMMA SettleCommitKeepsInv ==
  ASSUME LedgerInv, NEW c \in Client, SettleCommit(c)
  PROVE  LedgerInv'
  <1> DEFINE t == tx[c]
             paid == IF account[t.worker] = "open" THEN Payout(t.charge) ELSE 0
             refund == t.amount - t.charge
  <1>1. /\ t # NoTx /\ t \in Transaction /\ TxSound(c)
        /\ lock[t.user] = c /\ account[t.user] = "open"
        /\ account[t.worker] = "open" => lock[t.worker] = c
        /\ account[t.worker] \in {"open", "bare"}
        /\ t.charge <= t.amount /\ row[t.user].res >= t.amount
        /\ t.user \in User /\ t.worker \in User /\ t.amount \in Nat /\ t.charge \in Nat
        /\ t.job \in Job
    BY AtCommit DEF SettleCommit, At, TxSound, Transaction, Registered
  <1>2. /\ row' = IF account[t.worker] = "open"
                    THEN [Freed(t) EXCEPT ![t.worker].bal = @ + Payout(t.charge)]
                    ELSE Freed(t)
        /\ log' = [log EXCEPT ![t.user].job_refund = @ + refund,
                              ![t.worker].job_credit = @ + Payout(t.charge)]
        /\ phase' = [phase EXCEPT ![t.job] = "closed"]
        /\ price' = price /\ account' = account /\ End(c)
    BY DEF SettleCommit
  <1>3. Payout(t.charge) \in Nat /\ paid \in Nat /\ refund \in Nat
    BY <1>1, PayoutIsNat
  <1>4. /\ Freed(t) \in [User -> [bal : Nat, res : Nat]]
        /\ \A u \in User : u # t.user => Freed(t)[u] = row[u]
        /\ Freed(t)[t.user].bal = row[t.user].bal + refund
        /\ Freed(t)[t.user].res = row[t.user].res - t.amount
    BY <1>1, FreedRow
  <1>5. /\ row' \in [User -> [bal : Nat, res : Nat]]
        /\ \A u \in User : u # t.worker => row'[u] = Freed(t)[u]
        /\ row'[t.worker].bal = Freed(t)[t.worker].bal + paid
        /\ row'[t.worker].res = Freed(t)[t.worker].res
        /\ account[t.worker] # "open" => row' = Freed(t)
    <2> HIDE DEF refund
    <2>1. CASE account[t.worker] = "open"
      <3>1. Freed(t)[t.worker].bal \in Nat
        BY <1>1, <1>4
      <3>2. row' = [Freed(t) EXCEPT ![t.worker].bal = @ + Payout(t.charge)]
        BY <1>2, <2>1
      <3>3. paid = Payout(t.charge)
        BY <2>1
      <3> QED BY <1>1, <1>3, <1>4, <2>1, <3>1, <3>2, <3>3
    <2>2. CASE account[t.worker] # "open"
      <3>1. row' = Freed(t) /\ paid = 0
        BY <1>2, <2>2
      <3>2. Freed(t)[t.worker].bal \in Nat
        BY <1>1, <1>4
      <3> QED BY <1>4, <3>1, <3>2
    <2> QED BY <2>1, <2>2
  <1>6. /\ log' \in [User -> [allocation : Nat, job_debit : Int, job_credit : Nat, job_refund : Nat]]
        /\ \A u \in User : /\ log'[u].allocation = log[u].allocation
                           /\ log'[u].job_refund = log[u].job_refund
                                                   + (IF u = t.user THEN refund ELSE 0)
                           /\ log'[u].job_credit = log[u].job_credit
                                                   + (IF u = t.worker THEN Payout(t.charge) ELSE 0)
    <2> HIDE DEF refund
    <2> DEFINE once == [log EXCEPT ![t.user].job_refund = @ + refund]
               Sums == [allocation : Nat, job_debit : Int, job_credit : Nat, job_refund : Nat]
    <2>1. log \in [User -> Sums]
      BY DEF LedgerInv, TypeOK
    <2>2. log' = [once EXCEPT ![t.worker].job_credit = @ + Payout(t.charge)]
      BY <1>2
    <2>3. /\ once \in [User -> Sums]
          /\ \A u \in User : u # t.user => once[u] = log[u]
          /\ once[t.user].job_refund = log[t.user].job_refund + refund
          /\ once[t.user].allocation = log[t.user].allocation
          /\ once[t.user].job_credit = log[t.user].job_credit
      <3>1. log[t.user].job_refund + refund \in Nat
        BY <1>1, <1>3, Amounts
      <3> QED BY <1>1, <2>1, <3>1
    <2> HIDE DEF once
    <2>4. /\ log' \in [User -> Sums]
          /\ \A u \in User : u # t.worker => log'[u] = once[u]
          /\ log'[t.worker].job_credit = once[t.worker].job_credit + Payout(t.charge)
          /\ log'[t.worker].allocation = once[t.worker].allocation
          /\ log'[t.worker].job_refund = once[t.worker].job_refund
      <3>1. once[t.worker].job_credit + Payout(t.charge) \in Nat
        BY <1>1, <1>3, <2>3
      <3> QED BY <1>1, <2>2, <2>3, <3>1
    <2>5. \A u \in User : /\ log[u].job_refund \in Nat /\ log[u].job_credit \in Nat
      BY Amounts
    <2> QED BY <1>1, <1>3, <2>3, <2>4, <2>5
  <1>7. TypeOK'
    BY <1>1, <1>2, <1>5, <1>6 DEF LedgerInv, TypeOK, End
  <1>8. \A u \in User : row'[u] # row[u] => lock[u] = c
    BY <1>1, <1>4, <1>5
  <1>9. \A j \in Job : t.job # j => phase'[j] = phase[j] /\ price'[j] = price[j]
    BY <1>2 DEF LedgerInv, TypeOK
  <1>10. LocksHeld' /\ (\A d \in Client : TxSound(d)') /\ OneTxPerJob'
    BY <1>1, <1>2, <1>7, <1>8, <1>9, EndKeepsOthers
  <1>11. ReservedHaveRow'
    BY <1>2 DEF LedgerInv, TypeOK, ReservedHaveRow
  <1>12. \A u \in User :
           /\ row'[u].bal = row[u].bal + (IF u = t.user THEN refund ELSE 0)
                                       + (IF u = t.worker THEN paid ELSE 0)
           /\ row'[u].res = row[u].res - (IF u = t.user THEN t.amount ELSE 0)
    <2> SUFFICES ASSUME NEW u \in User
                 PROVE  /\ row'[u].bal = row[u].bal + (IF u = t.user THEN refund ELSE 0)
                                                     + (IF u = t.worker THEN paid ELSE 0)
                        /\ row'[u].res = row[u].res - (IF u = t.user THEN t.amount ELSE 0)
      OBVIOUS
    <2>1. row[u].bal \in Nat /\ row[u].res \in Nat /\ Freed(t)[u].bal \in Nat
      BY <1>4, Amounts
    <2> HIDE DEF refund, paid
    <2>2. CASE u = t.user
      BY <2>2, <1>3, <1>4, <1>5, <2>1
    <2>3. CASE u # t.user
      <3>1. Freed(t)[u] = row[u]
        BY <1>4, <2>3
      <3> QED BY <2>3, <3>1, <1>3, <1>5, <2>1
    <2> QED BY <2>2, <2>3
  <1>13. UnlessBareLogged'
    <2> SUFFICES ASSUME NEW u \in User, account[u] # "bare"
                 PROVE  row'[u].bal = log'[u].allocation + log'[u].job_refund + log'[u].job_credit
      BY <1>2 DEF UnlessBareLogged, Gains
    <2>1. /\ row[u].bal = log[u].allocation + log[u].job_refund + log[u].job_credit
          /\ row[u].bal \in Nat /\ log[u].allocation \in Nat
          /\ log[u].job_refund \in Nat /\ log[u].job_credit \in Nat
      BY DEF LedgerInv, TypeOK, UnlessBareLogged, Gains
    <2>2. u = t.worker => paid = Payout(t.charge)
      BY <1>1
    <2> HIDE DEF refund, paid
    <2> QED BY <1>3, <1>6, <1>12, <2>1, <2>2
  <1>14. ReservedWithinBalance'
    <2> SUFFICES ASSUME NEW u \in User PROVE row'[u].res <= row'[u].bal
      BY DEF ReservedWithinBalance
    <2>1. row[u].bal \in Nat /\ row[u].res \in Nat /\ row[u].res <= row[u].bal
      BY DEF LedgerInv, TypeOK, ReservedWithinBalance
    <2> HIDE DEF refund, paid
    <2> QED BY <1>1, <1>3, <1>12, <2>1
  <1> QED BY <1>7, <1>10, <1>11, <1>13, <1>14 DEF LedgerInv

-----------------------------------------------------------------------------
(* Every step keeps the invariant. *)

LEMMA InitInv == Init => LedgerInv
  <1> SUFFICES ASSUME Init PROVE LedgerInv
    OBVIOUS
  <1>1. TypeOK
    BY DEF Init, TypeOK
  <1>2. LocksHeld
    BY Names DEF Init, LocksHeld
  <1>3. \A c \in Client : TxSound(c)
    BY DEF Init, TxSound
  <1>4. OneTxPerJob /\ ReservedHaveRow /\ UnlessBareLogged /\ ReservedWithinBalance
    BY Names DEF Init, OneTxPerJob, ReservedHaveRow, UnlessBareLogged, Gains, ReservedWithinBalance
  <1> QED BY <1>1, <1>2, <1>3, <1>4 DEF LedgerInv

(* Registrations concern users who are in no transaction yet. *)
LEMMA RegistrationKeepsInv ==
  ASSUME LedgerInv, Registration
  PROVE  LedgerInv'
  <1>1. PICK u \in User :
             \/ account[u] = "none" /\ account' = [account EXCEPT ![u] = "registering"]
             \/ account[u] = "registering" /\ account' = [account EXCEPT ![u] = "open"]
             \/ account[u] = "registering" /\ account' = [account EXCEPT ![u] = "bare"]
    BY DEF Registration, CreateUser, Initialize, InitializeFails
  <1>2. UNCHANGED <<row, log, phase, price, lock, tx>>
    BY DEF Registration, CreateUser, Initialize, InitializeFails
  <1>3. \A v \in User : v # u => account'[v] = account[v]
    BY <1>1 DEF LedgerInv, TypeOK
  <1>4. account[u] # "bare" /\ account[u] # "open"
    BY <1>1
  <1>5. TypeOK'
    BY <1>1, <1>2 DEF LedgerInv, TypeOK
  <1>6. LocksHeld' /\ OneTxPerJob' /\ ReservedWithinBalance'
    BY <1>2 DEF LedgerInv, LocksHeld, OneTxPerJob, ReservedWithinBalance, First, Second, HirerFirst
  <1>7. ASSUME NEW c \in Client PROVE TxSound(c)'
    <2>1. CASE tx[c] = NoTx
      BY <2>1, <1>2 DEF TxSound
    <2>2. CASE tx[c] # NoTx
      <3>1. tx[c] \in Transaction /\ TxSound(c)
        BY <2>2 DEF LedgerInv, TypeOK
      <3>2. tx[c].user # u /\ tx[c].worker # u
        BY <2>2, <3>1, <1>4 DEF TxSound, Registered
      <3>3. account'[First(tx[c])] = account[First(tx[c])] /\ account'[Second(tx[c])] = account[Second(tx[c])]
        BY <3>1, <3>2, <1>3, RowsOfTransaction DEF First, Second, HirerFirst
      <3>4. account'[tx[c].user] = account[tx[c].user] /\ account'[tx[c].worker] = account[tx[c].worker]
        BY <3>1, <3>2, <1>3 DEF Transaction
      <3> QED BY <2>2, <3>1, <3>3, <3>4, <1>2 DEF TxSound, Registered, Available, First, Second, HirerFirst
    <2> QED BY <2>1, <2>2
  <1>8. ReservedHaveRow'
    BY <1>2, <1>3, <1>4, Names DEF LedgerInv, ReservedHaveRow
  <1>9. UnlessBareLogged'
    BY <1>2, <1>3, <1>4 DEF LedgerInv, UnlessBareLogged, Gains
  <1> QED BY <1>5, <1>6, <1>7, <1>8, <1>9 DEF LedgerInv

LEMMA CallKeepsInv ==
  ASSUME LedgerInv, NEW c \in Client, Call(c)
  PROVE  LedgerInv'
  <1>1. ASSUME NEW u \in User, NEW n \in Grant, BeginAllocate(c, u, n) PROVE LedgerInv'
    <2> DEFINE t == [op |-> "allocate", step |-> "first", user |-> u, worker |-> u,
                     job |-> NoJob, amount |-> n, charge |-> 0, read |-> 0]
    <2>1. n \in Nat
      BY LedgerAssumption
    <2>2. t \in Transaction
      BY <2>1 DEF Transaction
    <2>3. Begin(c, t) /\ Registered(u)
      BY <1>1 DEF BeginAllocate
    <2> QED BY <2>2, <2>3, BeginKeepsInv
  <1>2. ASSUME NEW j \in Job, NEW n \in Price, BeginReserve(c, j, n) PROVE LedgerInv'
    <2> DEFINE t == [op |-> "reserve", step |-> "first", user |-> HirerOf[j],
                     worker |-> HirerOf[j], job |-> j, amount |-> n, charge |-> 0, read |-> 0]
    <2>1. n \in Nat /\ HirerOf[j] \in User
      BY LedgerAssumption
    <2>2. t \in Transaction
      BY <2>1 DEF Transaction
    <2>3. Begin(c, t) /\ Registered(HirerOf[j]) /\ Untouched(j) /\ phase[j] = "new"
      BY <1>2 DEF BeginReserve
    <2> QED BY <2>2, <2>3, BeginKeepsInv
  <1>3. ASSUME NEW j \in Job, phase[j] = "reserved"
        PROVE  HirerOf[j] \in User /\ Registered(HirerOf[j]) /\ price[j] \in Nat
    BY <1>3, Names DEF LedgerInv, TypeOK, ReservedHaveRow, Registered
  <1>4. ASSUME NEW j \in Job, NEW w \in User, NEW charge \in 0..price[j],
               BeginSettle(c, j, w, charge)
        PROVE  LedgerInv'
    <2> DEFINE t == [op |-> "settle", step |-> "first", user |-> HirerOf[j], worker |-> w,
                     job |-> j, amount |-> price[j], charge |-> charge, read |-> 0]
    <2>1. phase[j] = "reserved" /\ Registered(w) /\ Untouched(j) /\ Begin(c, t) /\ charge <= price[j]
      BY <1>4 DEF BeginSettle
    <2>2. t \in Transaction
      BY <1>3, <2>1 DEF Transaction
    <2> QED BY <1>3, <2>1, <2>2, BeginKeepsInv
  <1>5. ASSUME NEW j \in Job, BeginRefund(c, j) PROVE LedgerInv'
    <2> DEFINE t == [op |-> "refund", step |-> "first", user |-> HirerOf[j],
                     worker |-> HirerOf[j], job |-> j, amount |-> price[j],
                     charge |-> 0, read |-> 0]
    <2>1. phase[j] = "reserved" /\ Untouched(j) /\ Begin(c, t)
      BY <1>5 DEF BeginRefund
    <2>2. t \in Transaction /\ 0 <= price[j]
      BY <1>3, <2>1 DEF Transaction
    <2> QED BY <1>3, <2>1, <2>2, BeginKeepsInv
  <1> QED BY <1>1, <1>2, <1>4, <1>5 DEF Call

(* Goto leaves the value that was read alone. *)
LEMMA GotoForm ==
  ASSUME LedgerInv, NEW c \in Client, tx[c] # NoTx,
         NEW step \in {"second", "commit"}, Goto(c, step)
  PROVE  /\ tx[c] \in Transaction /\ tx[c].read \in Nat
         /\ tx' = [tx EXCEPT ![c] = [@ EXCEPT !.step = step, !.read = tx[c].read]]
  <1>1. tx[c] \in Transaction /\ tx[c].read \in Nat
    BY DEF LedgerInv, TypeOK, Transaction
  <1>2. [tx[c] EXCEPT !.step = step] = [tx[c] EXCEPT !.step = step, !.read = tx[c].read]
    BY <1>1 DEF Transaction
  <1> QED BY <1>1, <1>2 DEF Goto

LEMMA StatementKeepsInv ==
  ASSUME LedgerInv, NEW c \in Client, Statement(c)
  PROVE  LedgerInv'
  <1> DEFINE t == tx[c]
  <1>1. ASSUME t # NoTx
        PROVE  /\ t \in Transaction /\ TxSound(c) /\ t.user \in User
               /\ First(t) \in User /\ Second(t) \in User
               /\ t.op # "settle" => First(t) = t.user /\ Second(t) = t.user
    BY <1>1, RowsOfTransaction DEF LedgerInv, TypeOK, TxSound, Transaction
  <1>2. CASE AllocateRead(c)
    <2>1. /\ t # NoTx /\ t.op = "allocate" /\ t.step = "first" /\ account[t.user] = "open"
          /\ Lock(c, t.user) /\ UNCHANGED ledger
          /\ tx' = [tx EXCEPT ![c] = [@ EXCEPT !.step = "commit", !.read = row[t.user].bal]]
      BY <1>2 DEF AllocateRead, At
    <2>2. row[t.user].bal \in Nat
      BY <1>1, <2>1, Amounts
    <2>3. LockIfPresent(c, t.user)
      BY <2>1 DEF LockIfPresent
    <2> QED BY <1>1, <2>1, <2>2, <2>3, LockKeepsInv
  <1>3. CASE ReserveRead(c)
    <2>1. /\ t # NoTx /\ t.op = "reserve" /\ t.step = "first" /\ account[t.user] = "open"
          /\ Available(t.user) >= t.amount
          /\ Lock(c, t.user) /\ UNCHANGED ledger /\ Goto(c, "commit")
      BY <1>3 DEF ReserveRead, At
    <2>2. LockIfPresent(c, t.user)
      BY <2>1 DEF LockIfPresent
    <2> QED BY <1>1, <2>1, <2>2, GotoForm, LockKeepsInv
  <1>4. CASE SettleLockFirst(c)
    <2>1. /\ t # NoTx /\ t.op = "settle" /\ t.step = "first"
          /\ LockIfPresent(c, First(t)) /\ UNCHANGED ledger /\ Goto(c, "second")
      BY <1>4 DEF SettleLockFirst, At
    <2> QED BY <1>1, <2>1, GotoForm, LockKeepsInv
  <1>5. CASE SettleLockSecond(c)
    <2>1. /\ t # NoTx /\ t.op = "settle" /\ t.step = "second"
          /\ LockIfPresent(c, Second(t)) /\ UNCHANGED ledger /\ Goto(c, "commit")
      BY <1>5 DEF SettleLockSecond, At
    <2> QED BY <1>1, <2>1, GotoForm, LockKeepsInv
  <1>6. CASE RefundUpdate(c)
    <2>1. /\ t # NoTx /\ t.op = "refund" /\ t.step = "first"
          /\ LockIfPresent(c, t.user) /\ UNCHANGED ledger /\ Goto(c, "commit")
      BY <1>6 DEF RefundUpdate, At
    <2> QED BY <1>1, <2>1, GotoForm, LockKeepsInv
  <1>7. CASE NotFound(c) \/ ReserveRefused(c)
    BY <1>7, EndKeepsInv DEF NotFound, ReserveRefused, At
  <1>8. CASE AllocateCommit(c)
    BY <1>8, AllocateCommitKeepsInv
  <1>9. CASE ReserveCommit(c)
    BY <1>9, ReserveCommitKeepsInv
  <1>10. CASE SettleCommit(c)
    BY <1>10, SettleCommitKeepsInv
  <1>11. CASE RefundCommit(c)
    BY <1>11, RefundCommitKeepsInv
  <1> QED BY <1>2, <1>3, <1>4, <1>5, <1>6, <1>7, <1>8, <1>9, <1>10, <1>11 DEF Statement

LEMMA StutterKeepsInv ==
  ASSUME LedgerInv, UNCHANGED vars
  PROVE  LedgerInv'
  BY DEF LedgerInv, TypeOK, LocksHeld, TxSound, OneTxPerJob, ReservedHaveRow, UnlessBareLogged, Gains,
         ReservedWithinBalance, First, Second, HirerFirst, Registered, Available, vars

LEMMA NextKeepsInv == LedgerInv /\ [Next]_vars => LedgerInv'
  <1> SUFFICES ASSUME LedgerInv, [Next]_vars PROVE LedgerInv'
    OBVIOUS
  <1>1. ASSUME NEW c \in Client, Abort(c) PROVE LedgerInv'
    BY <1>1, EndKeepsInv DEF Abort
  <1> QED BY <1>1, RegistrationKeepsInv, CallKeepsInv, StatementKeepsInv, StutterKeepsInv DEF Next

(* The invariant behind the row locks: whoever has read a balance under    *)
(* its lock, or found enough available, may still rely on it when it       *)
(* commits, for any number of clients in any operations.                   *)
THEOREM LocksProtect == Spec => []LedgerInv
  <1> QED BY InitInv, NextKeepsInv, PTL DEF Spec

(* The variables keep their types; balances and reservations are never     *)
(* negative, so the CHECK constraints never fail for want of a lock.       *)
THEOREM LedgerTyping == Spec => []TypeOK
  <1>1. LedgerInv => TypeOK
    BY DEF LedgerInv
  <1> QED BY <1>1, LocksProtect, PTL

(* Nothing is reserved that is not there. *)
THEOREM ReservationsAreCovered == Spec => []ReservedWithinBalance
  <1>1. LedgerInv => ReservedWithinBalance
    BY DEF LedgerInv
  <1> QED BY <1>1, LocksProtect, PTL

(* No update of a balance is lost: it is the sum of the allocations, the   *)
(* refunds and the credits that are logged.  The job_debits of reserve are *)
(* logged too, but never taken from the balance.                           *)
THEOREM BalancesAreGains == Spec => []GainsAreLogged
  <1>1. LedgerInv => GainsAreLogged
    BY DEF LedgerInv, UnlessBareLogged, GainsAreLogged
  <1> QED BY <1>1, LocksProtect, PTL

-----------------------------------------------------------------------------
(* Deadlock *)

(* A set of numbers has a least one. *)
LEMMA LeastNumber ==
  ASSUME NEW T, T \subseteq Nat, T # {}
  PROVE  \E n \in T : \A m \in T : n <= m
  <1>1. PICK n \in T : \A m \in T : ~(<<m, n>> \in OpToRel(<, Nat))
    BY NatLessThanWellFounded, WFMin
  <1>2. ASSUME NEW m \in T PROVE n <= m
    <2>1. m \in Nat /\ n \in Nat /\ ~(m < n)
      BY <1>1 DEF OpToRel
    <2> QED BY <2>1
  <1> QED BY <1>2

(* Who is waited for wants a greater row than who waits. *)
LEMMA WaitsUpwards ==
  ASSUME LedgerInv, NEW c \in Client, NEW d \in Client, NEW e \in Client,
         WaitsFor(c, d), WaitsFor(d, e)
  PROVE  /\ Wanted(tx[c]) \in User /\ Wanted(tx[d]) \in User
         /\ Wanted(tx[c]) < Wanted(tx[d])
  <1>1. tx[c] \in Transaction /\ tx[d] \in Transaction
    BY DEF WaitsFor, LedgerInv, TypeOK
  <1>2. Wanted(tx[c]) \in User /\ Wanted(tx[d]) \in User
    BY <1>1, RowsOfTransaction DEF Wanted
  <1>3. lock[Wanted(tx[c])] = d /\ lock[Wanted(tx[d])] # d
    BY DEF WaitsFor
  <1>4. tx[d].step = "second" /\ Wanted(tx[c]) = First(tx[d])
    BY <1>2, <1>3 DEF WaitsFor, LedgerInv, LocksHeld
  <1>5. Wanted(tx[d]) = Second(tx[d])
    BY <1>4 DEF Wanted
  <1>6. Wanted(tx[c]) <= Wanted(tx[d]) /\ Wanted(tx[c]) # Wanted(tx[d])
    BY <1>1, <1>3, <1>4, <1>5, RowsOfTransaction
  <1> QED BY <1>2, <1>6, UuidIsNat

(* The operations never wait for each other in a circle, of any length:    *)
(* along a circle the wanted UUIDs would grow without end.                 *)
THEOREM NoDeadlock == Spec => []NoLockCycle
  <1>1. ASSUME LedgerInv PROVE NoLockCycle
    <2> SUFFICES ASSUME NEW C \in SUBSET Client, C # {},
                        \A c \in C : \E d \in C : WaitsFor(c, d)
                 PROVE  FALSE
      BY DEF NoLockCycle
    <2> DEFINE Left(c) == MaxUuid - Wanted(tx[c])
               T == {Left(c) : c \in C}
    <2>1. \A c, d \in C : WaitsFor(c, d) => /\ Left(c) \in Nat /\ Left(d) \in Nat
                                            /\ Left(d) < Left(c)
      <3> SUFFICES ASSUME NEW c \in C, NEW d \in C, WaitsFor(c, d)
                   PROVE  Left(c) \in Nat /\ Left(d) \in Nat /\ Left(d) < Left(c)
        OBVIOUS
      <3>1. PICK e \in C : WaitsFor(d, e)
        OBVIOUS
      <3>2. /\ Wanted(tx[c]) \in User /\ Wanted(tx[d]) \in User
            /\ Wanted(tx[c]) < Wanted(tx[d])
        BY <1>1, <3>1, WaitsUpwards
      <3>3. /\ Wanted(tx[c]) \in Nat /\ Wanted(tx[c]) <= MaxUuid
            /\ Wanted(tx[d]) \in Nat /\ Wanted(tx[d]) <= MaxUuid
        BY <3>2, UuidIsNat
      <3>4. MaxUuid \in Nat
        BY LedgerAssumption
      <3> QED BY <3>2, <3>3, <3>4
    <2>2. T \subseteq Nat /\ T # {}
      BY <2>1
    <2>3. PICK x \in T : \A y \in T : x <= y
      <3> HIDE DEF T
      <3> QED BY <2>2, LeastNumber
    <2>4. PICK c \in C : x = Left(c)
      BY <2>3
    <2>5. PICK d \in C : WaitsFor(c, d)
      OBVIOUS
    <2>6. Left(d) \in T /\ Left(d) \in Nat /\ x \in Nat /\ Left(d) < x
      BY <2>1, <2>4, <2>5
    <2> QED BY <2>3, <2>6
  <1> QED BY <1>1, LocksProtect, PTL

-----------------------------------------------------------------------------
(* Sums.  MapThenSumSet takes the elements of a set in the order of CHOOSE; *)
(* over a finite set the order makes no difference.                        *)

(* A way to add p up over the subsets of S, in whatever order. *)
Additive(p, S, g) ==
  /\ g \in [SUBSET S -> Nat]
  /\ g[{}] = 0
  /\ \A s \in SUBSET S : \A x \in s : g[s] = p[x] + g[s \ {x}]

(* What the sum computes: the elements in the order of CHOOSE. *)
Chosen(s) == CHOOSE x \in s : TRUE
InOrder(p, S, g) ==
  g = [s \in SUBSET S |-> IF s = {} THEN 0 ELSE p[Chosen(s)] + g[s \ {Chosen(s)}]]

(* Induction over the size of a set: a kind of subsets has a smallest one. *)
LEMMA Smallest ==
  ASSUME NEW S, IsFiniteSet(S), NEW K \in SUBSET SUBSET S, K # {}
  PROVE  \E s \in K : \A t \in K : Cardinality(s) <= Cardinality(t)
  <1> DEFINE T == {Cardinality(s) : s \in K}
  <1>1. \A s \in K : Cardinality(s) \in Nat
    BY FS_Subset, FS_CardinalityType
  <1>2. T \subseteq Nat /\ T # {}
    BY <1>1
  <1>3. \E n \in T : \A m \in T : n <= m
    <2> HIDE DEF T
    <2> QED BY <1>2, LeastNumber
  <1> QED BY <1>3

(* A set is not as small without one of its elements. *)
LEMMA SmallerWithout ==
  ASSUME NEW S, IsFiniteSet(S), NEW s \in SUBSET S, NEW x \in s
  PROVE  ~(Cardinality(s) <= Cardinality(s \ {x}))
  <1>1. IsFiniteSet(s) /\ Cardinality(s) \in Nat /\ Cardinality(s \ {x}) = Cardinality(s) - 1
    BY FS_Subset, FS_RemoveElement, FS_CardinalityType
  <1> QED BY <1>1

(* Amounts of a finite set can be added up in every order. *)
LEMMA AdditiveExists ==
  ASSUME NEW S, IsFiniteSet(S), NEW p, \A x \in S : p[x] \in Nat
  PROVE  \E g : Additive(p, S, g)
  <1> DEFINE K == {s \in SUBSET S : ~\E g : Additive(p, s, g)}
  <1> SUFFICES K = {}
    OBVIOUS
  <1> SUFFICES ASSUME K # {} PROVE FALSE
    OBVIOUS
  <1>1. PICK s \in K : \A t \in K : Cardinality(s) <= Cardinality(t)
    BY Smallest
  <1>2. s # {}
    <2>1. Additive(p, {}, [t \in SUBSET {} |-> 0])
      BY DEF Additive
    <2> QED BY <2>1
  <1>3. PICK a : a \in s
    BY <1>2
  <1>4. PICK g : Additive(p, s \ {a}, g)
    <2>1. s \in SUBSET S /\ s \ {a} \in SUBSET S
      OBVIOUS
    <2>2. s \ {a} \notin K
      <3> HIDE DEF K
      <3> QED BY <1>1, <1>3, <2>1, SmallerWithout
    <2> QED BY <2>1, <2>2
  <1> DEFINE h == [t \in SUBSET s |-> IF a \in t THEN p[a] + g[t \ {a}] ELSE g[t]]
  <1>5. h \in [SUBSET s -> Nat]
    BY <1>3, <1>4 DEF Additive
  <1>6. h[{}] = 0
    BY <1>4 DEF Additive
  <1>7. ASSUME NEW t \in SUBSET s, NEW x \in t PROVE h[t] = p[x] + h[t \ {x}]
    <2>1. CASE a \notin t
      <3>1. t \in SUBSET (s \ {a}) /\ t \ {x} \in SUBSET s /\ a \notin t \ {x}
        BY <2>1
      <3> QED BY <3>1, <2>1, <1>4 DEF Additive
    <2>2. CASE a = x
      <3>1. t \ {x} \in SUBSET s /\ a \notin t \ {x}
        BY <2>2
      <3> QED BY <3>1, <2>2
    <2>3. CASE a \in t /\ a # x
      <3>1. /\ t \ {x} \in SUBSET s /\ a \in t \ {x}
            /\ t \ {a} \in SUBSET (s \ {a}) /\ x \in t \ {a}
            /\ (t \ {x}) \ {a} = (t \ {a}) \ {x}
            /\ (t \ {a}) \ {x} \in SUBSET (s \ {a})
        BY <2>3
      <3>2. h[t] = p[a] + g[t \ {a}] /\ h[t \ {x}] = p[a] + g[(t \ {a}) \ {x}]
        BY <3>1, <2>3
      <3>3. g[t \ {a}] = p[x] + g[(t \ {a}) \ {x}] /\ g[(t \ {a}) \ {x}] \in Nat
        BY <3>1, <1>4 DEF Additive
      <3>4. p[a] \in Nat /\ p[x] \in Nat
        BY <1>3
      <3> QED BY <3>2, <3>3, <3>4
    <2> QED BY <2>1, <2>2, <2>3
  <1>8. Additive(p, s, h)
    BY <1>5, <1>6, <1>7 DEF Additive
  <1> QED BY <1>8

(* The sum is what they add up to. *)
LEMMA CostIsAdditive ==
  ASSUME NEW S, IsFiniteSet(S), NEW p, NEW g, Additive(p, S, g)
  PROVE  Cost(p, S) = g[S]
  <1>1. Cost(p, S) = (CHOOSE h : InOrder(p, S, h))[S]
    BY DEF Cost, MapThenSumSet, MapThenFoldSet, InOrder, Chosen
  <1>2. InOrder(p, S, g)
    <2>1. \A s \in SUBSET S : s # {} => Chosen(s) \in s
      BY DEF Chosen
    <2>2. \A s \in SUBSET S :
            g[s] = IF s = {} THEN 0 ELSE p[Chosen(s)] + g[s \ {Chosen(s)}]
      BY <2>1 DEF Additive
    <2>3. g = [s \in SUBSET S |-> g[s]]
      BY DEF Additive
    <2> QED BY <2>2, <2>3 DEF InOrder
  <1>3. ASSUME NEW h, InOrder(p, S, h) PROVE h[S] = g[S]
    <2> DEFINE K == {s \in SUBSET S : h[s] # g[s]}
    <2>1. ASSUME K # {} PROVE FALSE
      <3>1. PICK s \in K : \A t \in K : Cardinality(s) <= Cardinality(t)
        BY <2>1, Smallest
      <3>2. /\ h[s] = IF s = {} THEN 0 ELSE p[Chosen(s)] + h[s \ {Chosen(s)}]
            /\ g[s] = IF s = {} THEN 0 ELSE p[Chosen(s)] + g[s \ {Chosen(s)}]
        BY <1>2, <1>3 DEF InOrder
      <3>3. s # {}
        BY <3>2
      <3>4. Chosen(s) \in s
        BY <3>3 DEF Chosen
      <3>5. s \ {Chosen(s)} \notin K
        BY <3>1, <3>4, SmallerWithout
      <3> QED BY <3>2, <3>3, <3>5
    <2> QED BY <2>1
  <1>4. InOrder(p, S, CHOOSE h : InOrder(p, S, h))
    BY <1>2
  <1> QED BY <1>1, <1>3, <1>4

(* Nothing costs nothing; *)
LEMMA CostOfNone == ASSUME NEW p PROVE Cost(p, {}) = 0
  <1>1. Additive(p, {}, [t \in SUBSET {} |-> 0])
    BY DEF Additive
  <1>2. IsFiniteSet({})
    BY FS_EmptySet
  <1> QED BY <1>1, <1>2, CostIsAdditive

(* an element adds its amount, *)
LEMMA CostWithout ==
  ASSUME NEW S, IsFiniteSet(S), NEW p, \A x \in S : p[x] \in Nat, NEW x \in S
  PROVE  /\ Cost(p, S) = p[x] + Cost(p, S \ {x})
         /\ Cost(p, S) \in Nat /\ Cost(p, S \ {x}) \in Nat
  <1>1. PICK g : Additive(p, S, g)
    BY AdditiveExists
  <1> DEFINE h == [t \in SUBSET (S \ {x}) |-> g[t]]
  <1>2. Additive(p, S \ {x}, h)
    BY <1>1 DEF Additive
  <1>3. Cost(p, S) = g[S]
    BY <1>1, CostIsAdditive
  <1>4. Cost(p, S \ {x}) = g[S \ {x}]
    <2>1. Cost(p, S \ {x}) = h[S \ {x}]
      BY <1>2, CostIsAdditive, FS_RemoveElement
    <2> QED BY <2>1
  <1> QED BY <1>1, <1>3, <1>4 DEF Additive

(* and only the amounts of the elements count. *)
LEMMA CostOfEqual ==
  ASSUME NEW S, IsFiniteSet(S), NEW p, NEW q, \A x \in S : p[x] = q[x] /\ p[x] \in Nat
  PROVE  Cost(p, S) = Cost(q, S)
  <1>1. PICK g : Additive(p, S, g)
    BY AdditiveExists
  <1>2. Additive(q, S, g)
    BY <1>1 DEF Additive
  <1> QED BY <1>1, <1>2, CostIsAdditive

-----------------------------------------------------------------------------
(* What is reserved *)

Owed(ph, u) == {j \in Job : ph[j] = "reserved" /\ HirerOf[j] = u}

(* BooksInv of a balance table, phases and prices. *)
Books(rw, ph, pr) ==
  \A u \in User : IsFiniteSet(Owed(ph, u)) /\ rw[u].res = Cost(pr, Owed(ph, u))

(* A reservation that is made is added to its hirer's; *)
LEMMA BooksOpen ==
  ASSUME NEW rw, NEW ph, NEW pr, NEW rw2, NEW ph2, NEW pr2,
         Books(rw, ph, pr), NEW j \in Job,
         ph[j] # "reserved", ph2[j] = "reserved",
         \A k \in Job : k # j => ph2[k] = ph[k] /\ pr2[k] = pr[k],
         \A k \in Job : pr2[k] \in Nat,
         \A u \in User : rw2[u].res = IF u = HirerOf[j] THEN rw[u].res + pr2[j] ELSE rw[u].res
  PROVE  Books(rw2, ph2, pr2)
  <1> SUFFICES ASSUME NEW u \in User
               PROVE  IsFiniteSet(Owed(ph2, u)) /\ rw2[u].res = Cost(pr2, Owed(ph2, u))
    BY DEF Books
  <1>1. IsFiniteSet(Owed(ph, u)) /\ rw[u].res = Cost(pr, Owed(ph, u))
    BY DEF Books
  <1>2. Owed(ph, u) \in SUBSET Job /\ j \notin Owed(ph, u)
    BY DEF Owed
  <1>3. Cost(pr2, Owed(ph, u)) = Cost(pr, Owed(ph, u))
    <2>1. \A k \in Owed(ph, u) : pr[k] = pr2[k] /\ pr[k] \in Nat
      BY <1>2
    <2> QED BY <1>1, <2>1, CostOfEqual
  <1>4. CASE u = HirerOf[j]
    <2>1. Owed(ph2, u) = Owed(ph, u) \cup {j}
      BY <1>4 DEF Owed
    <2>2. IsFiniteSet(Owed(ph2, u)) /\ j \in Owed(ph2, u) /\ Owed(ph2, u) \ {j} = Owed(ph, u)
      BY <1>1, <1>2, <2>1, FS_AddElement
    <2>3. \A k \in Owed(ph2, u) : pr2[k] \in Nat
      BY <1>2, <2>1
    <2>4. /\ Cost(pr2, Owed(ph2, u)) = pr2[j] + Cost(pr2, Owed(ph, u))
          /\ Cost(pr2, Owed(ph, u)) \in Nat /\ pr2[j] \in Nat
      BY <2>2, <2>3, CostWithout
    <2> QED BY <1>1, <1>3, <1>4, <2>2, <2>4
  <1>5. CASE u # HirerOf[j]
    <2>1. Owed(ph2, u) = Owed(ph, u)
      BY <1>5 DEF Owed
    <2> QED BY <1>1, <1>3, <1>5, <2>1
  <1> QED BY <1>4, <1>5

(* one that is settled or refunded is taken away. *)
LEMMA BooksClose ==
  ASSUME NEW rw, NEW ph, NEW pr, NEW rw2, NEW ph2,
         Books(rw, ph, pr), NEW j \in Job,
         ph[j] = "reserved", ph2[j] # "reserved",
         \A k \in Job : k # j => ph2[k] = ph[k],
         \A k \in Job : pr[k] \in Nat,
         \A u \in User : rw2[u].res = IF u = HirerOf[j] THEN rw[u].res - pr[j] ELSE rw[u].res
  PROVE  Books(rw2, ph2, pr)
  <1> SUFFICES ASSUME NEW u \in User
               PROVE  IsFiniteSet(Owed(ph2, u)) /\ rw2[u].res = Cost(pr, Owed(ph2, u))
    BY DEF Books
  <1>1. IsFiniteSet(Owed(ph, u)) /\ rw[u].res = Cost(pr, Owed(ph, u))
    BY DEF Books
  <1>2. CASE u = HirerOf[j]
    <2>1. Owed(ph2, u) = Owed(ph, u) \ {j} /\ j \in Owed(ph, u)
      BY <1>2 DEF Owed
    <2>2. \A k \in Owed(ph, u) : pr[k] \in Nat
      BY DEF Owed
    <2>3. /\ Cost(pr, Owed(ph, u)) = pr[j] + Cost(pr, Owed(ph2, u))
          /\ Cost(pr, Owed(ph2, u)) \in Nat /\ pr[j] \in Nat
      BY <1>1, <2>1, <2>2, CostWithout
    <2>4. IsFiniteSet(Owed(ph2, u))
      BY <1>1, <2>1, FS_RemoveElement
    <2> QED BY <1>1, <1>2, <2>3, <2>4
  <1>3. CASE u # HirerOf[j]
    <2>1. Owed(ph2, u) = Owed(ph, u)
      BY <1>3 DEF Owed
    <2> QED BY <1>1, <1>3, <2>1
  <1> QED BY <1>2, <1>3

LEMMA BooksInvForm == BooksInv <=> Books(row, phase, price)
  BY DEF BooksInv, ReservedIsOpenJobs, OpenJobsFinite, OpenJobs, Books, Owed

LEMMA BooksInvFormNext == BooksInv' <=> Books(row', phase', price')
  BY DEF BooksInv, ReservedIsOpenJobs, OpenJobsFinite, OpenJobs, Books, Owed

(* Steps that change no reservation. *)
LEMMA BooksSame ==
  ASSUME BooksInv, \A u \in User : row'[u].res = row[u].res, UNCHANGED <<phase, price>>
  PROVE  BooksInv'
  BY BooksInvForm, BooksInvFormNext DEF Books

LEMMA ReserveKeepsBooks ==
  ASSUME LedgerInv, LedgerInv', BooksInv, NEW c \in Client, ReserveCommit(c)
  PROVE  BooksInv'
  <1> DEFINE t == tx[c]
  <1>1. /\ t \in Transaction /\ t.user = HirerOf[t.job] /\ phase[t.job] = "new"
        /\ t.user \in User /\ t.amount \in Nat /\ t.job \in Job
    BY AtCommit DEF ReserveCommit, At, TxSound, Transaction
  <1>2. /\ phase'[t.job] = "reserved" /\ price'[t.job] = t.amount
        /\ \A k \in Job : k # t.job => phase'[k] = phase[k] /\ price'[k] = price[k]
    <2>1. /\ phase' = [phase EXCEPT ![t.job] = "reserved"]
          /\ price' = [price EXCEPT ![t.job] = t.amount]
      BY DEF ReserveCommit
    <2>2. DOMAIN phase = Job /\ DOMAIN price = Job
      BY DEF LedgerInv, TypeOK
    <2> HIDE DEF t
    <2> QED BY <2>1, <2>2, <1>1
  <1>3. \A k \in Job : price'[k] \in Nat
    BY DEF LedgerInv, TypeOK
  <1>4. \A u \in User : row'[u].res = IF u = HirerOf[t.job] THEN row[u].res + t.amount
                                                          ELSE row[u].res
    <2>1. row' = [row EXCEPT ![t.user].res = @ + t.amount]
      BY DEF ReserveCommit
    <2>2. row \in [User -> [bal : Nat, res : Nat]]
      BY DEF LedgerInv, TypeOK
    <2> HIDE DEF t
    <2> QED BY <2>1, <2>2, <1>1
  <1>5. Books(row', phase', price')
    <2> HIDE DEF t
    <2> QED BY <1>1, <1>2, <1>3, <1>4, BooksInvForm, BooksOpen
  <1> QED BY <1>5, BooksInvFormNext

LEMMA SettleKeepsBooks ==
  ASSUME LedgerInv, LedgerInv', BooksInv, NEW c \in Client, SettleCommit(c)
  PROVE  BooksInv'
  <1> DEFINE t == tx[c]
  <1>1. /\ t \in Transaction /\ t.user = HirerOf[t.job] /\ phase[t.job] = "reserved"
        /\ t.amount = price[t.job] /\ t.charge <= t.amount
        /\ t.user \in User /\ t.worker \in User /\ t.amount \in Nat /\ t.job \in Job
    BY AtCommit DEF SettleCommit, At, TxSound, Transaction
  <1>2. /\ phase'[t.job] = "closed" /\ price' = price
        /\ \A k \in Job : k # t.job => phase'[k] = phase[k]
    BY <1>1 DEF SettleCommit, LedgerInv, TypeOK
  <1>3. \A k \in Job : price[k] \in Nat
    BY DEF LedgerInv, TypeOK
  <1>4. \A u \in User : Freed(t)[u].res = IF u = HirerOf[t.job] THEN row[u].res - t.amount
                                                              ELSE row[u].res
    BY <1>1 DEF Freed, LedgerInv, TypeOK
  <1>5. \A u \in User : row'[u].res = Freed(t)[u].res
    <2>1. Freed(t) \in [User -> [bal : Nat, res : Nat]]
      BY <1>1, FreedRow DEF SettleCommit
    <2>2. \/ row' = Freed(t)
          \/ row' = [Freed(t) EXCEPT ![t.worker].bal = @ + Payout(t.charge)]
      BY DEF SettleCommit
    <2> HIDE DEF t
    <2> QED BY <2>1, <2>2, <1>1
  <1>6. Books(row', phase', price)
    <2> HIDE DEF t
    <2>1. \A u \in User : row'[u].res = IF u = HirerOf[t.job] THEN row[u].res - price[t.job]
                                                            ELSE row[u].res
      BY <1>1, <1>4, <1>5
    <2> QED BY <1>1, <1>2, <1>3, <2>1, BooksInvForm, BooksClose
  <1> QED BY <1>2, <1>6, BooksInvFormNext

LEMMA RefundKeepsBooks ==
  ASSUME LedgerInv, LedgerInv', BooksInv, NEW c \in Client, RefundCommit(c)
  PROVE  BooksInv'
  <1> DEFINE t == tx[c]
  <1>1. /\ t \in Transaction /\ t.user = HirerOf[t.job] /\ phase[t.job] = "reserved"
        /\ t.amount = price[t.job]
        /\ t.user \in User /\ t.amount \in Nat /\ t.job \in Job
    BY AtCommit DEF RefundCommit, At, TxSound, Transaction
  <1>2. /\ phase'[t.job] = "closed" /\ price' = price
        /\ \A k \in Job : k # t.job => phase'[k] = phase[k]
    BY <1>1 DEF RefundCommit, LedgerInv, TypeOK
  <1>3. \A k \in Job : price[k] \in Nat
    BY DEF LedgerInv, TypeOK
  <1>4. \A u \in User : row'[u].res = IF u = HirerOf[t.job] THEN row[u].res - t.amount
                                                          ELSE row[u].res
    BY <1>1 DEF RefundCommit, Freed, LedgerInv, TypeOK
  <1>5. Books(row', phase', price)
    <2> HIDE DEF t
    <2>1. \A u \in User : row'[u].res = IF u = HirerOf[t.job] THEN row[u].res - price[t.job]
                                                            ELSE row[u].res
      BY <1>1, <1>4
    <2> QED BY <1>1, <1>2, <1>3, <2>1, BooksInvForm, BooksClose
  <1> QED BY <1>2, <1>5, BooksInvFormNext

LEMMA NextKeepsBooks ==
  ASSUME LedgerInv, LedgerInv', BooksInv, [Next]_vars
  PROVE  BooksInv'
  <1>1. ASSUME UNCHANGED ledger PROVE BooksInv'
    BY <1>1, BooksSame DEF ledger
  <1>2. CASE UNCHANGED vars
    BY <1>1, <1>2 DEF vars, ledger
  <1>3. CASE Registration
    BY <1>3, BooksSame DEF Registration, CreateUser, Initialize, InitializeFails
  <1>4. ASSUME NEW c \in Client, Call(c) PROVE BooksInv'
    BY <1>1, <1>4 DEF Call, BeginAllocate, BeginReserve, BeginSettle, BeginRefund, Begin, ledger
  <1>5. ASSUME NEW c \in Client, Abort(c) PROVE BooksInv'
    BY <1>1, <1>5 DEF Abort
  <1>6. ASSUME NEW c \in Client, AllocateCommit(c) PROVE BooksInv'
    <2>1. \A u \in User : row'[u].res = row[u].res
      BY <1>6 DEF AllocateCommit, LedgerInv, TypeOK
    <2> QED BY <1>6, <2>1, BooksSame DEF AllocateCommit
  <1>7. ASSUME NEW c \in Client, Statement(c) PROVE BooksInv'
    BY <1>7, <1>1, <1>6, ReserveKeepsBooks, SettleKeepsBooks, RefundKeepsBooks
       DEF Statement, AllocateRead, NotFound, ReserveRead, ReserveRefused,
           SettleLockFirst, SettleLockSecond, RefundUpdate
  <1> QED BY <1>2, <1>3, <1>4, <1>5, <1>7 DEF Next

LEMMA InitBooks == Init => BooksInv
  <1> SUFFICES ASSUME Init PROVE Books(row, phase, price)
    BY BooksInvForm
  <1>1. ASSUME NEW u \in User PROVE Owed(phase, u) = {} /\ row[u].res = 0
    BY <1>1 DEF Init, Owed
  <1> QED BY <1>1, CostOfNone, FS_EmptySet DEF Books

(* What is reserved of a balance is the sum of the open jobs of the hirer, *)
(* however many there are: settle and refund_full release what reserve     *)
(* took, once.                                                             *)
THEOREM ReservationsAddUp == Spec => []ReservedIsOpenJobs
  <1>1. BooksInv => ReservedIsOpenJobs
    BY DEF BooksInv
  <1> QED BY <1>1, InitBooks, NextKeepsBooks, LocksProtect, PTL DEF Spec

-----------------------------------------------------------------------------
(* Implementation of AtomicLedger *)

LEMMA StepIsAtomic ==
  ASSUME LedgerInv, LedgerInv', [Next]_vars
  PROVE  [Atomic!Next]_(Atomic!vars)
  <1>1. ASSUME UNCHANGED ledger PROVE UNCHANGED Atomic!vars
    BY <1>1 DEF ledger, Atomic!vars
  <1>2. CASE UNCHANGED vars
    BY <1>2 DEF vars, Atomic!vars
  <1>3. CASE Registration
    BY <1>3 DEF Registration, CreateUser, Initialize, InitializeFails, Atomic!Next, Atomic!Register
  <1>4. ASSUME NEW c \in Client, Call(c) PROVE UNCHANGED ledger
    BY <1>4 DEF Call, BeginAllocate, BeginReserve, BeginSettle, BeginRefund, Begin, ledger
  <1>5. ASSUME NEW c \in Client, Abort(c) PROVE UNCHANGED ledger
    BY <1>5 DEF Abort
  <1>6. ASSUME NEW c \in Client, AllocateCommit(c) PROVE Atomic!Next
    <2>1. /\ tx[c].user \in User /\ tx[c].amount \in Grant /\ account[tx[c].user] = "open"
          /\ tx[c].read = row[tx[c].user].bal
      BY <1>6, AtCommit DEF AllocateCommit, At, TxSound, Transaction
    <2>2. Atomic!Allocate(tx[c].user, tx[c].amount)
      BY <1>6, <2>1 DEF AllocateCommit, Atomic!Allocate, LedgerInv, TypeOK
    <2> QED BY <2>1, <2>2 DEF Atomic!Next
  <1>7. ASSUME NEW c \in Client, ReserveCommit(c) PROVE Atomic!Next
    <2>1. /\ tx[c].job \in Job /\ tx[c].user = HirerOf[tx[c].job] /\ tx[c].amount \in Price
          /\ phase[tx[c].job] = "new" /\ account[tx[c].user] = "open"
          /\ row[tx[c].user].bal - row[tx[c].user].res >= tx[c].amount
      BY <1>7, AtCommit DEF ReserveCommit, At, TxSound, Available
    <2>2. Atomic!Reserve(tx[c].job, tx[c].amount)
      BY <1>7, <2>1 DEF ReserveCommit, Atomic!Reserve
    <2> QED BY <2>1, <2>2 DEF Atomic!Next
  <1>8. ASSUME NEW c \in Client, SettleCommit(c) PROVE Atomic!Next
    <2>1. /\ tx[c].job \in Job /\ tx[c].user = HirerOf[tx[c].job] /\ tx[c].worker \in User
          /\ phase[tx[c].job] = "reserved" /\ tx[c].amount = price[tx[c].job]
          /\ tx[c].charge \in Nat /\ tx[c].amount \in Nat /\ tx[c].charge <= tx[c].amount
          /\ Registered(tx[c].worker)
      BY <1>8, AtCommit DEF SettleCommit, At, TxSound, Transaction
    <2>2. tx[c].charge \in 0..price[tx[c].job]
      BY <2>1
    <2>3. Atomic!Settle(tx[c].job, tx[c].worker, tx[c].charge)
      BY <1>8, <2>1, <2>2
         DEF SettleCommit, Freed, Payout, Registered, Atomic!Settle, Atomic!Payout, Atomic!Registered
    <2> QED BY <2>1, <2>2, <2>3 DEF Atomic!Next
  <1>9. ASSUME NEW c \in Client, RefundCommit(c) PROVE Atomic!Next
    <2>1. /\ tx[c].job \in Job /\ tx[c].user = HirerOf[tx[c].job] /\ tx[c].user \in User
          /\ phase[tx[c].job] = "reserved" /\ tx[c].amount = price[tx[c].job]
          /\ tx[c].charge = 0 /\ tx[c].amount \in Nat
      BY <1>9, AtCommit DEF RefundCommit, At, TxSound, Transaction
    <2>2. tx[c].amount - tx[c].charge = tx[c].amount
      BY <2>1
    <2>3. Atomic!Refund(tx[c].job)
      BY <1>9, <2>1, <2>2 DEF RefundCommit, Freed, Atomic!Refund
    <2> QED BY <2>1, <2>3 DEF Atomic!Next
  <1>10. ASSUME NEW c \in Client, Statement(c) PROVE Atomic!Next \/ UNCHANGED ledger
    BY <1>10, <1>6, <1>7, <1>8, <1>9
       DEF Statement, AllocateRead, NotFound, ReserveRead, ReserveRefused,
           SettleLockFirst, SettleLockSecond, RefundUpdate
  <1> QED BY <1>1, <1>2, <1>3, <1>4, <1>5, <1>10 DEF Next

(* Every operation takes effect at once, at its COMMIT, whatever others    *)
(* are running: Ledger implements AtomicLedger.                            *)
THEOREM RefinesAtomicLedger == Spec => ImplementsAtomicLedger
  <1>1. Init => Atomic!Init
    BY DEF Init, Atomic!Init
  <1> QED BY <1>1, StepIsAtomic, LocksProtect, PTL
          DEF Spec, ImplementsAtomicLedger, Atomic!Spec
=============================================================================
