-------------------------- MODULE CatalogPostgres --------------------------
(***************************************************************************)
(* The catalog's Postgres repository, statement by statement: ReserveStock *)
(* and ReleaseStock are transactions at READ COMMITTED that run at the     *)
(* same time, block on each other's row locks and may be chosen as the     *)
(* victim of a deadlock.                                                   *)
(*                                                                         *)
(* stock and held are what is committed.  A transaction changes a product  *)
(* row only while it holds the row's lock, so what it has not committed    *)
(* yet is known from its locks.  Between SELECT ... FOR UPDATE and the     *)
(* INSERT of the same line no other transaction can touch the product or   *)
(* the order's reservation of it: the statements of a line are one action, *)
(* and so are the final DELETE and COMMIT of a release.                    *)
(***************************************************************************)
EXTENDS StockLedger, Sequences, FiniteSets

CONSTANTS
  Calls,      \* RPCs that the catalog receives
  Kind,       \* Kind[c]: "reserve" or "release"
  OrderOf,    \* OrderOf[c]: the order_id of the request
  Lines,      \* Lines[o]: the products of the order's lines, as listed
  MaxFaults   \* bound on database errors

ASSUME CatalogAssumption ==
  /\ IsFiniteSet(Products)
  /\ Kind \in [Calls -> {"reserve", "release"}]
  /\ OrderOf \in [Calls -> Orders]
  /\ Lines \in [Orders -> Seq(Products)]
  /\ \A o \in Orders, p \in Products :
       Demand[o][p] > 0 <=> \E i \in 1..Len(Lines[o]) : Lines[o][i] = p
  /\ MaxFaults \in Nat

VARIABLES
  pc,        \* pc[c]: "start", "read" (a release), "lines", "ok", "error"
  plan,      \* plan[c]: the products that the call will update, in order
  next,      \* next[c]: index in plan[c]
  read,      \* read[c][p]: quantity that a release read from its order's row
  locks,     \* locks[c]: product rows that the call's transaction has locked
  faults

vars == <<stock, held, pc, plan, next, read, locks, faults>>
cursor == <<plan, next, read>>

(* Every sequence that lists the products of S: a SELECT without ORDER BY. *)
Listings(S) ==
  {s \in [1..Cardinality(S) -> S] : \A p \in S : \E i \in DOMAIN s : s[i] = p}

Init ==
  /\ LedgerInit
  /\ pc = [c \in Calls |-> "start"]
  /\ plan = [c \in Calls |-> << >>]
  /\ next = [c \in Calls |-> 1]
  /\ read = [c \in Calls |-> NoHold]
  /\ locks = [c \in Calls |-> {}]
  /\ faults = 0

(* The transaction ends: what it has locked is unlocked.                   *)
End(c, answer) ==
  /\ pc' = [pc EXCEPT ![c] = answer]
  /\ plan' = [plan EXCEPT ![c] = << >>]
  /\ next' = [next EXCEPT ![c] = 1]
  /\ read' = [read EXCEPT ![c] = NoHold]
  /\ locks' = [locks EXCEPT ![c] = {}]

-----------------------------------------------------------------------------
(* SELECT EXISTS: a reserve of an order that has a reservation, and a      *)
(* release of one that has none, are answered at once.                     *)
AlreadyDone(c) ==
  /\ pc[c] = "start"
  /\ Kind[c] = "reserve" <=> Holds(OrderOf[c])
  /\ End(c, "ok")
  /\ UNCHANGED <<ledger, faults>>

BeginReserve(c) ==
  /\ pc[c] = "start" /\ Kind[c] = "reserve"
  /\ ~ Holds(OrderOf[c])
  /\ pc' = [pc EXCEPT ![c] = "lines"]
  /\ plan' = [plan EXCEPT ![c] = Lines[OrderOf[c]]]
  /\ UNCHANGED <<ledger, next, read, locks, faults>>

BeginRelease(c) ==
  /\ pc[c] = "start" /\ Kind[c] = "release"
  /\ Holds(OrderOf[c])
  /\ pc' = [pc EXCEPT ![c] = "read"]
  /\ UNCHANGED <<ledger, cursor, locks, faults>>

(* A statement of its own, which locks nothing: it may see a later state   *)
(* than SELECT EXISTS did, and what it saw may be gone when it is used.    *)
ReadRecords(c) ==
  LET records == held[OrderOf[c]]
  IN  /\ pc[c] = "read"
      /\ pc' = [pc EXCEPT ![c] = "lines"]
      /\ read' = [read EXCEPT ![c] = records]
      /\ \E s \in Listings({p \in Products : records[p] > 0}) : plan' = [plan EXCEPT ![c] = s]
      /\ UNCHANGED <<ledger, next, locks, faults>>

-----------------------------------------------------------------------------
(* One line.                                                               *)

AtLine(c) == pc[c] = "lines" /\ next[c] <= Len(plan[c])
Row(c) == plan[c][next[c]]
BlockedBy(c, d) == d # c /\ AtLine(c) /\ Row(c) \in locks[d]
Blocked(c) == \E d \in Calls : BlockedBy(c, d)

LockRow(c) ==
  /\ locks' = [locks EXCEPT ![c] = @ \cup {Row(c)}]
  /\ next' = [next EXCEPT ![c] = @ + 1]
  /\ UNCHANGED <<ledger, pc, plan, read, faults>>

(* Mutant of Refused: an order may take one unit more than there is.       *)
RefusedOffByOne(c) ==
  LET o == OrderOf[c]
  IN  \/ stock[Row(c)] + 1 < Demand[o][Row(c)]
      \/ Row(c) \in locks[c]
      \/ held[o][Row(c)] > 0

(* What stops a line: not enough stock, or the primary key (order,         *)
(* product) of stock_reservations, because of an earlier line of the same  *)
(* request or a committed reservation of the same order.                   *)
Refused(c) ==
  LET o == OrderOf[c]
  IN  \/ stock[Row(c)] < Demand[o][Row(c)]
      \/ Row(c) \in locks[c]
      \/ held[o][Row(c)] > 0

(* Mutant of ReserveLine: SELECT without FOR UPDATE.                       *)
ReserveLineUnlocked(c) ==
  /\ AtLine(c) /\ Kind[c] = "reserve"
  /\ ~ Refused(c)
  /\ LockRow(c)

ReserveLine(c) ==
  /\ AtLine(c) /\ Kind[c] = "reserve"
  /\ ~ Blocked(c)
  /\ ~ Refused(c)
  /\ LockRow(c)

(* Mutant of RefuseLine: return without tx.Rollback.                       *)
RefuseLineKeepsLocks(c) ==
  /\ AtLine(c) /\ Kind[c] = "reserve"
  /\ ~ Blocked(c)
  /\ Refused(c)
  /\ pc' = [pc EXCEPT ![c] = "error"]
  /\ UNCHANGED <<ledger, cursor, locks, faults>>

RefuseLine(c) ==
  /\ AtLine(c) /\ Kind[c] = "reserve"
  /\ ~ Blocked(c)
  /\ Refused(c)
  /\ End(c, "error")
  /\ UNCHANGED <<ledger, faults>>

RestoreLine(c) ==
  /\ AtLine(c) /\ Kind[c] = "release"
  /\ ~ Blocked(c)
  /\ LockRow(c)

-----------------------------------------------------------------------------
(* The ends of a transaction.                                              *)

AllLinesDone(c) == pc[c] = "lines" /\ next[c] > Len(plan[c])

InsertRecords(c) ==
  LET o == OrderOf[c]
  IN  /\ stock' = [p \in Products |-> IF p \in locks[c] THEN stock[p] - Demand[o][p] ELSE stock[p]]
      /\ held' = [held EXCEPT ![o] = [p \in Products |->
                    IF p \in locks[c] THEN Demand[o][p] ELSE held[o][p]]]

DeleteRecords(c) ==
  /\ stock' = [p \in Products |-> IF p \in locks[c] THEN stock[p] + read[c][p] ELSE stock[p]]
  /\ held' = [held EXCEPT ![OrderOf[c]] = NoHold]

Effect(c) == IF Kind[c] = "reserve" THEN InsertRecords(c) ELSE DeleteRecords(c)

Commit(c) ==
  /\ AllLinesDone(c)
  /\ Effect(c)
  /\ End(c, "ok")
  /\ UNCHANGED faults

(* Mutant of CommitUnacknowledged: the error of tx.Commit is dropped.      *)
CommitUnchecked(c) ==
  /\ AllLinesDone(c)
  /\ faults < MaxFaults /\ faults' = faults + 1
  /\ Effect(c) \/ UNCHANGED ledger
  /\ End(c, "ok")

(* The connection breaks during COMMIT: done or not, the caller sees an    *)
(* error.                                                                  *)
CommitUnacknowledged(c) ==
  /\ AllLinesDone(c)
  /\ faults < MaxFaults /\ faults' = faults + 1
  /\ Effect(c) \/ UNCHANGED ledger
  /\ End(c, "error")

(* Any statement may fail; the deferred Rollback undoes the transaction.   *)
DBError(c) ==
  /\ pc[c] \in {"start", "read", "lines"}
  /\ faults < MaxFaults /\ faults' = faults + 1
  /\ End(c, "error")
  /\ UNCHANGED ledger

(* A set of transactions each of which waits for another one of the set,   *)
(* and each of which is waited for: all of them are on a cycle.            *)
Deadlocked(S) ==
  /\ \A c \in S : \E d \in S : BlockedBy(c, d)
  /\ \A d \in S : \E c \in S : BlockedBy(c, d)

(* Postgres aborts a transaction that waits for itself.                    *)
DeadlockVictim(c) ==
  /\ \E S \in SUBSET Calls : c \in S /\ Deadlocked(S)
  /\ End(c, "error")
  /\ UNCHANGED <<ledger, faults>>

Step(c) ==
  \/ AlreadyDone(c) \/ BeginReserve(c) \/ BeginRelease(c) \/ ReadRecords(c)
  \/ ReserveLine(c) \/ RefuseLine(c) \/ RestoreLine(c)
  \/ Commit(c) \/ DeadlockVictim(c)

Next == \E c \in Calls : Step(c) \/ CommitUnacknowledged(c) \/ DBError(c)

Spec == Init /\ [][Next]_vars

(* Handlers are scheduled, a lock that is free is granted, and a deadlock  *)
(* that persists is detected.                                              *)
FairSpec == Spec /\ \A c \in Calls : WF_vars(Step(c))

-----------------------------------------------------------------------------
TypeOK ==
  /\ LedgerTypeOK
  /\ pc \in [Calls -> {"start", "read", "lines", "ok", "error"}]
  /\ plan \in [Calls -> Seq(Products)]
  /\ next \in [Calls -> Nat \ {0}]
  /\ read \in [Calls -> [Products -> Nat]]
  /\ locks \in [Calls -> SUBSET Products]
  /\ faults \in 0..MaxFaults

(* No order is released by two calls: the saga sends one ReleaseStock.     *)
OneRelease ==
  \A c, d \in Calls :
    Kind[c] = "release" /\ Kind[d] = "release" /\ OrderOf[c] = OrderOf[d] => c = d

(* A ReserveStock answered with success has reserved the order, whichever  *)
(* call of the order did it, until a release of the order begins.          *)
AnswersHonest ==
  \A c \in Calls :
    /\ Kind[c] = "reserve" /\ pc[c] = "ok"
    /\ \A d \in Calls : Kind[d] = "release" /\ OrderOf[d] = OrderOf[c] => pc[d] = "start"
    => held[OrderOf[c]] = Demand[OrderOf[c]]

(* Row locks never bring the catalog to a halt: while calls are under way, *)
(* one of them needs no row of another, or is on a cycle that Postgres     *)
(* breaks.  A call that ended has left no row locked.                      *)
SomeCallMoves ==
  LET underway == {c \in Calls : pc[c] \notin {"ok", "error"}}
  IN  underway # {} =>
        \E c \in underway : ~ Blocked(c) \/ \E S \in SUBSET Calls : c \in S /\ Deadlocked(S)

(* Statement by statement and with any interleaving of the transactions,   *)
(* the committed rows are the ledger that the saga relies on, as long as   *)
(* OneRelease holds.                                                       *)
ImplementsLedger == LedgerSpec

(* Orders whose lines lock the same products in opposite directions block  *)
(* each other; still every call is answered.                               *)
EveryCallAnswered == <>(\A c \in Calls : pc[c] \in {"ok", "error"})
=============================================================================
