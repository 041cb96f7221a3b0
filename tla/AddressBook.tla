---------------------------- MODULE AddressBook ----------------------------
(***************************************************************************)
(* The addresses of the account service over PostgreSQL: CreateAddress,    *)
(* SetDefaultAddress and DeleteAddress of concurrent calls.                *)
(*                                                                         *)
(* An insert and a delete are transactions of one statement.               *)
(* SetDefaultAddress is a transaction of two, under READ COMMITTED: the    *)
(* first sees the rows committed when it begins, then takes and resets     *)
(* them one by one, waiting for those that another transaction holds; the  *)
(* second takes the target.  Nothing of it shows before the commit.  An    *)
(* address is named after the call that creates it (its fresh UUID).       *)
(***************************************************************************)
EXTENDS Naturals

CONSTANTS
  Calls,        \* the calls that may arrive, gRPC or GraphQL
  Asked,        \* Asked[c]: op, and what it is about: user, type, default,
                \* target, fields, email, as far as the op has them
  MaxFaults     \* bound on failures

AddressOps == {"create", "update", "set", "delete"}

ASSUME CallsAssumption ==
  /\ \A c \in Calls : Asked[c].op \in AddressOps \cup {"register"}
  /\ MaxFaults \in Nat

VARIABLES
  live,         \* the addresses in the table
  default,      \* those with is_default
  pc,           \* pc[c]: the next statement of call c, "idle" or "answered"
  result,       \* result[c]: "ok", "refused" (not found, exists), "failed"
  todo,         \* todo[c]: rows that the reset of c has yet to take
  held,         \* held[c]: rows that the transaction of c has locked
  overlapped,   \* addresses inserted while a SetDefaultAddress of their user
                \* and type was past its snapshot
  unsettled,    \* addresses inserted as the default whose own
                \* SetDefaultAddress has not committed
  faults

rowVars == <<live, default, overlapped, unsettled>>
lockVars == <<todo, held>>
callVars == <<pc, result>>
bookVars == <<rowVars, lockVars, callVars, faults>>

BookInit ==
  /\ live = {} /\ default = {} /\ overlapped = {} /\ unsettled = {}
  /\ todo = [c \in Calls |-> {}] /\ held = [c \in Calls |-> {}]
  /\ result = [c \in Calls |-> "none"]
  /\ faults = 0

At(c, point) == pc[c] = point
Goto(c, point) == pc' = [pc EXCEPT ![c] = point] /\ UNCHANGED result
Answer(c, outcome) ==
  /\ pc' = [pc EXCEPT ![c] = "answered"]
  /\ result' = [result EXCEPT ![c] = outcome]
Fault == faults < MaxFaults /\ faults' = faults + 1

(* The error of the SetDefaultAddress inside CreateAddress is ignored.     *)
Own(c) == Asked[c].op \in {"create", "update"}
Outcome(c, outcome) == IF Own(c) THEN "ok" ELSE outcome
Target(c) == IF Own(c) THEN c ELSE Asked[c].target

Alike(a, b) == Asked[a].user = Asked[b].user /\ Asked[a].type = Asked[b].type
HeldByOther(c, a) == \E d \in Calls \ {c} : a \in held[d]
InTransaction(c) == At(c, "reset") \/ At(c, "commit")
Release(c) == held' = [held EXCEPT ![c] = {}] /\ todo' = [todo EXCEPT ![c] = {}]

-----------------------------------------------------------------------------
(* CreateAddress: the insert, which needs the profile of the user, and,    *)
(* for a default address, SetDefaultAddress.                               *)
Insert(c, profiles) ==
  /\ At(c, "insert") /\ Asked[c].user \in profiles
  /\ live' = live \cup {c}
  /\ overlapped' = IF \E d \in Calls : InTransaction(d) /\ Alike(c, d)
                   THEN overlapped \cup {c} ELSE overlapped
  /\ IF Asked[c].default
     THEN /\ default' = default \cup {c} /\ unsettled' = unsettled \cup {c}
          /\ Goto(c, "begin")
     ELSE Answer(c, "ok") /\ UNCHANGED <<default, unsettled>>
  /\ UNCHANGED <<lockVars, faults>>

NoProfile(c, profiles) ==
  /\ At(c, "insert") /\ Asked[c].user \notin profiles
  /\ Answer(c, "failed")
  /\ UNCHANGED <<rowVars, lockVars, faults>>

-----------------------------------------------------------------------------
(* SetDefaultAddress.                                                      *)
Begin(c) ==
  /\ At(c, "begin")
  /\ todo' = [todo EXCEPT ![c] = {a \in live : Alike(a, c)}]
  /\ Goto(c, "reset")
  /\ UNCHANGED <<rowVars, held, faults>>

(* Mutant of Reset: rows that another transaction holds are skipped.       *)
ResetSkipsLocked(c, a) ==
  /\ At(c, "reset") /\ a \in todo[c]
  /\ todo' = [todo EXCEPT ![c] = @ \ {a}]
  /\ held' = IF a \in live /\ ~ HeldByOther(c, a) THEN [held EXCEPT ![c] = @ \cup {a}] ELSE held
  /\ UNCHANGED <<rowVars, callVars, faults>>

(* A row that was deleted since is passed over.                            *)
Reset(c, a) ==
  /\ At(c, "reset") /\ a \in todo[c]
  /\ ~ HeldByOther(c, a)
  /\ todo' = [todo EXCEPT ![c] = @ \ {a}]
  /\ held' = IF a \in live THEN [held EXCEPT ![c] = @ \cup {a}] ELSE held
  /\ UNCHANGED <<rowVars, callVars, faults>>

TargetFound(c) == Target(c) \in live /\ Alike(Target(c), c)

Mark(c) ==
  /\ At(c, "reset") /\ todo[c] = {}
  /\ TargetFound(c) /\ ~ HeldByOther(c, Target(c))
  /\ held' = [held EXCEPT ![c] = @ \cup {Target(c)}]
  /\ Goto(c, "commit")
  /\ UNCHANGED <<rowVars, todo, faults>>

(* Mutants of Refuse: the reset is committed all the same; the transaction *)
(* is left open.                                                           *)
RefuseCommits(c) ==
  /\ At(c, "reset") /\ todo[c] = {} /\ ~ TargetFound(c)
  /\ default' = default \ held[c]
  /\ Release(c)
  /\ Answer(c, Outcome(c, "refused"))
  /\ UNCHANGED <<live, overlapped, unsettled, faults>>
RefuseKeepsLocks(c) ==
  /\ At(c, "reset") /\ todo[c] = {} /\ ~ TargetFound(c)
  /\ Answer(c, Outcome(c, "refused"))
  /\ UNCHANGED <<rowVars, lockVars, faults>>

(* No row is the target: ErrAddressNotFound, and the reset is rolled back. *)
Refuse(c) ==
  /\ At(c, "reset") /\ todo[c] = {} /\ ~ TargetFound(c)
  /\ Release(c)
  /\ Answer(c, Outcome(c, "refused"))
  /\ UNCHANGED <<rowVars, faults>>

Commit(c) ==
  /\ At(c, "commit")
  /\ default' = (default \ held[c]) \cup {Target(c)}
  /\ unsettled' = unsettled \ {Target(c)}
  /\ Release(c)
  /\ Answer(c, "ok")
  /\ UNCHANGED <<live, overlapped, faults>>

(* PostgreSQL ends one of the transactions that wait for one another: each *)
(* in the circle needs only rows that others hold.                         *)
Needs(c) == IF todo[c] = {} THEN {Target(c)} ELSE todo[c]
WaitsFor(c, d) == c # d /\ At(c, "reset") /\ Needs(c) \cap held[d] # {}
Stuck(c) == At(c, "reset") /\ \A a \in Needs(c) : HeldByOther(c, a)
Deadlocked(c) ==
  \E circle \in SUBSET {d \in Calls : Stuck(d)} :
    /\ c \in circle
    /\ \A d \in circle : /\ \E e \in circle : WaitsFor(d, e)
                         /\ \E e \in circle : WaitsFor(e, d)

Abort(c) ==
  /\ Deadlocked(c)
  /\ Release(c)
  /\ Answer(c, Outcome(c, "failed"))
  /\ UNCHANGED <<rowVars, faults>>

(* A statement of the transaction fails.                                   *)
SetFails(c) ==
  /\ At(c, "begin") \/ InTransaction(c)
  /\ Fault
  /\ Release(c)
  /\ Answer(c, Outcome(c, "failed"))
  /\ UNCHANGED rowVars

-----------------------------------------------------------------------------
DeleteAddress(c) ==
  /\ At(c, "delete")
  /\ LET a == Asked[c].target IN
     \/ /\ a \in live /\ Asked[a].user = Asked[c].user /\ ~ HeldByOther(c, a)
        /\ live' = live \ {a} /\ default' = default \ {a}
        /\ Answer(c, "ok")
     \/ /\ a \notin live \/ Asked[a].user # Asked[c].user
        /\ Answer(c, "refused")
        /\ UNCHANGED <<live, default>>
  /\ UNCHANGED <<overlapped, unsettled, lockVars, faults>>

AddressStep(c, profiles) ==
  \/ Insert(c, profiles) \/ NoProfile(c, profiles)
  \/ Begin(c) \/ (\E a \in todo[c] : Reset(c, a)) \/ Mark(c) \/ Refuse(c)
  \/ Commit(c) \/ Abort(c) \/ DeleteAddress(c)

(* The process dies, the client goes away or the database fails while the  *)
(* call is under way: PostgreSQL rolls its transaction back.               *)
Break(c) ==
  /\ pc[c] \notin {"idle", "answered"}
  /\ Fault
  /\ Release(c)
  /\ Answer(c, "failed")
  /\ UNCHANGED rowVars

-----------------------------------------------------------------------------
BookTypeOK(points) ==
  /\ live \subseteq Calls /\ default \subseteq live
  /\ overlapped \subseteq Calls /\ unsettled \subseteq Calls
  /\ pc \in [Calls -> points]
  /\ result \in [Calls -> {"none", "ok", "refused", "failed"}]
  /\ todo \in [Calls -> SUBSET Calls] /\ held \in [Calls -> SUBSET Calls]
  /\ \A c \in Calls : held[c] \cup todo[c] # {} => InTransaction(c)
  /\ faults \in 0..MaxFaults

(* Of two addresses of one user and type that are both the default, one    *)
(* was inserted under the eyes of another SetDefaultAddress, which cannot  *)
(* see it, or its own SetDefaultAddress is to come or has failed unseen.   *)
OneDefault ==
  \A a, b \in default :
    a # b /\ Alike(a, b) => {a, b} \cap (overlapped \cup unsettled) # {}

(* The rows that calls take never bring the account service to a halt:     *)
(* while calls are under way, one of them waits for no row, or is on a     *)
(* circle that PostgreSQL breaks.                                          *)
SomeCallMoves ==
  LET underway == {c \in Calls : pc[c] \notin {"idle", "answered"}}
  IN  underway # {} =>
        \E c \in underway :
          \/ Deadlocked(c)
          \/ ~ Stuck(c) /\ ~ (At(c, "delete") /\ HeldByOther(c, Asked[c].target))

(* A user who has a default address of a type keeps one, until it is       *)
(* deleted: no call that is refused, aborted or broken takes it away.      *)
DefaultKept ==
  [][\A a \in default : a \in live' => \E b \in default' : Alike(a, b)]_bookVars
=============================================================================
