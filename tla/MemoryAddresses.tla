-------------------------- MODULE MemoryAddresses --------------------------
(***************************************************************************)
(* The addresses of the account service over the in-memory repository.     *)
(* Each of its operations runs under the mutex and is one step; the insert *)
(* of CreateAddress and the SetDefaultAddress that follows it are two.     *)
(* The repository ignores the context of a call, so nothing fails half-way,*)
(* and nothing is rolled back either.  Calls are those of AddressBook.     *)
(***************************************************************************)
EXTENDS AddressBook

VARIABLES
  stored,       \* the addresses in the map
  chosen,       \* those with IsDefault
  at            \* at[c]: the next operation of call c, "idle" or "done"

storeVars == <<stored, chosen, at>>

StoreInit(arrivals) ==
  /\ stored = {} /\ chosen = {}
  /\ at = [c \in Calls |-> IF c \in arrivals THEN "idle" ELSE "done"]

Reach(c, point) == at' = [at EXCEPT ![c] = point]

(* A call about an address comes when somebody has its id.                 *)
Ask(c) ==
  /\ at[c] = "idle" /\ Asked[c].op \in {"set", "delete"}
  /\ Asked[c].target \in stored
  /\ Reach(c, Asked[c].op)
  /\ UNCHANGED <<stored, chosen>>

(* Mutant of Store: a default address is stored as it is.                  *)
StoreOnly(c) ==
  /\ at[c] = "idle" /\ Own(c)
  /\ stored' = stored \cup {c}
  /\ chosen' = IF Asked[c].default THEN chosen \cup {c} ELSE chosen
  /\ Reach(c, "done")

Store(c) ==
  /\ at[c] = "idle" /\ Own(c)
  /\ stored' = stored \cup {c}
  /\ chosen' = IF Asked[c].default THEN chosen \cup {c} ELSE chosen
  /\ Reach(c, IF Asked[c].default THEN "set" ELSE "done")

Found(c) == Target(c) \in stored /\ Alike(Target(c), c)
Others(c) == {a \in chosen : ~ Alike(a, c)}

(* Mutant of Choose: the loop resets the target as well.                   *)
ChooseNone(c) ==
  /\ at[c] = "set"
  /\ chosen' = Others(c)
  /\ Reach(c, "done")
  /\ UNCHANGED stored

(* Whether the target was among them is only asked after the loop.         *)
Choose(c) ==
  /\ at[c] = "set"
  /\ chosen' = IF Found(c) THEN Others(c) \cup {Target(c)} ELSE Others(c)
  /\ Reach(c, "done")
  /\ UNCHANGED stored

Drop(c) ==
  /\ at[c] = "delete"
  /\ LET gone == {a \in stored : a = Asked[c].target /\ Asked[a].user = Asked[c].user}
     IN  stored' = stored \ gone /\ chosen' = chosen \ gone
  /\ Reach(c, "done")

StoreNext == \E c \in Calls : Ask(c) \/ Store(c) \/ Choose(c) \/ Drop(c)

StoreSpec == (\E arrivals \in SUBSET Calls : StoreInit(arrivals)) /\ [][StoreNext]_storeVars

-----------------------------------------------------------------------------
(* Of two addresses of one user and type that are both the default, one is *)
(* new and its own SetDefaultAddress is about to settle it: the two halves *)
(* of CreateAddress leave no second default behind, however they           *)
(* interleave with those of other calls, with sets and with deletes.       *)
OneChosen == \A a, b \in chosen : a # b /\ Alike(a, b) => "set" \in {at[a], at[b]}

(* A user who has a default address of a type keeps one until it is        *)
(* deleted, but for the one case in which a SetDefaultAddress misses its   *)
(* target, the loop having reset the others: the address was deleted       *)
(* before, perhaps between the two halves of its own creation.             *)
Misses(c) == at[c] = "set" /\ at'[c] = "done" /\ ~ Found(c)
ChosenKept ==
  [][\A a \in chosen \cap stored' :
       \/ \E b \in chosen' : Alike(a, b)
       \/ \E c \in Calls : Misses(c) /\ Alike(a, c)]_storeVars
=============================================================================
