----------------------------- MODULE Customers -----------------------------
(***************************************************************************)
(* The gateway's mutations of customers with the auth and the account      *)
(* service under them, next to calls of the account service itself:        *)
(*   Register      auth.Register, account.UpdateProfile, auth.Login;       *)
(*   UpdateProfile account.GetProfile, account.UpdateProfile and, when an  *)
(*                 address is given, account.CreateAddress.                *)
(* The id of a user is the call that registers it.  Of a profile, a field  *)
(* is named after the call that has set it.                                *)
(***************************************************************************)
EXTENDS AddressBook

CONSTANTS
  Fields,       \* of a profile: name and phone
  Blank,        \* the empty string; no token
  Arrivals      \* the sets of calls that may arrive together

ASSUME CustomersAssumption ==
  /\ Blank \notin Calls
  /\ "name" \in Fields
  /\ \A c \in Calls : Asked[c].op = "update" => Asked[c].fields \subseteq Fields
  /\ Arrivals \subseteq SUBSET Calls

VARIABLES
  users,        \* the rows of auth's users
  token,        \* token[r]: the user of the token that register call r returned
  profiles,     \* users with a row in account's profiles
  profile,      \* profile[u]: its fields
  draft,        \* draft[c]: the fields that call c is about to write
  careless      \* users whose profile was written after a failed read, or by
                \* two calls at the same time

customerVars == <<users, token, profiles, profile, draft, careless>>
vars == <<bookVars, customerVars>>

Registrations == {c \in Calls : Asked[c].op = "register"}
NoFields == [f \in Fields |-> Blank]

Init ==
  /\ BookInit
  /\ \E arrivals \in Arrivals :
       pc = [c \in Calls |-> IF c \in arrivals THEN "idle" ELSE "answered"]
  /\ users = {} /\ profiles = {} /\ careless = {}
  /\ token = [r \in Registrations |-> Blank]
  /\ profile = [u \in Registrations |-> NoFields]
  /\ draft = [c \in Calls |-> NoFields]

UserOf(c) == IF c \in Registrations THEN c ELSE Asked[c].user

(* A call arrives.  All but Register need the id of a user that exists,    *)
(* and those about an address its id.                                      *)
FirstPoint(op) ==
  CASE op = "register" -> "lookup" [] op = "update" -> "fetch"
    [] op = "create"   -> "insert" [] op = "set"    -> "begin"
    [] OTHER           -> "delete"
Arrive(c) ==
  /\ At(c, "idle")
  /\ c \notin Registrations => Asked[c].user \in users
  /\ Asked[c].op \in {"set", "delete"} => Asked[c].target \in live
  /\ Goto(c, FirstPoint(Asked[c].op))
  /\ UNCHANGED <<rowVars, lockVars, faults, customerVars>>

-----------------------------------------------------------------------------
(* Register: GetByEmail, Create (its email is unique), then the profile,   *)
(* whose error is ignored, and Login.                                      *)
OfEmail(email) == {u \in users : Asked[u].email = email}
Taken(r) == OfEmail(Asked[r].email) # {}

LookUpEmail(r) ==
  /\ At(r, "lookup")
  /\ IF Taken(r) THEN Answer(r, "refused") ELSE Goto(r, "create")
  /\ UNCHANGED <<rowVars, lockVars, faults, customerVars>>

(* Mutant of CreateUser: the email was looked up before.                   *)
CreateUserUnchecked(r) ==
  /\ At(r, "create")
  /\ users' = users \cup {r}
  /\ draft' = [draft EXCEPT ![r]["name"] = r]
  /\ Goto(r, "profile")
  /\ UNCHANGED <<rowVars, lockVars, faults, token, profiles, profile, careless>>

CreateUser(r) ==
  /\ At(r, "create")
  /\ IF Taken(r)
     THEN Answer(r, "refused") /\ UNCHANGED <<users, draft>>
     ELSE /\ users' = users \cup {r}
          /\ draft' = [draft EXCEPT ![r]["name"] = r]
          /\ Goto(r, "profile")
  /\ UNCHANGED <<rowVars, lockVars, faults, token, profiles, profile, careless>>

ProfileFails(r) ==
  /\ At(r, "profile") /\ r \in Registrations
  /\ Fault
  /\ Goto(r, "login")
  /\ UNCHANGED <<rowVars, lockVars, customerVars>>

Login(r) ==
  /\ At(r, "login")
  /\ \E u \in OfEmail(Asked[r].email) : token' = [token EXCEPT ![r] = u]
  /\ Answer(r, "ok")
  /\ UNCHANGED <<rowVars, lockVars, faults, users, profiles, profile, draft, careless>>

-----------------------------------------------------------------------------
(* UpdateProfile of the gateway.                                           *)
Drafted(c, fields) ==
  draft' = [draft EXCEPT ![c] = [f \in Fields |-> IF f \in Asked[c].fields THEN c ELSE fields[f]]]
BeingWritten(u) == \E d \in Calls : At(d, "profile") /\ UserOf(d) = u

(* Mutant of Fetch: what is not given is not looked up.                    *)
FetchNothing(c) ==
  /\ At(c, "fetch")
  /\ Drafted(c, NoFields)
  /\ careless' = IF BeingWritten(UserOf(c)) THEN careless \cup {UserOf(c)} ELSE careless
  /\ Goto(c, "profile")
  /\ UNCHANGED <<rowVars, lockVars, faults, users, token, profiles, profile>>

(* The fields that are not given are taken from the profile.               *)
Fetch(c) ==
  /\ At(c, "fetch")
  /\ Drafted(c, profile[UserOf(c)])
  /\ careless' = IF BeingWritten(UserOf(c)) THEN careless \cup {UserOf(c)} ELSE careless
  /\ Goto(c, "profile")
  /\ UNCHANGED <<rowVars, lockVars, faults, users, token, profiles, profile>>

(* GetProfile fails for whatever reason: they are blank.                   *)
FetchFails(c) ==
  /\ At(c, "fetch") /\ Fault
  /\ Drafted(c, NoFields)
  /\ careless' = careless \cup {UserOf(c)}
  /\ Goto(c, "profile")
  /\ UNCHANGED <<rowVars, lockVars, users, token, profiles, profile>>

(* UpdateProfile of the account service, for both mutations: whether it    *)
(* finds the profile and updates it or inserts it, "on conflict" over      *)
(* another, all the fields are written.                                    *)
WriteProfile(c) ==
  /\ At(c, "profile")
  /\ profiles' = profiles \cup {UserOf(c)}
  /\ profile' = [profile EXCEPT ![UserOf(c)] = draft[c]]
  /\ IF c \in Registrations THEN Goto(c, "login")
     ELSE IF Asked[c].address THEN Goto(c, "insert")
     ELSE Answer(c, "ok")
  /\ UNCHANGED <<rowVars, lockVars, faults, users, token, draft, careless>>

(* The error of CreateAddress is ignored.                                  *)
InsertFails(c) ==
  /\ At(c, "insert") /\ Asked[c].op = "update"
  /\ Fault
  /\ Answer(c, "ok")
  /\ UNCHANGED <<rowVars, lockVars, customerVars>>

Step(c) ==
  \/ LookUpEmail(c) \/ CreateUser(c) \/ Login(c)
  \/ Fetch(c) \/ WriteProfile(c)
  \/ AddressStep(c, profiles) /\ UNCHANGED customerVars
Failure(c) ==
  \/ ProfileFails(c) \/ FetchFails(c) \/ InsertFails(c)
  \/ (SetFails(c) \/ Break(c)) /\ UNCHANGED customerVars

Next == \E c \in Calls : Arrive(c) \/ Step(c) \/ Failure(c)

Spec == Init /\ [][Next]_vars /\ \A c \in Calls : WF_vars(Step(c))

-----------------------------------------------------------------------------
Points == {"idle", "lookup", "create", "login", "fetch", "profile", "insert",
           "begin", "reset", "commit", "delete", "answered"}

TypeOK ==
  /\ BookTypeOK(Points)
  /\ users \subseteq Registrations /\ profiles \subseteq users /\ careless \subseteq users
  /\ token \in [Registrations -> Registrations \cup {Blank}]
  /\ profile \in [Registrations -> [Fields -> Calls \cup {Blank}]]
  /\ draft \in [Calls -> [Fields -> Calls \cup {Blank}]]

(* However registrations of one email race, one of them makes the account, *)
(* and a registration that succeeds gets the token of its own user.        *)
OwnAccount ==
  /\ \A u, v \in users : Asked[u].email = Asked[v].email => u = v
  /\ \A r \in Registrations : token[r] \in {r, Blank}

(* What an update has set stays set: no later update of other fields, and  *)
(* no registration that comes late, blanks it, unless two of them were     *)
(* under way at once or the profile could not be read.                     *)
FieldsKept ==
  \A c \in Calls :
    Asked[c].op = "update" /\ result[c] = "ok" /\ UserOf(c) \notin careless
      => \A f \in Asked[c].fields : profile[UserOf(c)][f] # Blank

(* Every call that has arrived is answered, even when transactions wait    *)
(* for one another.                                                        *)
EveryCallAnswered == <>[](\A c \in Calls : pc[c] \in {"idle", "answered"})
=============================================================================
