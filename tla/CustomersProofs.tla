-------------------------- MODULE CustomersProofs --------------------------
(***************************************************************************)
(* What Customers and AddressBook keep for every set of calls.             *)
(*                                                                         *)
(* Addresses: while a SetDefaultAddress is past its snapshot, every        *)
(* address of its user and type that was not inserted since is among the   *)
(* rows that it has yet to take or holds; so the commit leaves no other    *)
(* default among them.  That a row is taken by one transaction at a time   *)
(* is only needed to keep the held rows in the table.                      *)
(*                                                                         *)
(* Profiles: unless a user is careless, one call at a time is about to     *)
(* write the profile, and its draft holds whatever the profile does.       *)
(***************************************************************************)
EXTENDS Customers, MemoryAddresses, FiniteSetTheorems, TLAPS

Snapshot ==
  /\ \A c \in Calls : InTransaction(c) =>
       \A a \in live \ overlapped : Alike(a, c) => a \in todo[c] \cup held[c]
  /\ \A c \in Calls : \A a \in held[c] \cup todo[c] : Alike(a, c)
  /\ \A c \in Calls : held[c] \subseteq live
  /\ \A c \in Calls : At(c, "commit") => todo[c] = {} /\ Target(c) \in held[c]

(* Which calls get where.                                                  *)
OnPath(c, point) ==
  /\ point \in {"lookup", "create", "login"} => c \in Registrations
  /\ point = "fetch" => Asked[c].op = "update"
  /\ point = "profile" => Asked[c].op \in {"register", "update"}
  /\ point = "delete" => Asked[c].op = "delete"
  /\ point \notin {"idle", "lookup", "create", "answered"} => UserOf(c) \in users
  /\ c \in Registrations /\ point \in {"idle", "lookup", "create"} => c \notin users
Paths == \A c \in Calls : OnPath(c, pc[c])

Written(c) ==
  /\ Asked[c].op = "update"
  /\ result[c] = "ok" \/ pc[c] \in {"insert", "begin", "reset", "commit"}

Drafts ==
  /\ \A u \in Registrations \ users : profile[u] = NoFields
  /\ \A c, d \in Calls :
       c # d /\ At(c, "profile") /\ At(d, "profile") /\ UserOf(c) = UserOf(d)
         => UserOf(c) \in careless
  /\ \A c \in Calls : At(c, "profile") /\ UserOf(c) \notin careless =>
       \A f \in Fields : profile[UserOf(c)][f] # Blank => draft[c][f] # Blank
  /\ \A c \in Calls : At(c, "profile") /\ Asked[c].op = "update" =>
       \A f \in Asked[c].fields : draft[c][f] # Blank
  /\ \A c \in Calls : Written(c) /\ UserOf(c) \notin careless =>
       \A f \in Asked[c].fields : profile[UserOf(c)][f] # Blank

IInv == TypeOK /\ Snapshot /\ Paths /\ OneDefault /\ OwnAccount /\ Drafts

-----------------------------------------------------------------------------
(* The initial states.                                                     *)
LEMMA InitOK == Init => IInv
<1> SUFFICES ASSUME Init PROVE IInv
  OBVIOUS
<1> USE CallsAssumption, CustomersAssumption DEF Init, BookInit
<1>1. TypeOK
  BY DEF TypeOK, BookTypeOK, Points, NoFields, InTransaction, At
<1>2. Snapshot /\ OneDefault
  BY DEF Snapshot, OneDefault, InTransaction, At
<1>3. Paths /\ OwnAccount
  BY DEF Paths, OnPath, OwnAccount
<1>4. Drafts
  BY DEF Drafts, Written, At
<1> QED
  BY <1>1, <1>2, <1>3, <1>4 DEF IInv

(* Steps that leave the locks alone.                                       *)
LEMMA StillTyped ==
  ASSUME BookTypeOK(Points), NEW c \in Calls, ~ InTransaction(c),
         NEW p \in Points, pc' = [pc EXCEPT ![c] = p],
         result' = result \/ \E r \in {"ok", "refused", "failed"} : result' = [result EXCEPT ![c] = r],
         live' \subseteq Calls, default' \subseteq live',
         overlapped' \subseteq Calls, unsettled' \subseteq Calls,
         faults' \in 0..MaxFaults, UNCHANGED lockVars
  PROVE  BookTypeOK(Points)'
BY DEF BookTypeOK, InTransaction, At, lockVars

(* Steps that register nobody.                                             *)
LEMMA StillOnPath ==
  ASSUME BookTypeOK(Points), Paths, NEW c \in Calls, NEW p \in Points,
         pc' = [pc EXCEPT ![c] = p], OnPath(c, p), users' = users
  PROVE  Paths'
<1>1. \A d \in Calls : pc'[d] = IF d = c THEN p ELSE pc[d]
  BY DEF BookTypeOK
<1>2. \A d \in Calls, q \in Points : OnPath(d, q)' <=> OnPath(d, q)
  BY DEF OnPath, UserOf
<1>3. \A d \in Calls : pc[d] \in Points
  BY DEF BookTypeOK
<1>4. \A d \in Calls : OnPath(d, pc[d])
  BY DEF Paths
<1>5. \A d \in Calls : OnPath(d, pc'[d])
  BY <1>1, <1>4
<1>6. \A d \in Calls : pc'[d] \in Points
  BY <1>1, <1>3
<1> QED
  BY <1>5, <1>6 DEF Paths, OnPath, UserOf

(* A step that changes neither rows nor locks and starts no transaction.   *)
LEMMA Elsewhere ==
  ASSUME BookTypeOK(Points), Snapshot, NEW c \in Calls, NEW p \in Points,
         pc' = [pc EXCEPT ![c] = p], p \notin {"reset", "commit"},
         UNCHANGED <<rowVars, lockVars>>
  PROVE  Snapshot'
BY DEF BookTypeOK, Snapshot, InTransaction, At, Alike, rowVars, lockVars

(* A step that touches no profile and that makes no call a writer of one.  *)
LEMMA StillKept ==
  ASSUME BookTypeOK(Points), Drafts, UNCHANGED <<users, profile, draft, careless>>,
         NEW c \in Calls, NEW p \in Points, pc' = [pc EXCEPT ![c] = p], p # "profile",
         result' = result \/ \E r \in {"ok", "refused", "failed"} : result' = [result EXCEPT ![c] = r],
         Written(c)' => Written(c)
  PROVE  Drafts'
<1>1. \A d \in Calls : At(d, "profile")' => At(d, "profile")
  BY DEF BookTypeOK, At
<1>2. \A d \in Calls : Written(d)' => Written(d)
  BY DEF BookTypeOK, Written
<1> QED
  BY <1>1, <1>2 DEF Drafts, customerVars

(* A call goes on or ends outside of a transaction and writes nothing.     *)
LEMMA MoveKeeps ==
  ASSUME IInv, NEW c \in Calls, ~ InTransaction(c), NEW p \in Points,
         pc' = [pc EXCEPT ![c] = p], p \notin {"reset", "commit", "profile"}, OnPath(c, p),
         result' = result \/ \E r \in {"ok", "refused", "failed"} : result' = [result EXCEPT ![c] = r],
         Written(c)' => Written(c),
         faults' \in 0..MaxFaults, UNCHANGED <<rowVars, lockVars, customerVars>>
  PROVE  IInv'
<1>1. TypeOK'
  <2>1. BookTypeOK(Points)'
    BY StillTyped DEF IInv, TypeOK, BookTypeOK, rowVars
  <2> QED
    BY <2>1 DEF IInv, TypeOK, customerVars, Registrations, NoFields
<1>2. Snapshot'
  BY Elsewhere DEF IInv, TypeOK
<1>3. Paths'
  BY StillOnPath DEF IInv, TypeOK, customerVars
<1>4. OneDefault' /\ OwnAccount'
  BY DEF IInv, OneDefault, OwnAccount, Alike, rowVars, customerVars
<1>5. Drafts'
  BY StillKept DEF IInv, TypeOK, customerVars
<1> QED
  BY <1>1, <1>2, <1>3, <1>4, <1>5 DEF IInv

(* A call ends and PostgreSQL takes back the transaction that it may have. *)
LEMMA RollbackKeeps ==
  ASSUME IInv, NEW c \in Calls, NEW r \in {"ok", "refused", "failed"}, Release(c), Answer(c, r),
         r = "ok" => Asked[c].op # "update" \/ Written(c),
         faults' \in 0..MaxFaults, UNCHANGED <<rowVars, customerVars>>
  PROVE  IInv'
<1>0. /\ "answered" \in Points /\ pc' = [pc EXCEPT ![c] = "answered"]
      /\ result' = [result EXCEPT ![c] = r]
      /\ BookTypeOK(Points) /\ OnPath(c, "answered")
  BY DEF Points, Answer, IInv, TypeOK, OnPath
<1>1. \A d \in Calls : /\ InTransaction(d)' <=> d # c /\ InTransaction(d)
                       /\ At(d, "commit")' <=> d # c /\ At(d, "commit")
                       /\ held'[d] = IF d = c THEN {} ELSE held[d]
                       /\ todo'[d] = IF d = c THEN {} ELSE todo[d]
  BY <1>0 DEF BookTypeOK, InTransaction, At, Release
<1>2. TypeOK'
  <2>1. /\ held' \in [Calls -> SUBSET Calls] /\ todo' \in [Calls -> SUBSET Calls]
        /\ pc' \in [Calls -> Points] /\ result' \in [Calls -> {"none", "ok", "refused", "failed"}]
    BY <1>0 DEF BookTypeOK, Release
  <2>2. \A d \in Calls : (held'[d] \cup todo'[d] # {}) => InTransaction(d)'
    BY <1>0, <1>1 DEF BookTypeOK
  <2>3. BookTypeOK(Points)'
    BY <1>0, <2>1, <2>2 DEF BookTypeOK, rowVars
  <2> QED
    BY <2>3 DEF IInv, TypeOK, customerVars
<1>3. Snapshot'
  BY <1>1 DEF IInv, Snapshot, Alike, rowVars, Target, Own
<1>4. Paths'
  BY <1>0, StillOnPath DEF IInv, customerVars
<1>5. OneDefault' /\ OwnAccount'
  BY DEF IInv, OneDefault, OwnAccount, Alike, rowVars, customerVars
<1>6. Drafts'
  <2>1. Written(c)' => Written(c)
    BY <1>0 DEF Written, BookTypeOK
  <2> QED
    BY <1>0, <2>1, StillKept DEF IInv, customerVars
<1> QED
  BY <1>2, <1>3, <1>4, <1>5, <1>6 DEF IInv

(* The draft of an update that reads the profile, or cannot.               *)
LEMMA DraftedKept ==
  ASSUME IInv, NEW c \in Calls, At(c, "fetch"), NEW fields \in [Fields -> Calls \cup {Blank}],
         Drafted(c, fields), Goto(c, "profile"), UNCHANGED <<users, profile>>,
         careless \subseteq careless',
         BeingWritten(UserOf(c)) => UserOf(c) \in careless',
         fields = profile[UserOf(c)] \/ UserOf(c) \in careless'
  PROVE  Drafts'
<1>0. /\ \A d \in Calls : At(d, "profile")' <=> d = c \/ At(d, "profile")
      /\ \A d \in Calls : Written(d)' => Written(d)
      /\ \A d \in Calls : d # c => draft'[d] = draft[d]
      /\ \A f \in Fields : draft'[c][f] = IF f \in Asked[c].fields THEN c ELSE fields[f]
  <2> USE DEF IInv, TypeOK, BookTypeOK, Goto, At
  <2>1. \A d \in Calls : pc'[d] = IF d = c THEN "profile" ELSE pc[d]
    BY DEF Goto
  <2>2. \A d \in Calls : Written(d)' => Written(d)
    BY <2>1 DEF Written, Goto
  <2>3. draft' = [draft EXCEPT ![c] = [f \in Fields |-> IF f \in Asked[c].fields THEN c ELSE fields[f]]]
    BY DEF Drafted
  <2> QED
    BY <2>1, <2>2, <2>3
<1>1. c # Blank /\ Asked[c].op = "update" /\ Asked[c].fields \subseteq Fields
  BY CustomersAssumption DEF IInv, Paths, OnPath, At
<1>2. \A u \in Registrations \ users' : profile'[u] = NoFields
  BY DEF IInv, Drafts
<1>3. ASSUME NEW d \in Calls, NEW e \in Calls, d # e, At(d, "profile")', At(e, "profile")',
             UserOf(d) = UserOf(e)
      PROVE  UserOf(d) \in careless'
  <2>1. CASE d # c /\ e # c
    BY <1>0, <1>3, <2>1 DEF IInv, Drafts
  <2>2. CASE d = c \/ e = c
    BY <1>0, <1>3, <2>2 DEF BeingWritten
  <2> QED
    BY <2>1, <2>2
<1>4. ASSUME NEW d \in Calls, At(d, "profile")', UserOf(d) \notin careless', NEW f \in Fields,
             profile'[UserOf(d)][f] # Blank
      PROVE  draft'[d][f] # Blank
  <2>1. CASE d = c
    BY <1>0, <1>1, <1>4, <2>1
  <2>2. CASE d # c
    BY <1>0, <1>4, <2>2 DEF IInv, Drafts
  <2> QED
    BY <2>1, <2>2
<1>5. ASSUME NEW d \in Calls, At(d, "profile")', Asked[d].op = "update", NEW f \in Asked[d].fields
      PROVE  draft'[d][f] # Blank
  <2>1. CASE d = c
    BY <1>0, <1>1, <1>5, <2>1
  <2>2. CASE d # c
    BY <1>0, <1>5, <2>2 DEF IInv, Drafts
  <2> QED
    BY <2>1, <2>2
<1>6. ASSUME NEW d \in Calls, Written(d)', UserOf(d) \notin careless', NEW f \in Asked[d].fields
      PROVE  profile'[UserOf(d)][f] # Blank
  BY <1>0, <1>6 DEF IInv, Drafts
<1> QED
  BY <1>2, <1>3, <1>4, <1>5, <1>6 DEF Drafts, UserOf, Registrations

(* The calls of the address book.                                          *)
LEMMA AddressStepKeeps ==
  ASSUME IInv, NEW c \in Calls, (AddressStep(c, profiles) \/ SetFails(c) \/ Break(c)) /\ UNCHANGED customerVars
  PROVE  IInv'
<1> USE CallsAssumption, CustomersAssumption DEF IInv, rowVars, lockVars, callVars, Goto, Answer, At, customerVars
<1>1. CASE Insert(c, profiles)
  <2>1. BookTypeOK(Points)'
    <3>1. PICK p \in Points : pc' = [pc EXCEPT ![c] = p]
      BY <1>1 DEF Insert, Points
    <3>2. result' = result \/ \E r \in {"ok", "refused", "failed"} : result' = [result EXCEPT ![c] = r]
      BY <1>1 DEF Insert
    <3>3. /\ live' \subseteq Calls /\ default' \subseteq live' /\ overlapped' \subseteq Calls
          /\ unsettled' \subseteq Calls /\ faults' \in 0..MaxFaults /\ UNCHANGED lockVars
          /\ ~ InTransaction(c)
      BY <1>1 DEF Insert, TypeOK, BookTypeOK, InTransaction
    <3> QED
      BY <3>1, <3>2, <3>3, StillTyped DEF TypeOK
  <2>2. TypeOK'
    BY <1>1, <2>1 DEF Insert, TypeOK, Points, Paths, OnPath, UserOf, Registrations
  <2>3. Snapshot'
    <3>1. /\ \A d \in Calls : (InTransaction(d)' <=> InTransaction(d)) /\ (At(d, "commit")' <=> At(d, "commit"))
          /\ live' = live \cup {c} /\ UNCHANGED lockVars /\ overlapped \subseteq overlapped'
          /\ (\E d \in Calls : InTransaction(d) /\ Alike(c, d)) => c \in overlapped'
      BY <1>1 DEF Insert, TypeOK, BookTypeOK, InTransaction
    <3>2. \A d \in Calls : InTransaction(d)' =>
            \A a \in live' \ overlapped' : Alike(a, d) => a \in todo'[d] \cup held'[d]
      BY <3>1 DEF Snapshot
    <3>3. \A d \in Calls : \A a \in held'[d] \cup todo'[d] : Alike(a, d)
      BY <3>1 DEF Snapshot
    <3>4. \A d \in Calls : held'[d] \subseteq live'
      BY <3>1 DEF Snapshot
    <3>5. \A d \in Calls : At(d, "commit")' => todo'[d] = {} /\ Target(d) \in held'[d]
      BY <3>1 DEF Snapshot
    <3> QED
      BY <3>2, <3>3, <3>4, <3>5 DEF Snapshot, Alike, Target, Own
  <2>4. Paths'
    BY <1>1 DEF Insert, TypeOK, BookTypeOK, Paths, OnPath, InTransaction, UserOf, Registrations
  <2>5. OneDefault'
    <3>1. /\ default' \subseteq default \cup {c} /\ unsettled \subseteq unsettled'
          /\ overlapped \subseteq overlapped' /\ (c \in default' => c \in default \/ c \in unsettled')
      BY <1>1 DEF Insert
    <3> QED
      BY <3>1 DEF OneDefault, Alike
  <2>6. OwnAccount'
    BY <1>1 DEF Insert, TypeOK, Paths, OnPath, OwnAccount
  <2>7. Drafts'
    <3>1. PICK p \in Points : pc' = [pc EXCEPT ![c] = p] /\ p # "profile"
      BY <1>1 DEF Insert, Points
    <3>2. result' = result \/ \E r \in {"ok", "refused", "failed"} : result' = [result EXCEPT ![c] = r]
      BY <1>1 DEF Insert, Outcome
    <3>3. Written(c)' => Written(c)
      BY <1>1 DEF Insert, Written, Outcome, Own, TypeOK, BookTypeOK, Paths, OnPath, InTransaction
    <3> QED
      BY <1>1, <3>1, <3>2, <3>3, StillKept DEF Insert, TypeOK
  <2> QED
    BY <2>2, <2>3, <2>4, <2>5, <2>6, <2>7
<1>2. CASE NoProfile(c, profiles)
  <2>1. /\ ~ InTransaction(c) /\ faults' \in 0..MaxFaults
        /\ UNCHANGED <<rowVars, lockVars, customerVars>>
    BY <1>2 DEF NoProfile, InTransaction, TypeOK, BookTypeOK
  <2>2. PICK p \in {"answered"} :
          pc' = [pc EXCEPT ![c] = p] /\ OnPath(c, p)
    BY <1>2 DEF NoProfile, Paths, OnPath
  <2>3. result' = result \/ \E r \in {"ok", "refused", "failed"} : result' = [result EXCEPT ![c] = r]
    BY <1>2 DEF NoProfile
  <2>4. Written(c)' => Written(c)
    BY <1>2 DEF NoProfile, Written, TypeOK, BookTypeOK
  <2>5. p \in Points
    BY DEF Points
  <2> QED
    BY <2>1, <2>2, <2>3, <2>4, <2>5, MoveKeeps
<1>3. CASE Begin(c)
  <2>1. BookTypeOK(Points)'
    BY <1>3 DEF Begin, TypeOK, BookTypeOK, Points, InTransaction, Outcome, Own
  <2>2. TypeOK'
    BY <1>3, <2>1 DEF Begin, TypeOK, Points, Paths, OnPath, UserOf, Registrations
  <2>3. Snapshot'
    BY <1>3 DEF Begin, TypeOK, BookTypeOK, Snapshot, InTransaction, Alike, Target, Outcome, Own
  <2>4. Paths'
    BY <1>3 DEF Begin, TypeOK, BookTypeOK, Paths, OnPath, InTransaction, UserOf, Registrations
  <2>5. OneDefault'
    BY <1>3 DEF Begin, TypeOK, BookTypeOK, Snapshot, OneDefault, Alike, InTransaction
  <2>6. OwnAccount'
    BY <1>3 DEF Begin, TypeOK, Paths, OnPath, OwnAccount
  <2>7. Drafts'
    <3>1. /\ "reset" \in Points /\ pc' = [pc EXCEPT ![c] = "reset"]
          /\ result' = result \/ result' = [result EXCEPT ![c] = "ok"]
          /\ UNCHANGED customerVars
      BY <1>3 DEF Begin, Points, TypeOK, BookTypeOK
    <3>2. Written(c)' => Written(c)
      BY <1>3 DEF Begin, Written, TypeOK, BookTypeOK
    <3> QED
      BY <3>1, <3>2, StillKept DEF TypeOK
  <2> QED
    BY <2>2, <2>3, <2>4, <2>5, <2>6, <2>7
<1>4. CASE \E a \in todo[c] : Reset(c, a)
  <2>1. BookTypeOK(Points)'
    BY <1>4 DEF Reset, TypeOK, BookTypeOK, Points, InTransaction, Outcome, Own
  <2>2. TypeOK'
    BY <1>4, <2>1 DEF Reset, TypeOK, Points, Paths, OnPath, UserOf, Registrations
  <2>3. Snapshot'
    BY <1>4 DEF Reset, TypeOK, BookTypeOK, Snapshot, InTransaction, Alike, Target, Outcome, Own
  <2>4. Paths'
    BY <1>4 DEF Reset, TypeOK, BookTypeOK, Paths, OnPath, InTransaction, UserOf, Registrations
  <2>5. OneDefault'
    BY <1>4 DEF Reset, TypeOK, BookTypeOK, Snapshot, OneDefault, Alike, InTransaction
  <2>6. OwnAccount'
    BY <1>4 DEF Reset, TypeOK, Paths, OnPath, OwnAccount
  <2>7. Drafts'
    <3>1. /\ "reset" \in Points /\ pc' = [pc EXCEPT ![c] = "reset"]
          /\ result' = result \/ result' = [result EXCEPT ![c] = "ok"]
          /\ UNCHANGED customerVars
      BY <1>4 DEF Reset, Points, TypeOK, BookTypeOK
    <3>2. Written(c)' => Written(c)
      BY <1>4 DEF Reset, Written, TypeOK, BookTypeOK
    <3> QED
      BY <3>1, <3>2, StillKept DEF TypeOK
  <2> QED
    BY <2>2, <2>3, <2>4, <2>5, <2>6, <2>7
<1>5. CASE Mark(c)
  <2>1. BookTypeOK(Points)'
    BY <1>5 DEF Mark, TargetFound, TypeOK, BookTypeOK, Points, InTransaction, Outcome, Own
  <2>2. TypeOK'
    BY <1>5, <2>1 DEF Mark, TargetFound, TypeOK, Points, Paths, OnPath, UserOf, Registrations
  <2>3. Snapshot'
    <3>1. /\ todo[c] = {} /\ Target(c) \in live /\ Alike(Target(c), c) /\ InTransaction(c)
          /\ UNCHANGED <<rowVars, todo>>
      BY <1>5 DEF Mark, TargetFound, InTransaction
    <3>2. \A d \in Calls :
            /\ InTransaction(d)' <=> InTransaction(d)
            /\ At(d, "commit")' <=> d = c \/ At(d, "commit")
            /\ held'[d] = IF d = c THEN held[c] \cup {Target(c)} ELSE held[d]
      BY <1>5 DEF Mark, TypeOK, BookTypeOK, InTransaction
    <3> QED
      BY <3>1, <3>2 DEF Snapshot, Alike, Target, Own
  <2>4. Paths'
    BY <1>5 DEF Mark, TargetFound, TypeOK, BookTypeOK, Paths, OnPath, InTransaction, UserOf, Registrations
  <2>5. OneDefault'
    BY <1>5 DEF Mark, TargetFound, TypeOK, BookTypeOK, Snapshot, OneDefault, Alike, InTransaction
  <2>6. OwnAccount'
    BY <1>5 DEF Mark, TargetFound, TypeOK, Paths, OnPath, OwnAccount
  <2>7. Drafts'
    <3>1. /\ "commit" \in Points /\ pc' = [pc EXCEPT ![c] = "commit"]
          /\ result' = result \/ result' = [result EXCEPT ![c] = "ok"]
          /\ UNCHANGED customerVars
      BY <1>5 DEF Mark, Points, TypeOK, BookTypeOK
    <3>2. Written(c)' => Written(c)
      BY <1>5 DEF Mark, Written, TypeOK, BookTypeOK
    <3> QED
      BY <3>1, <3>2, StillKept DEF TypeOK
  <2> QED
    BY <2>2, <2>3, <2>4, <2>5, <2>6, <2>7
<1>6. CASE Refuse(c)
  <2>1. /\ Release(c) /\ Answer(c, Outcome(c, "refused")) /\ faults' \in 0..MaxFaults
        /\ UNCHANGED <<rowVars, customerVars>>
    BY <1>6 DEF Refuse, TypeOK, BookTypeOK
  <2>2. Outcome(c, "refused") \in {"ok", "refused", "failed"} /\ (Outcome(c, "refused") = "ok" => Asked[c].op # "update" \/ Written(c))
    BY <1>6 DEF Refuse, Outcome, Own, Written, InTransaction
  <2> QED
    BY <2>1, <2>2, RollbackKeeps
<1>7. CASE Commit(c)
  <2>0. /\ Target(c) \in held[c] /\ todo[c] = {} /\ Target(c) \in live
        /\ \A a \in held[c] : Alike(a, c)
    BY <1>7 DEF Commit, Snapshot
  <2>1. BookTypeOK(Points)'
    BY <1>7, <2>0 DEF Commit, Release, TypeOK, BookTypeOK, Points, InTransaction, Target, Own
  <2>2. TypeOK'
    BY <1>7, <2>1, <2>0 DEF Commit, Release, TypeOK, Points, Paths, OnPath, UserOf, Registrations
  <2>3. Snapshot'
    BY <1>7, <2>0 DEF Commit, Release, TypeOK, BookTypeOK, Snapshot, InTransaction, Alike, Target, Outcome, Own
  <2>4. Paths'
    BY <1>7, <2>0 DEF Commit, Release, TypeOK, BookTypeOK, Paths, OnPath, InTransaction, UserOf, Registrations
  <2>5. OneDefault'
    <3> SUFFICES ASSUME NEW a \in default', NEW b \in default', a # b, Alike(a, b),
                        a \notin overlapped, b \notin overlapped,
                        a \notin unsettled', b \notin unsettled'
                 PROVE  FALSE
      BY <1>7 DEF OneDefault, Commit
    <3>1. a \in (default \ held[c]) \cup {Target(c)} /\ b \in (default \ held[c]) \cup {Target(c)}
      BY <1>7 DEF Commit
    <3>2. CASE a = Target(c) \/ b = Target(c)
      <4>1. \A d \in live : Alike(d, c) /\ d \notin overlapped => d \in held[c]
        BY <1>7, <2>0 DEF Commit, Snapshot, InTransaction
      <4> QED
        BY <3>1, <3>2, <4>1, <2>0 DEF Alike, TypeOK, BookTypeOK
    <3>3. CASE a # Target(c) /\ b # Target(c)
      BY <1>7, <3>1, <3>3 DEF Commit, OneDefault
    <3> QED
      BY <3>2, <3>3
  <2>6. OwnAccount'
    BY <1>7, <2>0 DEF Commit, Release, TypeOK, Paths, OnPath, OwnAccount
  <2>7. Drafts'
    <3>1. /\ "answered" \in Points /\ pc' = [pc EXCEPT ![c] = "answered"]
          /\ result' = result \/ result' = [result EXCEPT ![c] = "ok"]
          /\ UNCHANGED customerVars
      BY <1>7 DEF Commit, Points, TypeOK, BookTypeOK
    <3>2. Written(c)' => Written(c)
      BY <1>7 DEF Commit, Written, TypeOK, BookTypeOK
    <3> QED
      BY <3>1, <3>2, StillKept DEF TypeOK
  <2> QED
    BY <2>2, <2>3, <2>4, <2>5, <2>6, <2>7
<1>8. CASE Abort(c)
  <2>1. /\ Release(c) /\ Answer(c, Outcome(c, "failed")) /\ faults' \in 0..MaxFaults
        /\ UNCHANGED <<rowVars, customerVars>>
    BY <1>8 DEF Abort, Deadlocked, Stuck, TypeOK, BookTypeOK
  <2>2. Outcome(c, "failed") \in {"ok", "refused", "failed"} /\ (Outcome(c, "failed") = "ok" => Asked[c].op # "update" \/ Written(c))
    BY <1>8 DEF Abort, Deadlocked, Stuck, Outcome, Own, Written, InTransaction
  <2> QED
    BY <2>1, <2>2, RollbackKeeps
<1>9. CASE DeleteAddress(c)
  <2>0. /\ At(c, "delete") /\ live' \subseteq live /\ default' \subseteq default
        /\ \A d \in Calls : held[d] \subseteq live'
        /\ (\E r \in {"ok", "refused"} : Answer(c, r))
        /\ UNCHANGED <<overlapped, unsettled, lockVars, faults>>
    BY <1>9 DEF DeleteAddress, HeldByOther, TypeOK, BookTypeOK, Snapshot, InTransaction
  <2>1. BookTypeOK(Points)'
    <3>1. PICK p \in Points : pc' = [pc EXCEPT ![c] = p]
      BY <2>0 DEF Points
    <3>2. result' = result \/ \E r \in {"ok", "refused", "failed"} : result' = [result EXCEPT ![c] = r]
      BY <2>0
    <3>3. /\ live' \subseteq Calls /\ default' \subseteq live' /\ overlapped' \subseteq Calls
          /\ unsettled' \subseteq Calls /\ faults' \in 0..MaxFaults /\ UNCHANGED lockVars
          /\ ~ InTransaction(c)
      BY <2>0, <1>9 DEF DeleteAddress, TypeOK, BookTypeOK, InTransaction
    <3> QED
      BY <3>1, <3>2, <3>3, StillTyped DEF TypeOK
  <2>2. TypeOK'
    BY <2>0, <2>1 DEF TypeOK, Points, Paths, OnPath, UserOf, Registrations
  <2>3. Snapshot'
    BY <2>0 DEF At, TypeOK, BookTypeOK, Snapshot, InTransaction, Alike, Target, Outcome, Own
  <2>4. Paths'
    BY <2>0 DEF At, TypeOK, BookTypeOK, Paths, OnPath, InTransaction, UserOf, Registrations
  <2>5. OneDefault'
    BY <2>0 DEF At, TypeOK, BookTypeOK, Snapshot, OneDefault, Alike, InTransaction
  <2>6. OwnAccount'
    BY <2>0 DEF At, TypeOK, Paths, OnPath, OwnAccount
  <2>7. Drafts'
    <3>1. PICK p \in Points : pc' = [pc EXCEPT ![c] = p] /\ p # "profile"
      BY <1>9, <2>0 DEF At, Points
    <3>2. result' = result \/ \E r \in {"ok", "refused", "failed"} : result' = [result EXCEPT ![c] = r]
      BY <1>9, <2>0 DEF At, Outcome
    <3>3. Written(c)' => Written(c)
      BY <1>9, <2>0 DEF At, Written, Outcome, Own, TypeOK, BookTypeOK, Paths, OnPath, InTransaction
    <3> QED
      BY <1>9, <2>0, <3>1, <3>2, <3>3, StillKept DEF At, TypeOK
  <2> QED
    BY <2>2, <2>3, <2>4, <2>5, <2>6, <2>7
<1>10. CASE SetFails(c)
  <2>1. /\ Release(c) /\ Answer(c, Outcome(c, "failed")) /\ faults' \in 0..MaxFaults
        /\ UNCHANGED <<rowVars, customerVars>>
    BY <1>10 DEF SetFails, Fault, TypeOK, BookTypeOK
  <2>2. Outcome(c, "failed") \in {"ok", "refused", "failed"} /\ (Outcome(c, "failed") = "ok" => Asked[c].op # "update" \/ Written(c))
    BY <1>10 DEF SetFails, Fault, Outcome, Own, Written, InTransaction
  <2> QED
    BY <2>1, <2>2, RollbackKeeps
<1>11. CASE Break(c)
  <2>1. /\ Release(c) /\ Answer(c, "failed") /\ faults' \in 0..MaxFaults
        /\ UNCHANGED <<rowVars, customerVars>>
    BY <1>11 DEF Break, Fault, TypeOK, BookTypeOK
  <2>2. "failed" \in {"ok", "refused", "failed"} /\ ("failed" = "ok" => Asked[c].op # "update" \/ Written(c))
    BY <1>11 DEF Break, Fault, Outcome, Own, Written, InTransaction
  <2> QED
    BY <2>1, <2>2, RollbackKeeps
<1> QED
  BY <1>1, <1>2, <1>3, <1>4, <1>5, <1>6, <1>7, <1>8, <1>9, <1>10, <1>11 DEF AddressStep

(* The calls of the gateway.                                               *)
LEMMA CustomerStepKeeps ==
  ASSUME IInv, NEW c \in Calls, \/ Arrive(c) \/ LookUpEmail(c) \/ CreateUser(c) \/ ProfileFails(c) \/ Login(c)
         \/ Fetch(c) \/ FetchFails(c) \/ WriteProfile(c) \/ InsertFails(c)
  PROVE  IInv'
<1> USE CallsAssumption, CustomersAssumption DEF IInv, rowVars, lockVars, callVars, Goto, Answer, At, customerVars, NoFields
<1>1. CASE Arrive(c)
  <2>1. /\ ~ InTransaction(c) /\ faults' \in 0..MaxFaults
        /\ UNCHANGED <<rowVars, lockVars, customerVars>>
    BY <1>1 DEF Arrive, FirstPoint, AddressOps, InTransaction, TypeOK, BookTypeOK
  <2>2. PICK p \in {"lookup", "fetch", "insert", "begin", "delete"} :
          pc' = [pc EXCEPT ![c] = p] /\ OnPath(c, p)
    BY <1>1 DEF Arrive, FirstPoint, AddressOps, Paths, OnPath, UserOf, Registrations
  <2>3. result' = result \/ \E r \in {"ok", "refused", "failed"} : result' = [result EXCEPT ![c] = r]
    BY <1>1 DEF Arrive, FirstPoint, AddressOps
  <2>4. Written(c)' => Written(c)
    BY <1>1 DEF Arrive, FirstPoint, AddressOps, Written, TypeOK, BookTypeOK
  <2>5. p \in Points
    BY DEF Points
  <2> QED
    BY <2>1, <2>2, <2>3, <2>4, <2>5, MoveKeeps
<1>2. CASE LookUpEmail(c)
  <2>1. /\ ~ InTransaction(c) /\ faults' \in 0..MaxFaults
        /\ UNCHANGED <<rowVars, lockVars, customerVars>>
    BY <1>2 DEF LookUpEmail, InTransaction, TypeOK, BookTypeOK
  <2>2. PICK p \in {"create", "answered"} :
          pc' = [pc EXCEPT ![c] = p] /\ OnPath(c, p)
    BY <1>2 DEF LookUpEmail, Paths, OnPath
  <2>3. result' = result \/ \E r \in {"ok", "refused", "failed"} : result' = [result EXCEPT ![c] = r]
    BY <1>2 DEF LookUpEmail
  <2>4. Written(c)' => Written(c)
    BY <1>2 DEF LookUpEmail, Written, TypeOK, BookTypeOK
  <2>5. p \in Points
    BY DEF Points
  <2> QED
    BY <2>1, <2>2, <2>3, <2>4, <2>5, MoveKeeps
<1>3. CASE CreateUser(c)
  <2>0. /\ At(c, "create")
        /\ \/ Answer(c, "refused") /\ UNCHANGED <<users, draft>>
           \/ /\ users' = users \cup {c} /\ draft' = [draft EXCEPT ![c]["name"] = c]
              /\ Goto(c, "profile")
              /\ \A u \in users : Asked[u].email # Asked[c].email
        /\ UNCHANGED <<rowVars, lockVars, faults, token, profiles, profile, careless>>
    BY <1>3 DEF CreateUser, Taken, OfEmail
  <2>1. BookTypeOK(Points)'
    <3>1. PICK p \in Points : pc' = [pc EXCEPT ![c] = p]
      BY <2>0 DEF Points
    <3>2. result' = result \/ \E r \in {"ok", "refused", "failed"} : result' = [result EXCEPT ![c] = r]
      BY <2>0
    <3>3. /\ live' \subseteq Calls /\ default' \subseteq live' /\ overlapped' \subseteq Calls
          /\ unsettled' \subseteq Calls /\ faults' \in 0..MaxFaults /\ UNCHANGED lockVars
          /\ ~ InTransaction(c)
      BY <2>0 DEF TypeOK, BookTypeOK, InTransaction
    <3> QED
      BY <3>1, <3>2, <3>3, StillTyped DEF TypeOK
  <2>2. TypeOK'
    <3>1. c \in Registrations /\ users \subseteq users' /\ users' \subseteq users \cup {c}
      BY <2>0 DEF Paths, OnPath
    <3>2. draft' \in [Calls -> [Fields -> Calls \cup {Blank}]]
      <4> DEFINE F == [Fields -> Calls \cup {Blank}]
      <4>1. [draft[c] EXCEPT !["name"] = c] \in F /\ draft \in [Calls -> F]
        BY DEF TypeOK
      <4>2. draft' = draft \/ draft' = [draft EXCEPT ![c] = [draft[c] EXCEPT !["name"] = c]]
        BY <2>0
      <4>3. draft' \in [Calls -> F]
        <5> HIDE DEF F
        <5> QED
          BY <4>1, <4>2
      <4> QED
        BY <4>3
    <3> QED
      BY <2>0, <2>1, <3>1, <3>2 DEF TypeOK
  <2>3. Snapshot'
    <3>1. PICK p \in Points : pc' = [pc EXCEPT ![c] = p] /\ p \notin {"reset", "commit"}
      BY <1>3, <2>0 DEF At, Points
    <3> QED
      BY <1>3, <2>0, <3>1, Elsewhere DEF At, TypeOK
  <2>4. Paths'
    BY <2>0 DEF At, TypeOK, BookTypeOK, Paths, OnPath, InTransaction, UserOf, Registrations
  <2>5. OneDefault'
    BY <2>0 DEF OneDefault, Alike
  <2>6. OwnAccount'
    BY <2>0 DEF At, TypeOK, Paths, OnPath, OwnAccount
  <2>7. Drafts'
    <3>0. c \in Registrations /\ c \notin users /\ UserOf(c) = c
      BY <2>0 DEF Paths, OnPath, UserOf
    <3>1. CASE Answer(c, "refused") /\ UNCHANGED <<users, draft>>
      BY <2>0, <3>0, <3>1 DEF TypeOK, BookTypeOK, Drafts, Written, Registrations
    <3>2. CASE Goto(c, "profile") /\ users' = users \cup {c} /\ draft' = [draft EXCEPT ![c]["name"] = c]
      <4>1. \A d \in Calls : At(d, "profile") => UserOf(d) # c
        BY <3>0 DEF Paths, OnPath
      <4>2. profile[c] = NoFields
        BY <3>0 DEF Drafts
      <4>3. \A d \in Calls : At(d, "profile")' <=> At(d, "profile") \/ d = c
        BY <3>2 DEF TypeOK, BookTypeOK
      <4>4. \A d \in Calls \ {c} : draft'[d] = draft[d]
        BY <3>2 DEF TypeOK
      <4>5. \A d \in Calls : Written(d)' => Written(d)
        BY <2>0, <3>2 DEF Written, TypeOK, BookTypeOK
      <4>6. Asked[c].op # "update"
        BY <3>0 DEF Registrations
      <4> QED
        BY <2>0, <3>0, <3>2, <4>1, <4>2, <4>3, <4>4, <4>5, <4>6 DEF Drafts, UserOf
    <3> QED
      BY <2>0, <3>1, <3>2
  <2> QED
    BY <2>2, <2>3, <2>4, <2>5, <2>6, <2>7
<1>4. CASE ProfileFails(c)
  <2>1. /\ ~ InTransaction(c) /\ faults' \in 0..MaxFaults
        /\ UNCHANGED <<rowVars, lockVars, customerVars>>
    BY <1>4 DEF ProfileFails, Fault, InTransaction, TypeOK, BookTypeOK
  <2>2. PICK p \in {"login"} :
          pc' = [pc EXCEPT ![c] = p] /\ OnPath(c, p)
    BY <1>4 DEF ProfileFails, Fault, Paths, OnPath
  <2>3. result' = result \/ \E r \in {"ok", "refused", "failed"} : result' = [result EXCEPT ![c] = r]
    BY <1>4 DEF ProfileFails, Fault
  <2>4. Written(c)' => Written(c)
    BY <1>4 DEF ProfileFails, Fault, Written, TypeOK, BookTypeOK
  <2>5. p \in Points
    BY DEF Points
  <2> QED
    BY <2>1, <2>2, <2>3, <2>4, <2>5, MoveKeeps
<1>5. CASE Login(c)
  <2>1. BookTypeOK(Points)'
    BY <1>5 DEF Login, OfEmail, TypeOK, BookTypeOK, Points, InTransaction, Outcome, Own
  <2>2. TypeOK'
    BY <1>5, <2>1 DEF Login, OfEmail, TypeOK, Points, Paths, OnPath, UserOf, Registrations
  <2>3. Snapshot'
    BY <1>5 DEF Login, OfEmail, TypeOK, BookTypeOK, Snapshot, InTransaction, Alike, Target, Outcome, Own
  <2>4. Paths'
    BY <1>5 DEF Login, OfEmail, TypeOK, BookTypeOK, Paths, OnPath, InTransaction, UserOf, Registrations
  <2>5. OneDefault'
    BY <1>5 DEF Login, OneDefault, Alike
  <2>6. OwnAccount'
    <3>1. c \in Registrations /\ c \in users
      BY <1>5 DEF Login, Paths, OnPath, UserOf
    <3> QED
      BY <1>5, <3>1 DEF Login, OfEmail, TypeOK, OwnAccount
  <2>7. Drafts'
    <3>1. /\ pc' = [pc EXCEPT ![c] = "answered"] /\ result' = [result EXCEPT ![c] = "ok"]
          /\ "answered" \in Points /\ UNCHANGED <<users, profile, draft, careless>>
      BY <1>5 DEF Login, Points
    <3>2. ~ Written(c)'
      BY <1>5 DEF Login, Written, Paths, OnPath, Registrations
    <3> QED
      BY <3>1, <3>2, StillKept DEF TypeOK
  <2> QED
    BY <2>2, <2>3, <2>4, <2>5, <2>6, <2>7
<1>6. CASE Fetch(c)
  <2>1. BookTypeOK(Points)'
    BY <1>6 DEF Fetch, Drafted, BeingWritten, TypeOK, BookTypeOK, Points, InTransaction, Outcome, Own
  <2>2. TypeOK'
    BY <1>6, <2>1 DEF Fetch, Drafted, BeingWritten, TypeOK, Points, Paths, OnPath, UserOf, Registrations
  <2>3. Snapshot'
    BY <1>6 DEF Fetch, Drafted, BeingWritten, TypeOK, BookTypeOK, Snapshot, InTransaction, Alike, Target, Outcome, Own
  <2>4. Paths'
    BY <1>6 DEF Fetch, Drafted, BeingWritten, TypeOK, BookTypeOK, Paths, OnPath, InTransaction, UserOf, Registrations
  <2>5. OneDefault'
    BY <1>6 DEF Fetch, OneDefault, Alike
  <2>6. OwnAccount'
    BY <1>6 DEF Fetch, Drafted, BeingWritten, TypeOK, Paths, OnPath, OwnAccount
  <2>7. Drafts'
    <3>1. profile[UserOf(c)] \in [Fields -> Calls \cup {Blank}]
      BY <1>6 DEF Fetch, TypeOK, Paths, OnPath
    <3> QED
      BY <1>6, <3>1, DraftedKept DEF Fetch
  <2> QED
    BY <2>2, <2>3, <2>4, <2>5, <2>6, <2>7
<1>7. CASE FetchFails(c)
  <2>1. BookTypeOK(Points)'
    BY <1>7 DEF FetchFails, Drafted, Fault, TypeOK, BookTypeOK, Points, InTransaction, Outcome, Own
  <2>2. TypeOK'
    BY <1>7, <2>1 DEF FetchFails, Drafted, Fault, TypeOK, Points, Paths, OnPath, UserOf, Registrations
  <2>3. Snapshot'
    BY <1>7 DEF FetchFails, Drafted, Fault, TypeOK, BookTypeOK, Snapshot, InTransaction, Alike, Target, Outcome, Own
  <2>4. Paths'
    BY <1>7 DEF FetchFails, Drafted, Fault, TypeOK, BookTypeOK, Paths, OnPath, InTransaction, UserOf, Registrations
  <2>5. OneDefault'
    BY <1>7 DEF FetchFails, OneDefault, Alike
  <2>6. OwnAccount'
    BY <1>7 DEF FetchFails, Drafted, Fault, TypeOK, Paths, OnPath, OwnAccount
  <2>7. Drafts'
    <3>1. NoFields \in [Fields -> Calls \cup {Blank}]
      OBVIOUS
    <3> QED
      BY <1>7, <3>1, DraftedKept DEF FetchFails
  <2> QED
    BY <2>2, <2>3, <2>4, <2>5, <2>6, <2>7
<1>8. CASE WriteProfile(c)
  <2>0. /\ At(c, "profile") /\ profiles' = profiles \cup {UserOf(c)}
        /\ profile' = [profile EXCEPT ![UserOf(c)] = draft[c]]
        /\ UserOf(c) \in users /\ Asked[c].op \in {"register", "update"}
        /\ \/ Goto(c, "login") \/ Goto(c, "insert") \/ Answer(c, "ok")
        /\ IF c \in Registrations THEN Goto(c, "login") ELSE Goto(c, "insert") \/ Answer(c, "ok")
        /\ UNCHANGED <<rowVars, lockVars, faults, users, token, draft, careless>>
    BY <1>8 DEF WriteProfile, Paths, OnPath
  <2>1. BookTypeOK(Points)'
    <3>1. PICK p \in Points : pc' = [pc EXCEPT ![c] = p]
      BY <2>0 DEF Points
    <3>2. result' = result \/ \E r \in {"ok", "refused", "failed"} : result' = [result EXCEPT ![c] = r]
      BY <2>0
    <3>3. /\ live' \subseteq Calls /\ default' \subseteq live' /\ overlapped' \subseteq Calls
          /\ unsettled' \subseteq Calls /\ faults' \in 0..MaxFaults /\ UNCHANGED lockVars
          /\ ~ InTransaction(c)
      BY <2>0 DEF TypeOK, BookTypeOK, InTransaction
    <3> QED
      BY <3>1, <3>2, <3>3, StillTyped DEF TypeOK
  <2>2. TypeOK'
    BY <2>0, <2>1 DEF TypeOK, Points, Paths, OnPath, UserOf, Registrations
  <2>3. Snapshot'
    <3>1. PICK p \in Points : pc' = [pc EXCEPT ![c] = p] /\ p \notin {"reset", "commit"}
      BY <1>8, <2>0 DEF At, Points
    <3> QED
      BY <1>8, <2>0, <3>1, Elsewhere DEF At, TypeOK
  <2>4. Paths'
    <3>1. CASE c \in Registrations
      <4>1. OnPath(c, "login") /\ "login" \in Points
        BY <2>0, <3>1 DEF OnPath, Points
      <4> QED
        BY <2>0, <3>1, <4>1, StillOnPath DEF TypeOK
    <3>2. CASE c \notin Registrations
      <4>1. \A p \in {"insert", "answered"} : OnPath(c, p) /\ p \in Points
        BY <2>0, <3>2 DEF OnPath, Points
      <4> QED
        BY <2>0, <3>2, <4>1, StillOnPath DEF TypeOK
    <3> QED
      BY <3>1, <3>2
  <2>5. OneDefault'
    BY <2>0 DEF OneDefault, Alike
  <2>6. OwnAccount'
    BY <2>0 DEF At, TypeOK, Paths, OnPath, OwnAccount
  <2>7. Drafts'
    <3> DEFINE u == UserOf(c)
    <3>1. u \in Registrations /\ profile'[u] = draft[c]
          /\ \A v \in Registrations \ {u} : profile'[v] = profile[v]
      BY <2>0 DEF TypeOK
    <3>2. \A d \in Calls : At(d, "profile")' => At(d, "profile") /\ d # c
      BY <2>0 DEF TypeOK, BookTypeOK
    <3>3. \A d \in Calls \ {c} : Written(d)' <=> Written(d)
      BY <2>0 DEF Written, TypeOK, BookTypeOK
    <3>4. \A d \in Calls : Written(d)' => Asked[d].op = "update"
      BY DEF Written
    <3>5. u \notin careless => \A f \in Fields : profile[u][f] # Blank => draft[c][f] # Blank
      BY <2>0 DEF Drafts
    <3>6. \A v \in Registrations \ users' : profile'[v] = NoFields
      BY <2>0, <3>1 DEF Drafts
    <3>7. \A d \in Calls : At(d, "profile")' /\ UserOf(d) \notin careless =>
            UserOf(d) # u /\ UserOf(d) \in Registrations
      BY <2>0, <3>2 DEF Drafts, Paths, OnPath, TypeOK
    <3>8. \A d \in Calls : Written(d)' /\ UserOf(d) \notin careless =>
            \A f \in Asked[d].fields : profile'[UserOf(d)][f] # Blank
      <4> SUFFICES ASSUME NEW d \in Calls, Written(d)', UserOf(d) \notin careless,
                          NEW f \in Asked[d].fields
                   PROVE  profile'[UserOf(d)][f] # Blank
        OBVIOUS
      <4>1. f \in Fields
        BY <3>4
      <4>2. CASE d = c
        BY <2>0, <3>1, <3>4, <4>2 DEF Drafts
      <4>3. CASE d # c
        <5>1. Written(d) /\ profile[UserOf(d)][f] # Blank
          BY <3>3, <4>3 DEF Drafts
        <5>2. CASE UserOf(d) = u
          BY <3>1, <3>5, <4>1, <5>1, <5>2
        <5>3. CASE UserOf(d) # u
          <6>1. profile'[UserOf(d)] = profile[UserOf(d)]
            BY <2>0, <5>3 DEF TypeOK
          <6> QED
            BY <5>1, <6>1
        <5> QED
          BY <5>2, <5>3
      <4> QED
        BY <4>2, <4>3
    <3> QED
      BY <2>0, <3>1, <3>2, <3>6, <3>7, <3>8 DEF Drafts
  <2> QED
    BY <2>2, <2>3, <2>4, <2>5, <2>6, <2>7
<1>9. CASE InsertFails(c)
  <2>1. /\ ~ InTransaction(c) /\ faults' \in 0..MaxFaults
        /\ UNCHANGED <<rowVars, lockVars, customerVars>>
    BY <1>9 DEF InsertFails, Fault, InTransaction, TypeOK, BookTypeOK
  <2>2. PICK p \in {"answered"} :
          pc' = [pc EXCEPT ![c] = p] /\ OnPath(c, p)
    BY <1>9 DEF InsertFails, Fault, Paths, OnPath
  <2>3. result' = result \/ \E r \in {"ok", "refused", "failed"} : result' = [result EXCEPT ![c] = r]
    BY <1>9 DEF InsertFails, Fault
  <2>4. Written(c)' => Written(c)
    BY <1>9 DEF InsertFails, Fault, Written, TypeOK, BookTypeOK
  <2>5. p \in Points
    BY DEF Points
  <2> QED
    BY <2>1, <2>2, <2>3, <2>4, <2>5, MoveKeeps
<1> QED
  BY <1>1, <1>2, <1>3, <1>4, <1>5, <1>6, <1>7, <1>8, <1>9 DEF At

-----------------------------------------------------------------------------
LEMMA StepKeeps == IInv /\ [Next]_vars => IInv'
<1> SUFFICES ASSUME IInv, [Next]_vars PROVE IInv'
  OBVIOUS
<1>1. CASE UNCHANGED vars
  <2> USE <1>1 DEF vars, bookVars, rowVars, lockVars, callVars, customerVars, IInv, InTransaction, At
  <2>1. TypeOK'
    BY DEF TypeOK, BookTypeOK
  <2>2. Snapshot'
    BY DEF Snapshot, Alike
  <2>3. Paths' /\ OwnAccount' /\ OneDefault'
    BY DEF Paths, OnPath, UserOf, OwnAccount, OneDefault, Alike
  <2>4. Drafts'
    BY DEF Drafts, Written, UserOf
  <2> QED
    BY <2>1, <2>2, <2>3, <2>4
<1>2. ASSUME NEW c \in Calls, Arrive(c) \/ Step(c) \/ Failure(c) PROVE IInv'
  BY <1>2, AddressStepKeeps, CustomerStepKeeps DEF Step, Failure
<1> QED
  BY <1>1, <1>2 DEF Next

(* The inductive invariant of the customers model.                         *)
THEOREM Invariant == Spec => []IInv
BY InitOK, StepKeeps, PTL DEF Spec

(* Type correctness of the composed model, for every set of calls.         *)
THEOREM TypeCorrect == Spec => []TypeOK
BY Invariant, PTL DEF IInv

(* Registrations of one email make one account, and a registration that    *)
(* succeeds returns a token of its own user.                               *)
THEOREM Accounts == Spec => []OwnAccount
BY Invariant, PTL DEF IInv

(* Two default addresses of one user and type: only by the phantom that    *)
(* READ COMMITTED allows, or by the ignored error of CreateAddress.        *)
THEOREM Defaults == Spec => []OneDefault
BY Invariant, PTL DEF IInv

(* What a profile update has set is not blanked by careful ones.           *)
THEOREM ProfilesKept == Spec => []FieldsKept
<1>1. IInv => FieldsKept
  BY DEF IInv, Drafts, Written, FieldsKept
<1> QED
  BY Invariant, <1>1, PTL

(* A default address of a user and type is replaced or deleted, never lost.*)
LEMMA DefaultsStep ==
  ASSUME IInv, NEW c \in Calls, AddressStep(c, profiles) \/ SetFails(c) \/ Break(c),
         NEW a \in default, a \in live'
  PROVE  \E b \in default' : Alike(a, b)
<1>1. CASE Commit(c)
  <2>1. Target(c) \in default' /\ default \ held[c] \subseteq default'
    BY <1>1 DEF Commit
  <2>2. a \in held[c] => Alike(a, Target(c))
    BY <1>1 DEF IInv, Snapshot, Commit, Alike
  <2> QED
    BY <2>1, <2>2 DEF Alike
<1>2. CASE DeleteAddress(c)
  BY <1>2 DEF DeleteAddress, Alike
<1>3. CASE ~ Commit(c) /\ ~ DeleteAddress(c)
  <2>1. default \subseteq default'
    BY <1>3 DEF AddressStep, SetFails, Break, Insert, NoProfile, Begin, Reset, Mark, Refuse, Abort, rowVars
  <2> QED
    BY <2>1 DEF Alike
<1> QED
  BY <1>1, <1>2, <1>3

(* SetDefaultAddress: no refused, aborted or broken call leaves a user who *)
(* had a default address of a type without one.                            *)
THEOREM DefaultsKept == Spec => DefaultKept
<1> DEFINE Kept == \A a \in default : a \in live' => \E b \in default' : Alike(a, b)
<1>1. IInv /\ [Next]_vars => [Kept]_bookVars
  <2> SUFFICES ASSUME IInv, Next PROVE Kept
    BY DEF vars, bookVars
  <2>1. PICK c \in Calls : Arrive(c) \/ Step(c) \/ Failure(c)
    BY DEF Next
  <2>2. \/ AddressStep(c, profiles) \/ SetFails(c) \/ Break(c)
        \/ default' = default
    BY <2>1 DEF Step, Failure, Arrive, LookUpEmail, CreateUser, ProfileFails, Login, Fetch, FetchFails,
         WriteProfile, InsertFails, rowVars
  <2> QED
    BY <2>2, DefaultsStep DEF Alike
<1> QED
  BY Invariant, <1>1, PTL DEF Spec, DefaultKept
-----------------------------------------------------------------------------
(* Waiting for rows.  Only a call in a transaction has taken any; so when  *)
(* all calls under way wait, they wait for such that are stuck themselves. *)

(* Where everybody in a finite set waits for somebody in it, some of them  *)
(* wait in a circle: a least set like that has nobody nobody waits for.    *)
LEMMA WaitingCircle ==
  ASSUME NEW U, IsFiniteSet(U), U # {}, NEW R, \A c \in U : \E d \in U : <<c, d>> \in R
  PROVE  \E S \in SUBSET U :
           /\ S # {}
           /\ \A c \in S : \E d \in S : <<c, d>> \in R
           /\ \A d \in S : \E c \in S : <<c, d>> \in R
<1> DEFINE Closed == {S \in SUBSET U : S # {} /\ \A c \in S : \E d \in S : <<c, d>> \in R}
<1>1. IsWellFoundedOn(StrictSubsetOrdering(U), SUBSET U)
  BY FS_StrictSubsetOrderingWellFounded, FS_FiniteSubsetsOfFinite
<1>2. U \in Closed /\ Closed \subseteq SUBSET U
  OBVIOUS
<1>3. PICK S \in Closed : \A T \in Closed : ~ (<<T, S>> \in StrictSubsetOrdering(U))
  <2> HIDE DEF Closed
  <2> QED BY <1>1, <1>2, WFMin
<1>4. ASSUME NEW d \in S PROVE \E c \in S : <<c, d>> \in R
  <2> SUFFICES ASSUME \A c \in S : <<c, d>> \notin R PROVE FALSE
    OBVIOUS
  <2>1. PICK e \in S : <<d, e>> \in R
    BY <1>4
  <2>2. e # d
    BY <2>1
  <2>3. S \ {d} \in Closed
    BY <2>1, <2>2
  <2>4. <<S \ {d}, S>> \in StrictSubsetOrdering(U)
    BY <1>4 DEF StrictSubsetOrdering
  <2> QED BY <1>3, <2>3, <2>4
<1> QED BY <1>4

LEMMA SomeCallMovesOK ==
  ASSUME TypeOK, IsFiniteSet(Calls)
  PROVE  SomeCallMoves
<1> DEFINE stuck == {c \in Calls : Stuck(c)}
           waits == {w \in Calls \X Calls : WaitsFor(w[1], w[2])}
           Waiting(c) == Stuck(c) \/ (At(c, "delete") /\ HeldByOther(c, Asked[c].target))
           underway == {c \in Calls : pc[c] \notin {"idle", "answered"}}
<1> SUFFICES ASSUME NEW c \in underway, \A d \in underway : Waiting(d)
             PROVE  \E d \in underway : Deadlocked(d)
  BY DEF SomeCallMoves
<1>1. ASSUME NEW d \in Calls, held[d] # {} PROVE d \in stuck
  <2>1. At(d, "reset") \/ At(d, "commit")
    BY <1>1 DEF TypeOK, BookTypeOK, InTransaction
  <2>2. d \in underway
    BY <2>1 DEF At
  <2> QED BY <2>1, <2>2 DEF Stuck, At
<1>2. \A d \in stuck : \E e \in stuck : <<d, e>> \in waits
  <2> SUFFICES ASSUME NEW d \in stuck PROVE \E e \in stuck : WaitsFor(d, e)
    OBVIOUS
  <2>1. PICK a \in Needs(d) : HeldByOther(d, a)
    BY DEF Stuck, Needs
  <2>2. PICK e \in Calls \ {d} : a \in held[e]
    BY <2>1 DEF HeldByOther
  <2> QED BY <1>1, <2>1, <2>2 DEF WaitsFor, Stuck
<1>3. stuck # {}
  <2>1. CASE Stuck(c)
    BY <2>1
  <2>2. CASE HeldByOther(c, Asked[c].target)
    BY <1>1, <2>2 DEF HeldByOther
  <2> QED BY <2>1, <2>2
<1>4. IsFiniteSet(stuck)
  BY FS_Subset
<1>5. PICK S \in SUBSET stuck :
        /\ S # {}
        /\ \A d \in S : \E e \in S : <<d, e>> \in waits
        /\ \A e \in S : \E d \in S : <<d, e>> \in waits
  <2> HIDE DEF stuck, waits
  <2> QED BY <1>2, <1>3, <1>4, WaitingCircle
<1>6. ASSUME NEW d \in S PROVE Deadlocked(d) /\ d \in underway
  <2>1. S \in SUBSET {e \in Calls : Stuck(e)}
    OBVIOUS
  <2>2. \A e \in S : (\E f \in S : WaitsFor(e, f)) /\ (\E f \in S : WaitsFor(f, e))
    BY <1>5
  <2> QED BY <1>6, <2>1, <2>2 DEF Deadlocked, Stuck, At
<1> QED BY <1>5, <1>6

(* The account service over PostgreSQL: whatever rows the calls take, one  *)
(* of them can always go on or is aborted.                                 *)
THEOREM CustomersNeverHalt == IsFiniteSet(Calls) => (Spec => []SomeCallMoves)
<1> SUFFICES ASSUME IsFiniteSet(Calls) PROVE Spec => []SomeCallMoves
  OBVIOUS
<1>1. TypeOK => SomeCallMoves
  BY SomeCallMovesOK
<1> QED BY <1>1, TypeCorrect, PTL

-----------------------------------------------------------------------------
(* The in-memory repository.                                               *)

StoreInv ==
  /\ chosen \subseteq stored /\ stored \subseteq Calls
  /\ DOMAIN at = Calls
  /\ OneChosen

(* An own default is new until its SetDefaultAddress, which leaves no      *)
(* other one of its kind.                                                  *)
LEMMA StoreStep ==
  ASSUME StoreInv, [StoreNext]_storeVars
  PROVE  StoreInv'
<1>1. CASE UNCHANGED storeVars
  BY <1>1 DEF StoreInv, OneChosen, storeVars
<1>2. ASSUME NEW c \in Calls, Ask(c) PROVE StoreInv'
  BY <1>2 DEF StoreInv, OneChosen, Ask, Reach
<1>3. ASSUME NEW c \in Calls, Store(c) PROVE StoreInv'
  BY <1>3 DEF StoreInv, OneChosen, Store, Reach
<1>4. ASSUME NEW c \in Calls, Choose(c) PROVE StoreInv'
  <2>1. chosen' \subseteq stored' /\ stored' \subseteq Calls /\ DOMAIN at' = Calls
    BY <1>4 DEF StoreInv, Choose, Found, Others, Reach
  <2>2. OneChosen'
    <3> SUFFICES ASSUME NEW a \in chosen', NEW b \in chosen', a # b, Alike(a, b)
                 PROVE  "set" \in {at'[a], at'[b]}
      BY DEF OneChosen
    <3>1. a \in Others(c) /\ b \in Others(c)
      BY <1>4 DEF Choose, Others, Found, Alike
    <3>2. a # c /\ b # c
      BY <3>1 DEF Others, Alike
    <3> QED
      BY <1>4, <3>1, <3>2 DEF StoreInv, OneChosen, Others, Choose, Reach
  <2> QED
    BY <2>1, <2>2 DEF StoreInv
<1>5. ASSUME NEW c \in Calls, Drop(c) PROVE StoreInv'
  BY <1>5 DEF StoreInv, OneChosen, Drop, Reach
<1> QED
  BY <1>1, <1>2, <1>3, <1>4, <1>5 DEF StoreNext

(* The inductive invariant of the in-memory repository.                    *)
THEOREM StoreInvariant == StoreSpec => []StoreInv
<1>1. ASSUME NEW arrivals \in SUBSET Calls, StoreInit(arrivals) PROVE StoreInv
  BY <1>1 DEF StoreInit, StoreInv, OneChosen
<1>2. (\E arrivals \in SUBSET Calls : StoreInit(arrivals)) => StoreInv
  BY <1>1
<1> QED
  BY <1>2, StoreStep, PTL DEF StoreSpec

(* CreateAddress and SetDefaultAddress over the in-memory repository: of   *)
(* two defaults of one kind, one is about to be settled.                   *)
THEOREM ChosenOnce == StoreSpec => []OneChosen
BY StoreInvariant, PTL DEF StoreInv

(* SetDefaultAddress over the in-memory repository: a default is lost only *)
(* to a delete or to a call that misses its target.                        *)
THEOREM ChosenStays == StoreSpec => ChosenKept
<1> DEFINE Kept == \A a \in chosen \cap stored' :
                     \/ \E b \in chosen' : Alike(a, b)
                     \/ \E c \in Calls : Misses(c) /\ Alike(a, c)
<1>1. StoreInv /\ [StoreNext]_storeVars => [Kept]_storeVars
  <2> SUFFICES ASSUME StoreInv, StoreNext, NEW a \in chosen \cap stored'
               PROVE  \/ \E b \in chosen' : Alike(a, b)
                      \/ \E c \in Calls : Misses(c) /\ Alike(a, c)
    OBVIOUS
  <2>1. ASSUME NEW c \in Calls, Ask(c) \/ Store(c) \/ Drop(c) PROVE a \in chosen'
    BY <2>1 DEF Ask, Store, Drop
  <2>2. ASSUME NEW c \in Calls, Choose(c), ~ Alike(a, c) PROVE a \in chosen'
    BY <2>2 DEF Choose, Others
  <2>3. ASSUME NEW c \in Calls, Choose(c), Alike(a, c), Found(c)
        PROVE  \E b \in chosen' : Alike(a, b)
    BY <2>3 DEF Choose, Found, Alike
  <2>4. ASSUME NEW c \in Calls, Choose(c), Alike(a, c), ~ Found(c) PROVE Misses(c)
    BY <2>4 DEF StoreInv, Choose, Misses, Reach
  <2>5. Alike(a, a)
    BY DEF Alike
  <2> QED
    BY <2>1, <2>2, <2>3, <2>4, <2>5 DEF StoreNext
<1> QED
  BY StoreInvariant, <1>1, PTL DEF StoreSpec, ChosenKept
=============================================================================
