------------------------- MODULE NotificationProofs ------------------------
(***************************************************************************)
(* Safety of the notification service, for every log, any number of        *)
(* senders, keys and retries and any number of faults.                     *)
(*                                                                         *)
(* Tries: no row, and no copy of one, counts more attempts than were       *)
(* refused.  Sound: of a key that is not doubtful, one of three has the    *)
(* say, the sender that created the row, the worker that is about to write *)
(* it, or the table, and it knows whether the mail went out.  Logging:     *)
(* what a loop has fetched and is not busy with is in the table, or its    *)
(* offset is known to be lost.                                             *)
(***************************************************************************)
EXTENDS NotificationConsumer, TLAPS

Active(s, k) == mail[s] = k /\ pc[s] \in {"deliver", "sent", "refused"}
Exists(k) == table[k].status # "none"

TriesOK(row, k) ==
  /\ row.tries <= refused[k]
  /\ row.status = "FAILED" => row.tries >= MaxRetries
  /\ row.status \in Open => row.tries < MaxRetries
Tries ==
  /\ \A k \in Keys : TriesOK(table[k], k) /\ (table[k].status = "none" => table[k] = NoRow)
  /\ \A c \in batch : TriesOK(c.row, c.key) /\ c.row.status \in Open /\ Exists(c.key)
  /\ \A c \in writing :
       TriesOK(c.row, c.key) /\ c.row.status # "none" /\ Exists(c.key)
  /\ \A s \in Senders : pc[s] = "refused" => refused[mail[s]] >= 1

Creators ==
  /\ \A s \in Senders, k \in Keys : Active(s, k) => Exists(k)
  /\ \A s, r \in Senders, k \in Keys : Active(s, k) /\ Active(r, k) => s = r

Sound(k) ==
  /\ \A s \in Senders : Active(s, k) =>
       /\ table[k] = Row("PENDING", 0)
       /\ \A c \in writing : c.key # k
       /\ delivered[k] = IF pc[s] = "sent" THEN 1 ELSE 0
  /\ \A c \in writing : c.key = k =>
       table[k].status \in Open /\ delivered[k] = IF c.row.status = "SENT" THEN 1 ELSE 0
  /\ (\A s \in Senders : ~ Active(s, k)) /\ (\A c \in writing : c.key # k) =>
       delivered[k] = IF table[k].status = "SENT" THEN 1 ELSE 0

ServiceInv == TypeOK /\ Tries /\ Creators /\ \A k \in Keys \ doubtful : Sound(k)

OneLog(t) ==
  /\ position[t] \in Nat /\ committed[t] \in Nat /\ pc[t] # "done"
  /\ committed[t] <= position[t] /\ position[t] <= Len(log[t])
  /\ pc[t] # "idle" => committed[t] < position[t] /\ mail[t] = log[t][position[t]]
  /\ pc[t] \in {"reread", "deliver", "sent", "refused", "ok", "error"} => Exists(mail[t])
  /\ \A i \in 1..position[t] :
       \/ i \in unlogged[t] \/ log[t][i] = Unsendable \/ Exists(log[t][i])
       \/ i = position[t] /\ pc[t] # "idle"
Logging == \A t \in Topics : OneLog(t)

TopicsOK ==
  /\ log \in [Topics -> Seq(Keys \cup {Unsendable})]
  /\ DOMAIN position = Topics /\ DOMAIN committed = Topics /\ DOMAIN unlogged = Topics

IInv == ServiceInv /\ TopicsOK /\ Logging

-----------------------------------------------------------------------------
Busy == {"deliver", "sent", "refused"}

(* Rows of the table, and copies of them, are records of their two fields. *)
LEMMA RowType ==
  ASSUME NEW status \in {"none", "SENT", "FAILED"} \cup Open, NEW tries \in 0..MaxRetries
  PROVE  Row(status, tries) \in Rows
BY DEF Row, Rows

LEMMA StartTypeOK ==
  ASSUME NEW s \in Senders, NEW k \in Keys, TypeOK, Start(s, k)
  PROVE  TypeOK'
<1>1. /\ pc' = [pc EXCEPT ![s] = "lookup"] /\ mail' = [mail EXCEPT ![s] = k]
      /\ UNCHANGED <<table, batch, writing, delivered, refused, doubtful, faults>>
  BY DEF Start, workerVars, history
<1>2. k # NoKey  BY NotificationAssumption
<1>. QED  BY <1>1, <1>2 DEF TypeOK, Points

(* A sender goes on with the same mail, and nothing else that has a type   *)
(* changes but what is given.                                              *)
LEMMA StillTypeOK ==
  ASSUME TypeOK, NEW s \in Senders, NEW p \in Points \ {"idle", "done"},
         pc[s] \notin {"idle", "done"},
         pc' = [pc EXCEPT ![s] = p], UNCHANGED <<mail, batch, writing>>,
         table' \in [Keys -> Rows],
         delivered' \in [Keys -> 0..2], refused' \in [Keys -> 0..MaxRetries],
         doubtful' \subseteq Keys, faults' \in 0..MaxFaults
  PROVE  TypeOK'
BY DEF TypeOK, Points

LEMMA FaultType ==
  ASSUME faults \in 0..MaxFaults, Fault  PROVE  faults' \in 0..MaxFaults
BY NotificationAssumption DEF Fault

LEMMA MailType ==
  ASSUME TypeOK, NEW k \in Keys
  PROVE  /\ MailOut(k) => delivered' \in [Keys -> 0..2]
         /\ ErrorBack(k) => refused' \in [Keys -> 0..MaxRetries]
BY NotificationAssumption DEF TypeOK, MailOut, ErrorBack, CountUpTo

LEMMA WriteType ==
  ASSUME TypeOK, NEW k \in Keys, NEW row \in Rows, Write(k, row)
  PROVE  table' \in [Keys -> Rows]
BY DEF TypeOK, Write

LEMMA OwnMail ==
  ASSUME TypeOK, NEW s \in Senders, pc[s] \notin {"idle", "done"}
  PROVE  mail[s] \in Keys
BY DEF TypeOK

(* Lookup, Create, Duplicate and Reread.                                   *)
LEMMA LogTypeOK ==
  ASSUME NEW s \in Senders, TypeOK, Lookup(s) \/ Create(s) \/ Duplicate(s) \/ Reread(s)
  PROVE  TypeOK'
<1>0. pc[s] \notin {"idle", "done"} /\ UNCHANGED <<mail, batch, writing, delivered, refused, doubtful, faults>>
  BY DEF Lookup, Create, Duplicate, Reread, Goto, At, workerVars, history
<1>1. PICK p \in Points \ {"idle", "done"} : pc' = [pc EXCEPT ![s] = p]
  BY DEF Lookup, Create, Duplicate, Reread, Goto, Points
<1>2. mail[s] \in Keys  BY <1>0, OwnMail
<1>3. Row("PENDING", 0) \in Rows  BY RowType, NotificationAssumption DEF Open
<1>4. table' \in [Keys -> Rows]
  <2>1. CASE Create(s)  BY <2>1, <1>2, <1>3, WriteType DEF Create
  <2>2. CASE ~ Create(s)  BY <2>2 DEF Lookup, Duplicate, Reread, TypeOK
  <2>. QED  BY <2>1, <2>2
<1>5. UNCHANGED <<mail, batch, writing>>  BY <1>0
<1>6. /\ delivered' \in [Keys -> 0..2] /\ refused' \in [Keys -> 0..MaxRetries]
      /\ doubtful' \subseteq Keys /\ faults' \in 0..MaxFaults
  BY <1>0 DEF TypeOK
<1>. QED  BY <1>0, <1>1, <1>4, <1>5, <1>6, StillTypeOK

LEMMA DeliverTypeOK ==
  ASSUME NEW s \in Senders, TypeOK, Deliver(s)
  PROVE  TypeOK'
<1>0. pc[s] \notin {"idle", "done"} /\ UNCHANGED <<mail, batch, writing, table>>
  BY DEF Deliver, Goto, At, workerVars
<1>1. PICK p \in Points \ {"idle", "done"} : pc' = [pc EXCEPT ![s] = p]
  BY DEF Deliver, Goto, Points
<1>2. mail[s] \in Keys  BY <1>0, OwnMail
<1>3. /\ delivered' \in [Keys -> 0..2] /\ refused' \in [Keys -> 0..MaxRetries]
      /\ faults' \in 0..MaxFaults
  BY <1>2, MailType, FaultType DEF Deliver, Sent, Refused, SentUnsurely, TypeOK
<1>4. doubtful' \subseteq Keys
  BY <1>2 DEF Deliver, Doubt, TypeOK
<1>5. table' \in [Keys -> Rows]  BY <1>0 DEF TypeOK
<1>. QED  BY <1>0, <1>1, <1>3, <1>4, <1>5, StillTypeOK

LEMMA RecordTypeOK ==
  ASSUME NEW s \in Senders, TypeOK, Record(s) \/ RecordFails(s) \/ DatabaseFails(s)
  PROVE  TypeOK'
<1>0. pc[s] \notin {"idle", "done"} /\ UNCHANGED <<mail, batch, writing, delivered, refused>>
  BY DEF Record, RecordFails, DatabaseFails, Goto, At, workerVars, history
<1>1. PICK p \in Points \ {"idle", "done"} : pc' = [pc EXCEPT ![s] = p]
  BY DEF Record, RecordFails, DatabaseFails, Goto, Points
<1>2. mail[s] \in Keys  BY <1>0, OwnMail
<1>3. {Row("SENT", 0), Row("RETRYING", 1), Row("PENDING", 0)} \subseteq Rows
  BY RowType, NotificationAssumption DEF Open
<1>4. table' = table \/ (\E row \in Rows : Write(mail[s], row))
  BY <1>3 DEF Record, RecordFails, DatabaseFails
<1>5. table' \in [Keys -> Rows]
  BY <1>2, <1>4, WriteType DEF TypeOK
<1>6. faults' \in 0..MaxFaults /\ doubtful' \subseteq Keys
  BY <1>2, FaultType DEF Record, RecordFails, DatabaseFails, TypeOK, history, Doubt
<1>7. delivered' \in [Keys -> 0..2] /\ refused' \in [Keys -> 0..MaxRetries]
  BY <1>0 DEF TypeOK
<1>. QED  BY <1>0, <1>1, <1>5, <1>6, <1>7, StillTypeOK
LEMMA ListTypeOK ==
  ASSUME NEW due \in SUBSET Keys, TypeOK, ListDue(due)
  PROVE  TypeOK'
<1>1. UNCHANGED <<table, pc, mail, writing, delivered, refused, doubtful, faults>>
  BY DEF ListDue, senderVars, history
<1>2. batch' \subseteq Copies
  BY DEF ListDue, TypeOK, Copies
<1>. QED  BY <1>1, <1>2 DEF TypeOK

(* What the worker is about to write after an attempt.                     *)
LEMMA AttemptFacts ==
  ASSUME NEW c \in batch, ServiceInv, Attempt(c)
  PROVE  /\ c \in Copies /\ c.key \in Keys
         /\ writing = {} /\ batch' = batch \ {c}
         /\ UNCHANGED <<table, pc, mail>>
         /\ \/ /\ Sent(c.key) /\ writing' = {[c EXCEPT !.row.status = "SENT"]}
            \/ /\ Refused(c.key) \/ SentUnsurely(c.key)
               /\ writing' = {[c EXCEPT !.row = AfterFailure(c.row)]}
         /\ [c EXCEPT !.row.status = "SENT"] \in Copies
         /\ [c EXCEPT !.row = AfterFailure(c.row)] \in Copies
<1>1. c \in Copies /\ c.key \in Keys /\ c.row \in Rows  BY DEF ServiceInv, TypeOK, Copies
<1>2. c.row.tries < MaxRetries  BY DEF ServiceInv, Tries, TriesOK
<1>3. AfterFailure(c.row) \in Rows
  BY <1>1, <1>2, NotificationAssumption DEF AfterFailure, Row, Rows, Open
<1>4. [c EXCEPT !.row.status = "SENT"] \in Copies
  BY <1>1 DEF Copies, Rows
<1>5. [c EXCEPT !.row = AfterFailure(c.row)] \in Copies
  BY <1>1, <1>3 DEF Copies
<1>. QED  BY <1>1, <1>4, <1>5 DEF Attempt, senderVars

LEMMA AttemptTypeOK ==
  ASSUME NEW c \in batch, ServiceInv, Attempt(c)
  PROVE  TypeOK'
<1>1. TypeOK  BY DEF ServiceInv
<1>2. c.key \in Keys /\ batch' = batch \ {c} /\ UNCHANGED <<table, pc, mail>>
  BY AttemptFacts
<1>3. writing' \subseteq Copies /\ \A d, e \in writing' : d = e
  BY AttemptFacts
<1>4. Sent(c.key) \/ Refused(c.key) \/ SentUnsurely(c.key)
  BY AttemptFacts
<1>5. /\ delivered' \in [Keys -> 0..2] /\ refused' \in [Keys -> 0..MaxRetries]
      /\ faults' \in 0..MaxFaults
  BY <1>1, <1>2, <1>4, MailType, FaultType DEF Sent, Refused, SentUnsurely, TypeOK
<1>6. doubtful' \subseteq Keys
  BY <1>1, <1>2 DEF Attempt, TypeOK
<1>. QED  BY <1>1, <1>2, <1>3, <1>5, <1>6 DEF TypeOK

LEMMA WriteBackTypeOK ==
  ASSUME NEW c \in writing, TypeOK, WriteBack(c) \/ WriteBackFails(c)
  PROVE  TypeOK'
<1>1. /\ writing' = {} /\ UNCHANGED <<pc, mail, batch, delivered, refused>>
  BY DEF WriteBack, WriteBackFails, senderVars, history
<1>2. c.key \in Keys /\ c.row \in Rows  BY DEF TypeOK, Copies
<1>3. table' \in [Keys -> Rows]
  BY <1>2, WriteType DEF WriteBack, WriteBackFails, TypeOK
<1>4. faults' \in 0..MaxFaults /\ doubtful' \subseteq Keys
  BY <1>2, FaultType DEF WriteBack, WriteBackFails, history, TypeOK
<1>. QED  BY <1>1, <1>3, <1>4 DEF TypeOK

LEMMA FinishTypeOK ==
  ASSUME NEW s \in Senders, NEW next \in {"idle", "done"}, TypeOK, Finish(s, next),
         faults' \in 0..MaxFaults
  PROVE  TypeOK'
<1>1. /\ pc' = [pc EXCEPT ![s] = next] /\ mail' = [mail EXCEPT ![s] = NoKey]
      /\ UNCHANGED <<table, batch, writing, delivered, refused, doubtful>>
  BY DEF Finish, workerVars, history
<1>. QED  BY <1>1 DEF TypeOK, Points

LEMMA CrashTypeOK ==
  ASSUME NEW next \in [Senders -> {"idle", "done"}], TypeOK, Crash(next)
  PROVE  TypeOK'
<1>1. /\ pc' = next /\ mail' = [s \in Senders |-> NoKey]
      /\ batch' = {} /\ writing' = {} /\ UNCHANGED <<table, delivered, refused>>
  BY DEF Crash
<1>2. faults' \in 0..MaxFaults  BY FaultType DEF Crash, TypeOK
<1>3. \A s \in Senders : At(s, {"sent"}) => mail[s] \in Keys
  BY OwnMail DEF At
<1>4. \A c \in writing : c.key \in Keys  BY DEF TypeOK, Copies
<1>5. doubtful' \subseteq Keys
  BY <1>3, <1>4 DEF Crash, TypeOK
<1>. QED  BY <1>1, <1>2, <1>5 DEF TypeOK, Points
-----------------------------------------------------------------------------
(* A step that no delivery is about keeps the invariant.                   *)
LEMMA QuietStep ==
  ASSUME ServiceInv, TypeOK',
         UNCHANGED <<table, batch, writing, delivered, refused, doubtful>>,
         \A s \in Senders : \/ pc'[s] = pc[s] /\ mail'[s] = mail[s]
                            \/ pc[s] \notin Busy /\ pc'[s] \notin Busy
  PROVE  ServiceInv'
<1>1. \A s \in Senders, k \in Keys : Active(s, k)' <=> Active(s, k)
  BY DEF Active, Busy
<1>2. \A s \in Senders, k \in Keys : Active(s, k) => pc'[s] = pc[s]
  BY DEF Active, Busy
<1>3. Tries'
  BY DEF ServiceInv, Tries, TriesOK, Exists, Busy
<1>4. Creators'
  BY <1>1 DEF ServiceInv, Creators, Exists
<1>5. \A k \in Keys \ doubtful' : Sound(k)'
  BY <1>1, <1>2 DEF ServiceInv, Sound
<1>. QED  BY <1>3, <1>4, <1>5 DEF ServiceInv

(* What a step leaves alone about a key stays as it is.                    *)
LEMMA Elsewhere ==
  ASSUME NEW k \in Keys, Sound(k),
         table'[k] = table[k], delivered'[k] = delivered[k],
         \A s \in Senders : Active(s, k)' <=> Active(s, k),
         \A s \in Senders : Active(s, k) => pc'[s] = pc[s],
         \A c : c.key = k => (c \in writing' <=> c \in writing)
  PROVE  Sound(k)'
BY DEF Sound

LEMMA StartStep ==
  ASSUME NEW s \in Senders, NEW k \in Keys, ServiceInv, Start(s, k)
  PROVE  ServiceInv'
<1>1. TypeOK'  BY StartTypeOK DEF ServiceInv
<1>2. UNCHANGED <<table, batch, writing, delivered, refused, doubtful>>
  BY DEF Start, workerVars, history
<1>3. \A r \in Senders : \/ pc'[r] = pc[r] /\ mail'[r] = mail[r]
                         \/ pc[r] \notin Busy /\ pc'[r] \notin Busy
  BY DEF Start, At, Busy, ServiceInv, TypeOK
<1>. QED  BY <1>1, <1>2, <1>3, QuietStep

LEMMA FinishStep ==
  ASSUME NEW s \in Senders, NEW next \in {"idle", "done"}, ServiceInv, Finish(s, next),
         faults' \in 0..MaxFaults, pc[s] \in {"ok", "error", "dbError"}
  PROVE  ServiceInv'
<1>1. TypeOK'  BY FinishTypeOK DEF ServiceInv
<1>2. UNCHANGED <<table, batch, writing, delivered, refused, doubtful>>
  BY DEF Finish, workerVars, history
<1>3. \A r \in Senders : \/ pc'[r] = pc[r] /\ mail'[r] = mail[r]
                         \/ pc[r] \notin Busy /\ pc'[r] \notin Busy
  BY DEF Finish, Busy, ServiceInv, TypeOK
<1>. QED  BY <1>1, <1>2, <1>3, QuietStep

(* Lookup, Duplicate and Reread, and the failures that insert no row.      *)
LEMMA LookStep ==
  ASSUME NEW s \in Senders, ServiceInv, TypeOK', NEW p,
         UNCHANGED <<mail, table, batch, writing, delivered, refused, doubtful>>,
         pc' = [pc EXCEPT ![s] = p], pc[s] \notin Busy, p \notin Busy
  PROVE  ServiceInv'
<1>1. \A r \in Senders : \/ pc'[r] = pc[r] /\ mail'[r] = mail[r]
                         \/ pc[r] \notin Busy /\ pc'[r] \notin Busy
  BY DEF ServiceInv, TypeOK
<1>. QED  BY <1>1, QuietStep

(* The insert of a row, by a sender that goes on with the delivery or is   *)
(* told that it failed.                                                    *)
LEMMA InsertStep ==
  ASSUME NEW s \in Senders, ServiceInv, TypeOK', NEW p \in {"deliver", "dbError"},
         At(s, {"create"}), table[mail[s]] = NoRow,
         Write(mail[s], Row("PENDING", 0)), pc' = [pc EXCEPT ![s] = p],
         UNCHANGED <<mail, batch, writing, delivered, refused, doubtful>>
  PROVE  ServiceInv'
<1> DEFINE key == mail[s]
<1>1. key \in Keys  BY OwnMail DEF ServiceInv, At
<1>2. /\ table' = [table EXCEPT ![key] = Row("PENDING", 0)]
      /\ \A k \in Keys : k # key => table'[k] = table[k]
      /\ table'[key] = Row("PENDING", 0)
  BY <1>1 DEF Write, ServiceInv, TypeOK
<1>3. \A r \in Senders : ~ Active(r, key)
  BY <1>1 DEF ServiceInv, Creators, Exists, NoRow, Row
<1>4. \A c \in writing : c.key # key
  BY <1>1 DEF ServiceInv, Tries, Exists, NoRow, Row
<1>5. \A r \in Senders : r # s => pc'[r] = pc[r]
  BY DEF ServiceInv, TypeOK
<1>6. pc'[s] = p /\ pc[s] = "create"  BY DEF ServiceInv, TypeOK, At
<1>7. \A r \in Senders, k \in Keys : Active(r, k)' <=> (Active(r, k) \/ (r = s /\ k = key /\ p = "deliver"))
  BY <1>5, <1>6 DEF Active
<1>8. Tries'
  <2>1. \A k \in Keys : TriesOK(table[k], k)' /\ (table'[k].status = "none" => table'[k] = NoRow)
    <3>1. TriesOK(table[key], key)' /\ table'[key].status # "none"
      BY <1>1, <1>2, NotificationAssumption DEF TriesOK, Row, Open, ServiceInv, TypeOK
    <3>. QED  BY <1>2, <3>1 DEF ServiceInv, Tries, TriesOK
  <2>2. \A k \in Keys : Exists(k) => Exists(k)'
    BY <1>2 DEF Exists, Row
  <2>3. \A c \in batch \cup writing : c.key \in Keys  BY DEF ServiceInv, TypeOK, Copies
  <2>4. \A r \in Senders : pc'[r] = "refused" => refused'[mail'[r]] >= 1
    BY <1>5, <1>6 DEF ServiceInv, Tries
  <2>. QED  BY <2>1, <2>2, <2>3, <2>4 DEF ServiceInv, Tries, TriesOK
<1>9. Creators'
  BY <1>2, <1>3, <1>7 DEF ServiceInv, Creators, Exists, Row
<1>10. ASSUME NEW k \in Keys \ doubtful'  PROVE Sound(k)'
  <2>1. Sound(k)  BY DEF ServiceInv
  <2>2. CASE k = key
    <3>1. delivered[key] = 0
      BY <1>3, <1>4, <2>1, <2>2 DEF Sound, NoRow, Row
    <3>2. \A r \in Senders : Active(r, key)' => r = s /\ pc'[r] = "deliver"
      BY <1>1, <1>3, <1>6, <1>7
    <3>. QED  BY <1>2, <1>4, <2>2, <3>1, <3>2 DEF Sound, Row
  <2>3. CASE k # key
    BY <1>2, <1>5, <1>6, <1>7, <2>1, <2>3, Elsewhere DEF Active
  <2>. QED  BY <2>2, <2>3
<1>. QED  BY <1>8, <1>9, <1>10 DEF ServiceInv
LEMMA LookOrCreateStep ==
  ASSUME NEW s \in Senders, ServiceInv, Lookup(s) \/ Create(s) \/ Duplicate(s) \/ Reread(s)
  PROVE  ServiceInv'
<1>1. TypeOK'  BY LogTypeOK DEF ServiceInv
<1>2. UNCHANGED <<mail, batch, writing, delivered, refused, doubtful>>
  BY DEF Lookup, Create, Duplicate, Reread, Goto, workerVars, history
<1>3. CASE Create(s)
  BY <1>1, <1>2, <1>3, InsertStep DEF Create, Goto
<1>4. CASE Lookup(s) \/ Duplicate(s) \/ Reread(s)
  <2>1. UNCHANGED table /\ pc[s] \notin Busy
    BY <1>4 DEF Lookup, Duplicate, Reread, At, Busy
  <2>2. \E p : p \notin Busy /\ pc' = [pc EXCEPT ![s] = p]
    BY <1>4 DEF Lookup, Duplicate, Reread, Goto, Busy
  <2>. QED  BY <1>1, <1>2, <2>1, <2>2, LookStep
<1>. QED  BY <1>3, <1>4

LEMMA DatabaseFailsStep ==
  ASSUME NEW s \in Senders, ServiceInv, DatabaseFails(s)
  PROVE  ServiceInv'
<1>1. TypeOK'  BY RecordTypeOK DEF ServiceInv
<1>2. UNCHANGED <<mail, batch, writing, delivered, refused, doubtful>>
  BY DEF DatabaseFails, Goto, workerVars, history
<1>3. CASE At(s, {"create"}) /\ table[mail[s]] = NoRow /\ Write(mail[s], Row("PENDING", 0)) /\ Goto(s, "dbError")
  BY <1>1, <1>2, <1>3, InsertStep DEF Goto
<1>4. CASE \/ At(s, {"lookup", "create"}) /\ Goto(s, "dbError") /\ UNCHANGED table
           \/ At(s, {"reread"}) /\ Goto(s, "error") /\ UNCHANGED table
  <2>1. UNCHANGED table /\ pc[s] \notin Busy
    BY <1>4 DEF At, Busy
  <2>2. \E p : p \notin Busy /\ pc' = [pc EXCEPT ![s] = p]
    BY <1>4 DEF Goto, Busy
  <2>. QED  BY <1>1, <1>2, <2>1, <2>2, LookStep
<1>. QED  BY <1>3, <1>4 DEF DatabaseFails

(* Counting a mail or an error of one key.                                 *)
LEMMA MailCounted ==
  ASSUME NEW k \in Keys, TypeOK, MailOut(k)
  PROVE  /\ \A j \in Keys : j # k => delivered'[j] = delivered[j]
         /\ delivered[k] = 0 => delivered'[k] = 1
BY DEF TypeOK, MailOut, CountUpTo

LEMMA ErrorCounted ==
  ASSUME NEW k \in Keys, TypeOK, ErrorBack(k)
  PROVE  /\ \A j \in Keys : refused'[j] >= refused[j] /\ refused[j] \in Nat /\ refused'[j] \in Nat
         /\ refused'[k] >= 1
         /\ \A n \in Nat : n < MaxRetries /\ n <= refused[k] => n + 1 <= refused'[k]
BY NotificationAssumption DEF TypeOK, ErrorBack, CountUpTo

(* The errors only grow, and Tries with them.                              *)
LEMMA ErrorsGrow ==
  ASSUME TypeOK, NEW k \in Keys, Sent(k) \/ Refused(k) \/ SentUnsurely(k)
  PROVE  \A j \in Keys : refused'[j] >= refused[j] /\ refused[j] \in Nat /\ refused'[j] \in Nat
<1>1. CASE Sent(k)  BY <1>1 DEF Sent, TypeOK
<1>2. CASE ErrorBack(k)  BY <1>2, ErrorCounted
<1>. QED  BY <1>1, <1>2 DEF Refused, SentUnsurely

LEMMA TriesGrow ==
  ASSUME NEW k \in Keys, NEW row \in Rows, TriesOK(row, k),
         refused[k] \in Nat, refused'[k] \in Nat, refused'[k] >= refused[k]
  PROVE  /\ row.tries <= refused'[k]
         /\ row.status = "FAILED" => row.tries >= MaxRetries
         /\ row.status \in Open => row.tries < MaxRetries
BY NotificationAssumption DEF TriesOK, Rows

(* Tries, when the rows stay and only the errors grow.                     *)
LEMMA TriesKept ==
  ASSUME TypeOK, Tries, UNCHANGED table,
         \A j \in Keys : refused'[j] >= refused[j] /\ refused[j] \in Nat /\ refused'[j] \in Nat
  PROVE  /\ \A k \in Keys : TriesOK(table[k], k)' /\ (table'[k].status = "none" => table'[k] = NoRow)
         /\ \A c \in batch \cup writing :
              c.key \in Keys /\ c.row.tries <= refused'[c.key] /\ Exists(c.key)'
<1>1. \A k \in Keys : table[k] \in Rows  BY DEF TypeOK
<1>2. \A c \in batch \cup writing : c.key \in Keys /\ c.row \in Rows  BY DEF TypeOK, Copies
<1>3. \A k \in Keys : TriesOK(table[k], k)'
  BY <1>1, TriesGrow DEF Tries, TriesOK
<1>4. \A c \in batch \cup writing : TriesOK(c.row, c.key)  BY DEF Tries
<1>5. \A c \in batch \cup writing : c.row.tries <= refused'[c.key]
  BY <1>2, <1>4, TriesGrow
<1>. QED  BY <1>2, <1>3, <1>5 DEF Tries, Exists

LEMMA DeliverStep ==
  ASSUME NEW s \in Senders, ServiceInv, Deliver(s)
  PROVE  ServiceInv'
<1> DEFINE key == mail[s]
<1>1. TypeOK'  BY DeliverTypeOK DEF ServiceInv
<1>2. UNCHANGED <<table, mail, batch, writing>> /\ pc[s] = "deliver" /\ key \in Keys
  BY OwnMail DEF ServiceInv, Deliver, Goto, workerVars, At
<1>3. PICK p \in {"sent", "refused"} : pc' = [pc EXCEPT ![s] = p]
  BY DEF Deliver, Goto
<1>4. pc'[s] = p /\ \A r \in Senders : r # s => pc'[r] = pc[r]
  BY <1>3 DEF ServiceInv, TypeOK
<1>5. \A r \in Senders, k \in Keys : Active(r, k)' <=> Active(r, k)
  BY <1>2, <1>3, <1>4 DEF Active
<1>6. Sent(key) \/ Refused(key) \/ SentUnsurely(key)  BY DEF Deliver
<1>7. \A j \in Keys : refused'[j] >= refused[j] /\ refused[j] \in Nat /\ refused'[j] \in Nat
  BY <1>2, <1>6, ErrorsGrow DEF ServiceInv
<1>8. Tries'
  <2>1. /\ \A k \in Keys : TriesOK(table[k], k)' /\ (table'[k].status = "none" => table'[k] = NoRow)
        /\ \A c \in batch \cup writing : c.row.tries <= refused'[c.key] /\ Exists(c.key)'
    BY <1>2, <1>7, TriesKept DEF ServiceInv
  <2>2. ASSUME NEW r \in Senders, pc'[r] = "refused"  PROVE refused'[mail'[r]] >= 1
    <3>1. CASE r = s
      <4>1. ErrorBack(key)  BY <1>3, <1>4, <2>2, <3>1 DEF Deliver, Goto, ServiceInv, TypeOK, Refused, SentUnsurely
      <4>. QED  BY <1>2, <3>1, <4>1, ErrorCounted DEF ServiceInv
    <3>2. CASE r # s
      <4>1. pc[r] = "refused" /\ mail[r] \in Keys /\ refused[mail[r]] >= 1
        BY <1>4, <2>2, <3>2, OwnMail DEF ServiceInv, Tries
      <4>. QED  BY <1>2, <1>7, <4>1
    <3>. QED  BY <3>1, <3>2
  <2>3. UNCHANGED <<batch, writing, table>>  BY <1>2
  <2>. QED  BY <2>1, <2>2, <2>3 DEF ServiceInv, Tries, TriesOK, Exists
<1>9. Creators'  BY <1>2, <1>5 DEF ServiceInv, Creators, Exists
<1>10. ASSUME NEW k \in Keys \ doubtful'  PROVE Sound(k)'
  <2>1. Sound(k)  BY DEF ServiceInv, Deliver, Doubt
  <2>2. CASE k = key
    <3>1. Active(s, key) /\ \A r \in Senders : Active(r, key) => r = s
      BY <1>2 DEF ServiceInv, Creators, Active
    <3>2. /\ table[key] = Row("PENDING", 0) /\ delivered[key] = 0
          /\ \A c \in writing : c.key # key
      BY <1>2, <2>1, <2>2, <3>1 DEF Sound
    <3>3. delivered'[key] = IF p = "sent" THEN 1 ELSE 0
      <4>1. ~ Doubt(key)  BY <2>2 DEF Doubt
      <4>2. CASE Sent(key) /\ Goto(s, "sent")
        <5>1. p = "sent"  BY <1>3, <4>2 DEF Goto, ServiceInv, TypeOK
        <5>. QED  BY <1>2, <3>2, <4>2, <5>1, MailCounted DEF Sent, ServiceInv
      <4>3. CASE Refused(key) /\ Goto(s, "refused")
        <5>1. p = "refused"  BY <1>3, <4>3 DEF Goto, ServiceInv, TypeOK
        <5>. QED  BY <3>2, <4>3, <5>1 DEF Refused
      <4>. QED  BY <4>1, <4>2, <4>3 DEF Deliver
    <3>. QED  BY <1>2, <1>4, <1>5, <2>2, <3>1, <3>2, <3>3 DEF Sound
  <2>3. CASE k # key
    <3>1. delivered'[k] = delivered[k]
      BY <1>2, <1>6, <2>3, MailCounted DEF ServiceInv, Sent, Refused, SentUnsurely
    <3>2. \A r \in Senders : Active(r, k) => pc'[r] = pc[r]
      BY <1>2, <1>4, <2>3 DEF Active
    <3>. QED  BY <1>2, <1>5, <2>1, <3>1, <3>2, Elsewhere
  <2>. QED  BY <2>2, <2>3
<1>. QED  BY <1>1, <1>8, <1>9, <1>10 DEF ServiceInv
(* The sender records the outcome, or fails to.                            *)
LEMMA RecordStep ==
  ASSUME NEW s \in Senders, ServiceInv, Record(s) \/ RecordFails(s)
  PROVE  ServiceInv'
<1> DEFINE key == mail[s]
<1>1. TypeOK'  BY RecordTypeOK DEF ServiceInv
<1>2. UNCHANGED <<mail, batch, writing, delivered, refused>>
  BY DEF Record, RecordFails, Goto, workerVars, history
<1>3. key \in Keys /\ Active(s, key) /\ pc[s] \in {"sent", "refused"}
  BY OwnMail DEF ServiceInv, Record, RecordFails, At, Active
<1>4. PICK p \in {"ok", "error"} : pc' = [pc EXCEPT ![s] = p]
  BY DEF Record, RecordFails, Goto
<1>5. pc'[s] = p /\ \A r \in Senders : r # s => pc'[r] = pc[r]
  BY <1>4 DEF ServiceInv, TypeOK
<1>6. \A r \in Senders, k \in Keys : Active(r, k)' <=> Active(r, k) /\ r # s
  BY <1>2, <1>5 DEF Active
<1>7. \A r \in Senders : ~ Active(r, key)'
  BY <1>2, <1>3, <1>6 DEF ServiceInv, Creators
<1>8. \A k \in Keys : k # key => table'[k] = table[k]
  BY <1>3 DEF Record, RecordFails, Write, ServiceInv, TypeOK
<1>9. doubtful \subseteq doubtful'
  BY DEF Record, RecordFails, history, Doubt
<1>10. Exists(key)  BY <1>3 DEF ServiceInv, Creators
<1>11. TriesOK(table'[key], key) /\ Exists(key)'
  <2>1. CASE table'[key] = table[key]
    BY <2>1, <1>2, <1>3, <1>10 DEF ServiceInv, Tries, Exists
  <2>2. CASE table'[key] = Row("SENT", 0)
    BY <2>2, <1>2, <1>3, NotificationAssumption DEF TriesOK, Row, Open, Exists, ServiceInv, TypeOK
  <2>3. CASE pc[s] = "refused" /\ table'[key] = Row("RETRYING", 1)
    <3>1. refused[key] >= 1 /\ refused[key] \in Nat
      BY <1>3, <2>3 DEF ServiceInv, Tries, TypeOK
    <3>. QED  BY <2>3, <1>2, <3>1, NotificationAssumption DEF TriesOK, Row, Open, Exists
  <2>. QED  BY <1>3, <2>1, <2>2, <2>3 DEF Record, RecordFails, Write, At, ServiceInv, TypeOK
<1>12. Tries'
  <2>1. \A k \in Keys : TriesOK(table[k], k)' /\ (table'[k].status = "none" => table'[k] = NoRow)
    BY <1>2, <1>8, <1>11 DEF ServiceInv, Tries, TriesOK, Exists
  <2>2. \A k \in Keys : Exists(k) => Exists(k)'
    BY <1>2, <1>8, <1>11 DEF Exists
  <2>3. \A c \in batch \cup writing : c.key \in Keys  BY DEF ServiceInv, TypeOK, Copies
  <2>4. \A r \in Senders : pc'[r] = "refused" => refused'[mail'[r]] >= 1
    BY <1>2, <1>5 DEF ServiceInv, Tries
  <2>. QED  BY <1>2, <2>1, <2>2, <2>3, <2>4 DEF ServiceInv, Tries, TriesOK
<1>13. Creators'
  BY <1>2, <1>6, <1>8, <1>11 DEF ServiceInv, Creators, Exists
<1>14. ASSUME NEW k \in Keys \ doubtful'  PROVE Sound(k)'
  <2>1. Sound(k)  BY <1>9 DEF ServiceInv
  <2>2. CASE k = key
    <3>1. /\ table[key] = Row("PENDING", 0)
          /\ \A c \in writing : c.key # key
          /\ delivered[key] = IF pc[s] = "sent" THEN 1 ELSE 0
      BY <1>3, <2>1, <2>2 DEF Sound
    <3>2. delivered[key] = IF table'[key].status = "SENT" THEN 1 ELSE 0
      <4>1. CASE Record(s)
        BY <1>3, <3>1, <4>1 DEF Record, At, Write, Row, ServiceInv, TypeOK
      <4>2. CASE RecordFails(s)
        <5>1. table'[key] = table[key] /\ pc[s] = "refused"
          BY <1>3, <2>2, <4>2 DEF RecordFails, Doubt, At
        <5>. QED  BY <3>1, <5>1 DEF Row
      <4>. QED  BY <4>1, <4>2
    <3>. QED  BY <1>2, <1>7, <2>2, <3>1, <3>2 DEF Sound
  <2>3. CASE k # key
    <3>1. \A r \in Senders : Active(r, k) => r # s
      BY <1>3, <2>3 DEF Active
    <3>. QED  BY <1>2, <1>5, <1>6, <1>8, <2>1, <2>3, <3>1, Elsewhere
  <2>. QED  BY <2>2, <2>3
<1>. QED  BY <1>1, <1>12, <1>13, <1>14 DEF ServiceInv

LEMMA SendEmailStep ==
  ASSUME NEW s \in Senders, ServiceInv, SendEmail(s)
  PROVE  ServiceInv'
BY LookOrCreateStep, DeliverStep, RecordStep, DatabaseFailsStep DEF SendEmail
-----------------------------------------------------------------------------
LEMMA ListStep ==
  ASSUME NEW due \in SUBSET Keys, ServiceInv, ListDue(due)
  PROVE  ServiceInv'
<1>1. TypeOK'  BY ListTypeOK DEF ServiceInv
<1>2. UNCHANGED <<table, pc, mail, writing, delivered, refused, doubtful>>
  BY DEF ListDue, senderVars, history
<1>3. \A c \in batch' : c.key \in Keys /\ c.row = table[c.key] /\ c.row.status \in Open
  BY DEF ListDue, Due
<1>4. \A c \in batch' : TriesOK(c.row, c.key) /\ c.row.status \in Open /\ Exists(c.key)
  BY <1>3 DEF ServiceInv, Tries, Exists, Open
<1>5. Tries'
  BY <1>2, <1>4 DEF ServiceInv, Tries, TriesOK, Exists
<1>6. Creators'  BY <1>2 DEF ServiceInv, Creators, Active, Exists
<1>7. \A k \in Keys \ doubtful' : Sound(k)'
  BY <1>2 DEF ServiceInv, Sound, Active
<1>. QED  BY <1>1, <1>5, <1>6, <1>7 DEF ServiceInv

LEMMA AttemptStep ==
  ASSUME NEW c \in batch, ServiceInv, Attempt(c)
  PROVE  ServiceInv'
<1>1. TypeOK'  BY AttemptTypeOK
<1>2. c \in Copies /\ c.key \in Keys /\ c.row \in Rows  BY AttemptFacts DEF Copies
<1>3. writing = {} /\ batch' = batch \ {c} /\ UNCHANGED <<table, pc, mail>>
  BY AttemptFacts
<1>4. Sent(c.key) \/ Refused(c.key) \/ SentUnsurely(c.key)  BY AttemptFacts
<1>5. \A j \in Keys : refused'[j] >= refused[j] /\ refused[j] \in Nat /\ refused'[j] \in Nat
  BY <1>2, <1>4, ErrorsGrow DEF ServiceInv
<1>6. TriesOK(c.row, c.key) /\ c.row.status \in Open /\ Exists(c.key)
  BY DEF ServiceInv, Tries
<1>7. PICK d : /\ writing' = {d} /\ d.key = c.key
               /\ \/ Sent(c.key) /\ d.row.status = "SENT" /\ d.row.tries = c.row.tries
                  \/ (Refused(c.key) \/ SentUnsurely(c.key)) /\ d.row = AfterFailure(c.row)
  <2>1. CASE Sent(c.key) /\ writing' = {[c EXCEPT !.row.status = "SENT"]}
    <3> DEFINE e == [c EXCEPT !.row.status = "SENT"]
    <3>1. e.key = c.key /\ e.row.status = "SENT" /\ e.row.tries = c.row.tries
      BY <1>2 DEF Copies, Rows
    <3>2. writing' = {e}  BY <2>1
    <3>. HIDE DEF e
    <3>. QED  BY <2>1, <3>1, <3>2
  <2>2. CASE /\ Refused(c.key) \/ SentUnsurely(c.key)
             /\ writing' = {[c EXCEPT !.row = AfterFailure(c.row)]}
    <3> DEFINE e == [c EXCEPT !.row = AfterFailure(c.row)]
    <3>1. e.key = c.key /\ e.row = AfterFailure(c.row)
      BY <1>2 DEF Copies
    <3>2. writing' = {e}  BY <2>2
    <3>. HIDE DEF e
    <3>. QED  BY <2>2, <3>1, <3>2
  <2>. QED  BY <2>1, <2>2, AttemptFacts
<1>8. /\ d.row.tries <= refused'[d.key]
      /\ d.row.status = "FAILED" => d.row.tries >= MaxRetries
      /\ d.row.status \in Open => d.row.tries < MaxRetries
      /\ d.row.status # "none"
  <2>1. c.row.tries \in Nat /\ c.row.tries <= refused[c.key] /\ c.row.tries < MaxRetries
    BY <1>2, <1>6 DEF TriesOK, Rows
  <2>2. CASE d.row.status = "SENT" /\ d.row.tries = c.row.tries
    BY <1>2, <1>5, <1>7, <2>1, <2>2 DEF Open
  <2>3. CASE ErrorBack(c.key) /\ d.row = AfterFailure(c.row)
    <3>1. c.row.tries + 1 <= refused'[c.key]
      BY <1>2, <2>1, <2>3, ErrorCounted DEF ServiceInv
    <3>2. /\ d.row.tries = c.row.tries + 1
          /\ d.row.status = IF c.row.tries + 1 >= MaxRetries THEN "FAILED" ELSE "RETRYING"
      BY <2>3 DEF AfterFailure, Row
    <3>. QED  BY <1>7, <2>1, <3>1, <3>2, NotificationAssumption DEF Open
  <2>. QED  BY <1>7, <2>2, <2>3 DEF Refused, SentUnsurely
<1>9. Tries'
  <2>1. /\ \A k \in Keys : TriesOK(table[k], k)' /\ (table'[k].status = "none" => table'[k] = NoRow)
        /\ \A e \in batch \cup writing : e.row.tries <= refused'[e.key] /\ Exists(e.key)'
    BY <1>3, <1>5, TriesKept DEF ServiceInv
  <2>2. Exists(d.key)'  BY <1>3, <1>6, <1>7 DEF Exists
  <2>3. \A s \in Senders : pc'[s] = "refused" => refused'[mail'[s]] >= 1
    <3>1. ASSUME NEW s \in Senders, pc[s] = "refused"  PROVE refused'[mail[s]] >= 1
      <4>1. mail[s] \in Keys /\ refused[mail[s]] >= 1
        BY <3>1, OwnMail DEF ServiceInv, Tries
      <4>. QED  BY <1>5, <4>1
    <3>. QED  BY <1>3, <3>1
  <2>. QED  BY <1>3, <1>7, <1>8, <2>1, <2>2, <2>3 DEF ServiceInv, Tries, TriesOK
<1>10. Creators'  BY <1>3 DEF ServiceInv, Creators, Active, Exists
<1>11. \A s \in Senders, k \in Keys : Active(s, k)' <=> Active(s, k)
  BY <1>3 DEF Active
<1>12. doubtful \subseteq doubtful' /\ (c.key \notin doubtful' => ~ Outdated(c) /\ faults' = faults)
  BY DEF Attempt
<1>13. ASSUME NEW k \in Keys \ doubtful'  PROVE Sound(k)'
  <2>1. Sound(k)  BY <1>12 DEF ServiceInv
  <2>2. CASE k = c.key
    <3>1. table[k] = c.row /\ \A s \in Senders : ~ Active(s, k)
      BY <1>12, <2>2 DEF Outdated, Active, At
    <3>2. delivered[k] = 0
      BY <1>3, <1>6, <2>1, <3>1 DEF Sound, Open
    <3>3. ~ SentUnsurely(c.key)
      BY <1>12, <2>2 DEF SentUnsurely, Fault, ServiceInv, TypeOK
    <3>4. delivered'[k] = IF d.row.status = "SENT" THEN 1 ELSE 0
      <4>1. CASE Sent(c.key) /\ d.row.status = "SENT"
        BY <1>2, <2>2, <3>2, <4>1, MailCounted DEF Sent, ServiceInv
      <4>2. CASE Refused(c.key) /\ d.row = AfterFailure(c.row)
        BY <2>2, <3>2, <4>2 DEF Refused, AfterFailure, Row
      <4>. QED  BY <1>7, <3>3, <4>1, <4>2
    <3>. QED  BY <1>3, <1>6, <1>7, <1>11, <2>2, <3>1, <3>4 DEF Sound
  <2>3. CASE k # c.key
    <3>1. delivered'[k] = delivered[k]
      BY <1>2, <1>4, <2>3, MailCounted DEF ServiceInv, Sent, Refused, SentUnsurely
    <3>. QED  BY <1>3, <1>7, <1>11, <2>1, <2>3, <3>1, Elsewhere
  <2>. QED  BY <2>2, <2>3
<1>. QED  BY <1>1, <1>9, <1>10, <1>13 DEF ServiceInv

LEMMA WriteBackStep ==
  ASSUME NEW c \in writing, ServiceInv, WriteBack(c) \/ WriteBackFails(c)
  PROVE  ServiceInv'
<1>1. TypeOK'  BY WriteBackTypeOK DEF ServiceInv
<1>2. writing = {c} /\ c.key \in Keys /\ c.row \in Rows
  BY DEF ServiceInv, TypeOK, Copies
<1>3. writing' = {} /\ UNCHANGED <<pc, mail, batch, delivered, refused>> /\ doubtful \subseteq doubtful'
  BY DEF WriteBack, WriteBackFails, senderVars, history
<1>4. /\ \A k \in Keys : k # c.key => table'[k] = table[k]
      /\ table'[c.key] \in {table[c.key], c.row}
  BY <1>2 DEF WriteBack, WriteBackFails, Write, ServiceInv, TypeOK
<1>5. TriesOK(c.row, c.key) /\ c.row.status # "none" /\ Exists(c.key)
  BY DEF ServiceInv, Tries
<1>6. \A k \in Keys : Exists(k) => Exists(k)'  BY <1>4, <1>5 DEF Exists
<1>7. Tries'
  <2>1. \A k \in Keys : TriesOK(table'[k], k) /\ (table'[k].status = "none" => table'[k] = NoRow)
    BY <1>4, <1>5 DEF ServiceInv, Tries
  <2>2. \A e \in batch : e.key \in Keys  BY DEF ServiceInv, TypeOK, Copies
  <2>. QED  BY <1>3, <1>6, <2>1, <2>2 DEF ServiceInv, Tries, TriesOK
<1>8. \A s \in Senders, k \in Keys : Active(s, k)' <=> Active(s, k)
  BY <1>3 DEF Active
<1>9. Creators'  BY <1>6, <1>8 DEF ServiceInv, Creators
<1>10. ASSUME NEW k \in Keys \ doubtful'  PROVE Sound(k)'
  <2>1. Sound(k)  BY <1>3 DEF ServiceInv
  <2>2. CASE k = c.key
    <3>1. \A s \in Senders : ~ Active(s, k)  BY <2>1, <2>2 DEF Sound
    <3>2. table[k].status \in Open /\ delivered[k] = IF c.row.status = "SENT" THEN 1 ELSE 0
      BY <2>1, <2>2 DEF Sound
    <3>3. delivered[k] = IF table'[k].status = "SENT" THEN 1 ELSE 0
      <4>1. CASE WriteBack(c)
        BY <1>2, <2>2, <3>2, <4>1 DEF WriteBack, Write, ServiceInv, TypeOK
      <4>2. CASE WriteBackFails(c)
        BY <2>2, <3>2, <4>2 DEF WriteBackFails, Open
      <4>. QED  BY <4>1, <4>2
    <3>. QED  BY <1>3, <1>8, <3>1, <3>3 DEF Sound
  <2>3. CASE k # c.key
    BY <1>2, <1>3, <1>4, <1>8, <2>1, <2>3, Elsewhere
  <2>. QED  BY <2>2, <2>3
<1>. QED  BY <1>1, <1>7, <1>9, <1>10 DEF ServiceInv

LEMMA ProcessRetriesStep ==
  ASSUME ServiceInv, ProcessRetries
  PROVE  ServiceInv'
BY ListStep, AttemptStep, WriteBackStep DEF ProcessRetries

LEMMA CrashStep ==
  ASSUME NEW next \in [Senders -> {"idle", "done"}], ServiceInv, Crash(next)
  PROVE  ServiceInv'
<1>1. TypeOK'  BY CrashTypeOK DEF ServiceInv
<1>2. /\ pc' = next /\ mail' = [s \in Senders |-> NoKey]
      /\ batch' = {} /\ writing' = {} /\ UNCHANGED <<table, delivered, refused>>
  BY DEF Crash
<1>3. /\ doubtful \subseteq doubtful'
      /\ \A s \in Senders : pc[s] = "sent" => mail[s] \in doubtful'
      /\ \A c \in writing : c.row.status = "SENT" => c.key \in doubtful'
  BY DEF Crash, At
<1>4. Tries'  BY <1>2 DEF ServiceInv, Tries, TriesOK
<1>5. \A s \in Senders, k \in Keys : ~ Active(s, k)'
  BY <1>2 DEF Active
<1>6. Creators'  BY <1>5 DEF Creators
<1>7. ASSUME NEW k \in Keys \ doubtful'  PROVE Sound(k)'
  <2>1. Sound(k)  BY <1>3 DEF ServiceInv
  <2>2. delivered[k] = IF table[k].status = "SENT" THEN 1 ELSE 0
    <3>1. ASSUME NEW s \in Senders, Active(s, k)
          PROVE  delivered[k] = 0 /\ table[k] = Row("PENDING", 0)
      BY <1>3, <2>1, <3>1 DEF Sound, Active
    <3>2. ASSUME NEW c \in writing, c.key = k
          PROVE  delivered[k] = 0 /\ table[k].status \in Open
      BY <1>3, <2>1, <3>2 DEF Sound
    <3>. QED  BY <2>1, <3>1, <3>2 DEF Sound, Row, Open
  <2>. QED  BY <1>2, <1>5, <2>2 DEF Sound
<1>. QED  BY <1>1, <1>4, <1>6, <1>7 DEF ServiceInv
-----------------------------------------------------------------------------
(* The loops.  No step takes a row away.                                   *)
RowsStay == \A k \in Keys : Exists(k) => Exists(k)'

LEMMA WriteStays ==
  ASSUME TypeOK, NEW k \in Keys, NEW row, row.status # "none", Write(k, row)
  PROVE  RowsStay
BY DEF TypeOK, Write, RowsStay, Exists

LEMMA SendEmailStays ==
  ASSUME ServiceInv, NEW s \in Senders, SendEmail(s)
  PROVE  RowsStay
<1>1. CASE UNCHANGED table  BY <1>1 DEF RowsStay, Exists
<1>2. ASSUME NEW row \in {Row("PENDING", 0), Row("SENT", 0), Row("RETRYING", 1)},
             Write(mail[s], row), pc[s] \notin {"idle", "done"}
      PROVE  RowsStay
  <2>1. row.status # "none"  BY <1>2 DEF Row
  <2>2. mail[s] \in Keys  BY <1>2, OwnMail DEF ServiceInv
  <2>. QED  BY <1>2, <2>1, <2>2, WriteStays DEF ServiceInv
<1>3. CASE Lookup(s) \/ Duplicate(s) \/ Reread(s) \/ Deliver(s) \/ RecordFails(s)
  BY <1>1, <1>3 DEF Lookup, Duplicate, Reread, Deliver, RecordFails
<1>4. CASE Create(s) \/ Record(s) \/ DatabaseFails(s)
  BY <1>1, <1>2, <1>4 DEF Create, Record, DatabaseFails, At
<1>. QED  BY <1>3, <1>4 DEF SendEmail

LEMMA ProcessRetriesStays ==
  ASSUME ServiceInv, ProcessRetries
  PROVE  RowsStay /\ UNCHANGED <<pc, mail>>
<1>1. UNCHANGED <<pc, mail>>
  BY DEF ProcessRetries, ListDue, Attempt, WriteBack, WriteBackFails, senderVars
<1>2. CASE UNCHANGED table  BY <1>1, <1>2 DEF RowsStay, Exists
<1>3. ASSUME NEW c \in writing, WriteBack(c)  PROVE RowsStay
  BY <1>3, WriteStays DEF WriteBack, ServiceInv, TypeOK, Copies, Tries
<1>. QED  BY <1>1, <1>2, <1>3 DEF ProcessRetries, ListDue, Attempt, WriteBackFails

(* A loop that neither fetches nor finishes.                               *)
LEMMA LogStays ==
  ASSUME NEW t \in Topics, TopicsOK, OneLog(t), RowsStay,
         UNCHANGED <<log, position, committed, unlogged>>,
         pc'[t] # "done", pc'[t] # "idle" <=> pc[t] # "idle", mail'[t] = mail[t],
         pc'[t] \in {"reread", "deliver", "sent", "refused", "ok", "error"} => Exists(mail[t])'
  PROVE  OneLog(t)'
<1>1. \A i \in 1..position[t] : log[t][i] \in Keys \cup {Unsendable}
  BY DEF OneLog, TopicsOK
<1>2. \A i \in 1..position[t] : Exists(log[t][i]) => Exists(log[t][i])' \/ log[t][i] = Unsendable
  BY <1>1 DEF RowsStay, Exists
<1>. QED  BY <1>2 DEF OneLog, Exists

LEMMA OtherLoop ==
  ASSUME NEW t \in Topics, ServiceInv, TopicsOK, OneLog(t), RowsStay,
         UNCHANGED <<log, position, committed, unlogged>>,
         pc'[t] = pc[t], mail'[t] = mail[t]
  PROVE  OneLog(t)'
<1>1. pc[t] \in {"reread", "deliver", "sent", "refused", "ok", "error"} => mail[t] \in Keys
  BY OwnMail, ConsumerAssumption DEF ServiceInv
<1>2. pc'[t] \in {"reread", "deliver", "sent", "refused", "ok", "error"} => Exists(mail[t])'
  BY <1>1 DEF OneLog, RowsStay, Exists
<1>. QED  BY <1>2, LogStays DEF OneLog

LEMMA SenderLogging ==
  ASSUME NEW s \in Senders, ServiceInv, TopicsOK, Logging, SendEmail(s), UNCHANGED topicVars
  PROVE  Logging'
<1> SUFFICES ASSUME NEW t \in Topics  PROVE OneLog(t)'
  BY DEF Logging
<1>1. RowsStay /\ OneLog(t)  BY SendEmailStays DEF Logging
<1>2. UNCHANGED <<log, position, committed, unlogged>>  BY DEF topicVars
<1>3. PICK p \in Points \ {"idle", "done"} : pc' = [pc EXCEPT ![s] = p]
  BY DEF SendEmail, Lookup, Create, Duplicate, Reread, Deliver, Record, RecordFails, DatabaseFails, Goto, Points
<1>4. UNCHANGED mail /\ pc[s] \notin {"idle", "done"}
  BY DEF SendEmail, Lookup, Create, Duplicate, Reread, Deliver, Record, RecordFails, DatabaseFails, Goto, At
<1>5. CASE t # s
  BY <1>1, <1>2, <1>3, <1>4, <1>5, OtherLoop DEF ServiceInv, TypeOK
<1>6. CASE t = s
  <2>1. mail[s] \in Keys  BY <1>4, OwnMail DEF ServiceInv
  <2>2. pc'[s] = p  BY <1>3 DEF ServiceInv, TypeOK
  <2>3. CASE p \notin {"reread", "deliver", "sent", "refused", "ok", "error"}
    BY <1>1, <1>2, <1>3, <1>4, <1>6, <2>2, <2>3, LogStays
  <2>4. CASE pc[s] \in {"reread", "deliver", "sent", "refused", "ok", "error"}
    <3>1. Exists(mail[s])'
      BY <1>1, <1>4, <1>6, <2>1, <2>4 DEF OneLog, RowsStay, Exists
    <3>. QED  BY <1>1, <1>2, <1>3, <1>4, <1>6, <2>2, <2>4, <3>1, LogStays
  <2>5. CASE /\ p \in {"reread", "deliver", "sent", "refused", "ok", "error"}
             /\ pc[s] \notin {"reread", "deliver", "sent", "refused", "ok", "error"}
    <3>1. CASE Create(s)
      <4>1. Exists(mail[s])'
        BY <1>4, <2>1, <3>1 DEF Create, Write, Row, Exists, ServiceInv, TypeOK
      <4>. QED  BY <1>1, <1>2, <1>3, <1>4, <1>6, <2>2, <4>1, LogStays
    <3>2. CASE Lookup(s) \/ Duplicate(s)
      <4>1. table[mail[s]] # NoRow
        BY <2>2, <2>5, <3>2 DEF Lookup, Duplicate, Goto, ServiceInv, TypeOK
      <4>2. Exists(mail[s])'
        BY <1>1, <1>4, <2>1, <4>1 DEF ServiceInv, Tries, RowsStay, Exists
      <4>. QED  BY <1>1, <1>2, <1>3, <1>4, <1>6, <2>2, <4>2, LogStays
    <3>3. CASE DatabaseFails(s)
      BY <2>2, <2>5, <3>3 DEF DatabaseFails, Goto, At, ServiceInv, TypeOK
    <3>. QED  BY <2>5, <3>1, <3>2, <3>3 DEF SendEmail, Reread, Deliver, Record, RecordFails, At
  <2>. QED  BY <2>3, <2>4, <2>5
<1>. QED  BY <1>5, <1>6
(* The steps of a loop keep the table, and those of another loop alone.    *)
LEMMA OtherLoops ==
  ASSUME NEW t \in Topics, NEW r \in Topics \ {t}, ServiceInv, TopicsOK, OneLog(r),
         UNCHANGED <<table, log>>,
         UNCHANGED <<pc[r], mail[r], position[r], committed[r], unlogged[r]>>
  PROVE  OneLog(r)'
BY DEF OneLog, Exists

LEMMA FetchLogging ==
  ASSUME NEW t \in Topics, ServiceInv, TopicsOK, Logging, Fetch(t)
  PROVE  TopicsOK' /\ Logging' /\ ServiceInv'
<1>0. t \in Senders  BY ConsumerAssumption
<1>1. /\ pc[t] = "idle" /\ pc' = [pc EXCEPT ![t] = "lookup"]
      /\ mail' = [mail EXCEPT ![t] = Event(t)]
      /\ position' = [position EXCEPT ![t] = @ + 1]
      /\ UNCHANGED <<table, log, committed, unlogged>>
      /\ position[t] < Len(log[t])
  BY DEF Fetch, Start, At, Advance, More
<1>2. OneLog(t) /\ log[t] \in Seq(Keys \cup {Unsendable})  BY DEF Logging, TopicsOK
<1>3. Event(t) = log[t][position[t] + 1] /\ Event(t) \in Keys
  BY <1>1, <1>2 DEF Fetch, Event, OneLog
<1>4. TopicsOK'  BY <1>1 DEF TopicsOK
<1>5. /\ pc'[t] = "lookup" /\ mail'[t] = log[t][position'[t]]
      /\ position'[t] = position[t] + 1
  BY <1>0, <1>1, <1>3 DEF ServiceInv, TypeOK, TopicsOK
<1>6. OneLog(t)'
  <2>1. \A i \in 1..position[t] :
          i \in unlogged[t] \/ log[t][i] = Unsendable \/ Exists(log[t][i])
    BY <1>1, <1>2 DEF OneLog
  <2>2. \A i \in 1..position'[t] : i \in 1..position[t] \/ i = position'[t]
    BY <1>2, <1>5 DEF OneLog
  <2>3. \A i \in 1..position'[t] :
          \/ i \in unlogged'[t] \/ log'[t][i] = Unsendable \/ Exists(log[t][i])'
          \/ i = position'[t] /\ pc'[t] # "idle"
    BY <1>1, <1>5, <2>1, <2>2 DEF Exists
  <2>. QED  BY <1>1, <1>2, <1>5, <2>3 DEF OneLog, Exists
<1>7. Logging'
  <2>1. ASSUME NEW r \in Topics \ {t}  PROVE OneLog(r)'
    <3>1. OneLog(r)  BY DEF Logging
    <3>2. UNCHANGED <<pc[r], mail[r], position[r], committed[r], unlogged[r]>>
      BY <1>1, ConsumerAssumption DEF ServiceInv, TypeOK, TopicsOK
    <3>. QED  BY <1>1, <3>1, <3>2, OtherLoops
  <2>. QED  BY <1>6, <2>1 DEF Logging
<1>8. ServiceInv'  BY <1>0, <1>3, StartStep DEF Fetch
<1>. QED  BY <1>4, <1>7, <1>8

LEMMA SkipLogging ==
  ASSUME NEW t \in Topics, ServiceInv, TopicsOK, Logging, SkipUnsendable(t)
  PROVE  TopicsOK' /\ Logging' /\ ServiceInv'
<1>1. /\ pc[t] = "idle" /\ log[t][position[t] + 1] = Unsendable
      /\ position' = [position EXCEPT ![t] = @ + 1]
      /\ UNCHANGED <<table, pc, mail, batch, writing, delivered, refused, doubtful, log, unlogged>>
      /\ position[t] < Len(log[t])
  BY DEF SkipUnsendable, At, Event, Advance, More, senderVars, workerVars, history
<1>2. OneLog(t) /\ log[t] \in Seq(Keys \cup {Unsendable})  BY DEF Logging, TopicsOK
<1>3. /\ committed' = [committed EXCEPT ![t] = position[t] + 1] \/ committed' = committed
      /\ faults' \in 0..MaxFaults
  BY FaultType DEF SkipUnsendable, CommitUpTo, ServiceInv, TypeOK
<1>4. TopicsOK'  BY <1>1, <1>3 DEF TopicsOK
<1>5. position'[t] = position[t] + 1 /\ committed'[t] \in {position[t] + 1, committed[t]}
  BY <1>1, <1>3 DEF TopicsOK
<1>6. OneLog(t)'
  <2>1. \A i \in 1..position[t] :
          i \in unlogged[t] \/ log[t][i] = Unsendable \/ Exists(log[t][i])
    BY <1>1, <1>2 DEF OneLog
  <2>2. \A i \in 1..position'[t] : i \in 1..position[t] \/ i = position[t] + 1
    BY <1>2, <1>5 DEF OneLog
  <2>. QED  BY <1>1, <1>2, <1>5, <2>1, <2>2 DEF OneLog, Exists
<1>7. Logging'
  <2>1. ASSUME NEW r \in Topics \ {t}  PROVE OneLog(r)'
    <3>1. OneLog(r)  BY DEF Logging
    <3>2. UNCHANGED <<pc[r], mail[r], position[r], committed[r], unlogged[r]>>
      BY <1>1, <1>3 DEF TopicsOK
    <3>. QED  BY <1>1, <3>1, <3>2, OtherLoops
  <2>. QED  BY <1>6, <2>1 DEF Logging
<1>8. TypeOK'  BY <1>1, <1>3 DEF ServiceInv, TypeOK
<1>9. ServiceInv'  BY <1>1, <1>8, QuietStep
<1>. QED  BY <1>4, <1>7, <1>9

(* Commit, CommitFails and BackOff.                                        *)
LEMMA FinishLogging ==
  ASSUME NEW t \in Topics, ServiceInv, TopicsOK, Logging,
         Commit(t) \/ CommitFails(t) \/ BackOff(t)
  PROVE  TopicsOK' /\ Logging' /\ ServiceInv'
<1>0. t \in Senders  BY ConsumerAssumption
<1>1. /\ Finish(t, "idle") /\ pc[t] \in {"ok", "error", "dbError"}
      /\ UNCHANGED <<log, position>>
      /\ faults' \in 0..MaxFaults
  BY FaultType DEF Commit, CommitFails, BackOff, At, topicVars, ServiceInv, TypeOK
<1>2. OneLog(t)  BY DEF Logging
<1>3. \/ /\ pc[t] \in {"ok", "error"} /\ unlogged' = unlogged
         /\ committed' = [committed EXCEPT ![t] = position[t]] \/ committed' = committed
      \/ committed' = committed /\ unlogged' = [unlogged EXCEPT ![t] = @ \cup {position[t]}]
  BY DEF Commit, CommitFails, BackOff, At, CommitUpTo, topicVars
<1>4. TopicsOK'  BY <1>1, <1>3 DEF TopicsOK
<1>5. /\ UNCHANGED table
      /\ pc' = [pc EXCEPT ![t] = "idle"] /\ mail' = [mail EXCEPT ![t] = NoKey]
  BY <1>1 DEF Finish
<1>6. /\ pc'[t] = "idle" /\ committed'[t] \in {committed[t], position[t]}
      /\ unlogged[t] \subseteq unlogged'[t]
      /\ pc[t] \in {"ok", "error"} \/ position[t] \in unlogged'[t]
  BY <1>0, <1>3, <1>5 DEF TopicsOK, ServiceInv, TypeOK
<1>7. OneLog(t)'
  <2>1. \A i \in 1..position[t] :
          i \in unlogged'[t] \/ log[t][i] = Unsendable \/ Exists(log[t][i])
    <3>1. pc[t] # "idle"  BY <1>1
    <3>2. \/ position[t] \in unlogged'[t] \/ Exists(log[t][position[t]])
      BY <1>2, <1>6, <3>1 DEF OneLog
    <3>. QED  BY <1>2, <1>6, <3>2 DEF OneLog
  <2>. QED  BY <1>1, <1>2, <1>5, <1>6, <2>1 DEF OneLog, Exists
<1>8. Logging'
  <2>1. ASSUME NEW r \in Topics \ {t}  PROVE OneLog(r)'
    <3>1. OneLog(r)  BY DEF Logging
    <3>2. UNCHANGED <<pc[r], mail[r], position[r], committed[r], unlogged[r]>>
      BY <1>1, <1>3, <1>5, ConsumerAssumption DEF TopicsOK, ServiceInv, TypeOK
    <3>. QED  BY <1>1, <1>5, <3>1, <3>2, OtherLoops
  <2>. QED  BY <1>7, <2>1 DEF Logging
<1>9. ServiceInv'  BY <1>0, <1>1, FinishStep
<1>. QED  BY <1>4, <1>8, <1>9

(* Requests do not touch the loops.                                        *)
LEMMA CallerStep ==
  ASSUME NEW r \in Requests, ServiceInv, TopicsOK, Logging, Caller(r)
  PROVE  TopicsOK' /\ Logging' /\ ServiceInv'
<1>1. r \in Senders /\ r \notin Topics /\ KeyOf[r] \in Keys  BY ConsumerAssumption
<1>2. UNCHANGED <<table, log, position, committed, unlogged>>
  BY DEF Caller, Request, Reply, Start, Finish, topicVars
<1>3. \A t \in Topics : pc'[t] = pc[t] /\ mail'[t] = mail[t]
  BY <1>1, ConsumerAssumption DEF Caller, Request, Reply, Start, Finish, ServiceInv, TypeOK
<1>4. TopicsOK'  BY <1>2 DEF TopicsOK
<1>5. Logging'  BY <1>2, <1>3 DEF Logging, OneLog, Exists
<1>6. ServiceInv'
  <2>1. CASE Request(r)  BY <1>1, <2>1, StartStep DEF Request
  <2>2. CASE Reply(r)
    BY <1>1, <2>2, FinishStep DEF Reply, At, ServiceInv, TypeOK
  <2>. QED  BY <2>1, <2>2 DEF Caller
<1>. QED  BY <1>4, <1>5, <1>6

(* The readers go back to their committed offsets.                         *)
LEMMA RestartStep ==
  ASSUME ServiceInv, TopicsOK, Logging, Restart
  PROVE  TopicsOK' /\ Logging' /\ ServiceInv'
<1> DEFINE next == [s \in Senders |-> IF s \in Topics \/ At(s, {"idle"}) THEN "idle" ELSE "done"]
<1>1. next \in [Senders -> {"idle", "done"}]  OBVIOUS
<1>2. Crash(next) /\ position' = committed /\ UNCHANGED <<log, committed, unlogged>>
  BY DEF Restart
<1>3. ServiceInv'  BY <1>1, <1>2, CrashStep
<1>4. \A t \in Topics : pc'[t] = "idle"
  BY <1>2, ConsumerAssumption DEF Crash
<1>5. TopicsOK'  BY <1>2 DEF TopicsOK
<1>6. ASSUME NEW t \in Topics  PROVE OneLog(t)'
  <2>1. OneLog(t) /\ UNCHANGED table  BY <1>2 DEF Logging, Crash
  <2>2. \A i \in 1..committed[t] :
          i \in unlogged[t] \/ log[t][i] = Unsendable \/ Exists(log[t][i])
    BY <2>1 DEF OneLog
  <2>. QED  BY <1>2, <1>4, <2>1, <2>2 DEF OneLog, Exists
<1>. QED  BY <1>3, <1>5, <1>6 DEF Logging

LEMMA StutterStep ==
  ASSUME ServiceInv, TopicsOK, Logging, UNCHANGED vars
  PROVE  TopicsOK' /\ Logging' /\ ServiceInv'
<1>1. UNCHANGED <<table, pc, mail, batch, writing, delivered, refused, doubtful, faults,
                  log, position, committed, unlogged>>
  BY DEF vars, serviceVars, senderVars, workerVars, history, topicVars
<1>2. TypeOK'  BY <1>1 DEF ServiceInv, TypeOK
<1>3. ServiceInv'  BY <1>1, <1>2, QuietStep
<1>4. TopicsOK'  BY <1>1 DEF TopicsOK
<1>5. Logging'  BY <1>1 DEF Logging, OneLog, Exists
<1>. QED  BY <1>3, <1>4, <1>5
-----------------------------------------------------------------------------
LEMMA InitHolds ==
  ASSUME Init
  PROVE  IInv
<1>1. /\ table = [k \in Keys |-> NoRow] /\ mail = [s \in Senders |-> NoKey]
      /\ batch = {} /\ writing = {} /\ delivered = [k \in Keys |-> 0]
      /\ refused = [k \in Keys |-> 0] /\ doubtful = {} /\ faults = 0
  BY DEF Init, ServiceInit
<1>2. PICK w \in Workloads :
        /\ log = w.log
        /\ pc = [s \in Senders |-> IF s \in Topics \cup w.requests THEN "idle" ELSE "done"]
  BY DEF Init
<1>3. /\ position = [t \in Topics |-> 0] /\ committed = [t \in Topics |-> 0]
      /\ unlogged = [t \in Topics |-> {}]
  BY DEF Init
<1>4. log \in [Topics -> Seq(Keys \cup {Unsendable})]
  BY <1>2, ConsumerAssumption
<1>5. NoRow \in Rows  BY RowType, NotificationAssumption DEF NoRow
<1>6. TypeOK  BY <1>1, <1>2, <1>5, NotificationAssumption DEF TypeOK, Points
<1>7. \A s \in Senders, k \in Keys : ~ Active(s, k)  BY <1>2 DEF Active
<1>8. Tries
  BY <1>1, <1>2, NotificationAssumption DEF Tries, TriesOK, NoRow, Row, Open
<1>9. Creators /\ \A k \in Keys : Sound(k)
  BY <1>1, <1>7 DEF Creators, Sound, NoRow, Row
<1>10. TopicsOK  BY <1>3, <1>4 DEF TopicsOK
<1>11. ASSUME NEW t \in Topics  PROVE OneLog(t)
  <2>1. pc[t] = "idle" /\ position[t] = 0 /\ committed[t] = 0
    BY <1>2, <1>3, ConsumerAssumption
  <2>2. Len(log[t]) \in Nat  BY <1>4
  <2>. QED  BY <2>1, <2>2 DEF OneLog
<1>. QED  BY <1>6, <1>8, <1>9, <1>10, <1>11 DEF IInv, ServiceInv, Logging

LEMMA WorkerLogging ==
  ASSUME ServiceInv, TopicsOK, Logging, Worker
  PROVE  TopicsOK' /\ Logging' /\ ServiceInv'
<1>1. RowsStay /\ UNCHANGED <<pc, mail, log, position, committed, unlogged>>
  BY ProcessRetriesStays DEF Worker, topicVars
<1>2. Logging'  BY <1>1, OtherLoop DEF Logging
<1>3. TopicsOK'  BY <1>1 DEF TopicsOK
<1>4. ServiceInv'  BY ProcessRetriesStep DEF Worker
<1>. QED  BY <1>2, <1>3, <1>4

LEMMA StepHolds ==
  ASSUME IInv, [Next]_vars
  PROVE  IInv'
<1> USE DEF IInv
<1>1. ASSUME NEW t \in Topics, Loop(t)  PROVE IInv'
  BY <1>1, FetchLogging, SkipLogging, FinishLogging DEF Loop
<1>2. ASSUME NEW r \in Requests, Caller(r)  PROVE IInv'
  BY <1>2, CallerStep
<1>3. ASSUME NEW s \in Senders, Sender(s)  PROVE IInv'
  <2>1. SendEmail(s) /\ UNCHANGED topicVars  BY <1>3 DEF Sender
  <2>2. TopicsOK'  BY <2>1 DEF topicVars, TopicsOK
  <2>. QED  BY <2>1, <2>2, SendEmailStep, SenderLogging
<1>4. CASE Worker  BY <1>4, WorkerLogging
<1>5. CASE Restart  BY <1>5, RestartStep
<1>6. CASE UNCHANGED vars  BY <1>6, StutterStep
<1>. QED  BY <1>1, <1>2, <1>3, <1>4, <1>5, <1>6 DEF Next

(* The inductive invariant of the service and its consumers.               *)
THEOREM Invariant == Spec => []IInv
<1>1. Init => IInv  BY InitHolds
<1>2. IInv /\ [Next]_vars => IInv'  BY StepHolds
<1>. QED  BY <1>1, <1>2, PTL DEF Spec

(* Every variable keeps its type: the retry count never exceeds            *)
(* MaxRetries, and the worker never holds two copies to write.             *)
THEOREM TypeCorrect == Spec => []TypeOK
<1>1. IInv => TypeOK  BY DEF IInv, ServiceInv
<1>. QED  BY <1>1, Invariant, PTL

(* SendEmail and the retry worker: a mail goes out at most once, however   *)
(* often its event comes and whatever crashes, but for doubtful keys.      *)
THEOREM MailsOnce == Spec => []OneMail
<1>1. IInv => OneMail
  <2> SUFFICES ASSUME IInv, NEW k \in Keys \ doubtful  PROVE delivered[k] <= 1
    BY DEF OneMail
  <2>1. Sound(k) /\ delivered[k] \in Nat  BY DEF IInv, ServiceInv, TypeOK
  <2>. QED  BY <2>1 DEF Sound
<1>. QED  BY <1>1, Invariant, PTL

(* AfterFailure: a notification is given up only after MaxRetries refused  *)
(* deliveries, even from outdated copies.                                  *)
THEOREM GivesUpInTime == Spec => []GivenUpInTime
<1>1. IInv => GivenUpInTime
  <2> SUFFICES ASSUME IInv, NEW k \in Keys, table[k].status = "FAILED"
               PROVE  refused[k] >= MaxRetries
    BY DEF GivenUpInTime
  <2>1. TriesOK(table[k], k) /\ table[k] \in Rows /\ refused[k] \in Nat
    BY DEF IInv, ServiceInv, Tries, TypeOK
  <2>. QED  BY <2>1, NotificationAssumption DEF TriesOK, Rows
<1>. QED  BY <1>1, Invariant, PTL

(* The consumer loops: an event whose offset is committed has its row,     *)
(* unless its call met a database error.                                   *)
THEOREM EventsKept == Spec => []EventKept
<1>1. IInv => EventKept
  <2> SUFFICES ASSUME IInv, NEW t \in Topics, NEW i \in 1..committed[t]
               PROVE  i \in unlogged[t] \/ Logged(log[t][i])
    BY DEF EventKept
  <2>1. OneLog(t)  BY DEF IInv, Logging
  <2>2. i \in 1..position[t] /\ ~ (i = position[t] /\ pc[t] # "idle")
    BY <2>1 DEF OneLog
  <2>3. i \in unlogged[t] \/ log[t][i] = Unsendable \/ Exists(log[t][i])
    BY <2>1, <2>2 DEF OneLog
  <2>. QED  BY <2>3 DEF Logged, Exists, NoRow, Row
<1>. QED  BY <1>1, Invariant, PTL

(* UpdateNotification writes whole rows without a condition; but for       *)
(* doubtful keys nobody overwrites SENT.                                   *)
THEOREM SentStays == Spec => SentIsFinal
<1>1. ASSUME IInv, [Next]_vars
      PROVE  [\A k \in Keys \ doubtful : table[k].status = "SENT" => table'[k] = table[k]]_serviceVars
  <2> SUFFICES ASSUME NEW k \in Keys \ doubtful, table[k].status = "SENT"
               PROVE  table'[k] = table[k]
    OBVIOUS
  <2>1. Sound(k) /\ TypeOK  BY <1>1 DEF IInv, ServiceInv
  <2>2. \A s \in Senders : ~ Active(s, k)
    <3>1. Row("PENDING", 0).status = "PENDING"  BY DEF Row
    <3>2. \A s \in Senders : Active(s, k) => table[k] = Row("PENDING", 0)
      BY <2>1 DEF Sound
    <3>. QED  BY <3>1, <3>2
  <2>3. \A c \in writing : c.key # k  BY <2>1 DEF Sound, Open
  <2>4. table[k] # NoRow  BY DEF NoRow, Row
  <2>5. CASE UNCHANGED table  BY <2>5
  <2>6. ASSUME NEW s \in Senders, SendEmail(s)  PROVE table'[k] = table[k]
    <3>1. UNCHANGED table \/ (mail[s] # k /\ \E row : Write(mail[s], row))
      BY <2>2, <2>4, <2>6 DEF SendEmail, Lookup, Create, Duplicate, Reread, Deliver,
         Record, RecordFails, DatabaseFails, Active, At
    <3>. QED  BY <2>1, <3>1 DEF Write, TypeOK
  <2>7. ASSUME ProcessRetries  PROVE table'[k] = table[k]
    BY <2>1, <2>3, <2>7 DEF ProcessRetries, ListDue, Attempt, WriteBack, WriteBackFails, Write, TypeOK
  <2>8. ASSUME NEW t \in Topics, Loop(t)  PROVE UNCHANGED table
    BY <2>8 DEF Loop, Fetch, SkipUnsendable, Commit, CommitFails, BackOff, Start, Finish
  <2>9. ASSUME NEW r \in Requests, Caller(r)  PROVE UNCHANGED table
    BY <2>9 DEF Caller, Request, Reply, Start, Finish
  <2>10. ASSUME Restart  PROVE UNCHANGED table  BY <2>10 DEF Restart, Crash
  <2>11. ASSUME UNCHANGED vars  PROVE UNCHANGED table  BY <2>11 DEF vars, serviceVars
  <2>. QED  BY <1>1, <2>5, <2>6, <2>7, <2>8, <2>9, <2>10, <2>11 DEF Next, Sender, Worker
<1>. QED  BY <1>1, Invariant, PTL DEF Spec, SentIsFinal
-----------------------------------------------------------------------------
(* The mail book.                                                          *)

Moves(k) == LET old == [phase |-> Phase(k), mails |-> delivered[k]]
                new == [phase |-> Phase(k)', mails |-> delivered'[k]]
            IN  \/ new = old
                \/ old = [phase |-> "none", mails |-> 0] /\ new = [phase |-> "open", mails |-> 0]
                \/ old = [phase |-> "open", mails |-> 0] /\ new = [phase |-> "open", mails |-> 1]
                \/ old = [phase |-> "open", mails |-> 1] /\ new = [phase |-> "sent", mails |-> 1]
                \/ old = [phase |-> "open", mails |-> 0] /\ new = [phase |-> "failed", mails |-> 0]

(* A step that leaves the row and the count of k alone.                    *)
LEMMA Untouched ==
  ASSUME NEW k \in Keys, table'[k] = table[k], delivered'[k] = delivered[k]
  PROVE  Moves(k)
BY DEF Moves, Phase

LEMMA SendEmailMoves ==
  ASSUME ServiceInv, NEW s \in Senders, SendEmail(s), NEW k \in Keys \ doubtful', doubtful \subseteq doubtful'
  PROVE  Moves(k)
<1>1. Sound(k) /\ TypeOK /\ Creators /\ Tries  BY DEF ServiceInv
<1>2. Row("PENDING", 0).status = "PENDING" /\ Row("SENT", 0).status = "SENT"
      /\ Row("RETRYING", 1).status = "RETRYING" /\ NoRow.status = "none"
  BY DEF Row, NoRow
<1>3. CASE UNCHANGED <<table, delivered>>  BY <1>3, Untouched
<1>4. CASE mail[s] # k
  <2>1. UNCHANGED <<table, delivered>>
        \/ (\E row : Write(mail[s], row) /\ UNCHANGED delivered)
        \/ (MailOut(mail[s]) /\ UNCHANGED table)
    BY DEF SendEmail, Lookup, Create, Duplicate, Reread, Deliver, Record, RecordFails, DatabaseFails,
       history, Sent, Refused, SentUnsurely
  <2>2. table'[k] = table[k] /\ delivered'[k] = delivered[k]
    BY <1>1, <1>4, <2>1 DEF TypeOK, Write, MailOut
  <2>. QED  BY <2>2, Untouched
<1>5. ASSUME mail[s] = k, table[k] = NoRow, Write(k, Row("PENDING", 0)), UNCHANGED delivered
      PROVE  Moves(k)
  <2>1. delivered[k] = 0
    <3>1. \A r \in Senders : ~ Active(r, k)  BY <1>1, <1>2, <1>5 DEF Creators, Exists
    <3>2. \A c \in writing : c.key # k  BY <1>1, <1>2, <1>5 DEF Tries, Exists
    <3>. QED  BY <1>1, <1>2, <1>5, <3>1, <3>2 DEF Sound
  <2>2. Phase(k) = "none" /\ Phase(k)' = "open"
    BY <1>1, <1>2, <1>5 DEF Phase, Open, TypeOK, Write
  <2>. QED  BY <1>5, <2>1, <2>2 DEF Moves
<1>6. ASSUME mail[s] = k, Deliver(s)  PROVE Moves(k)
  <2>1. table[k].status = "PENDING" /\ delivered[k] = 0
    BY <1>1, <1>2, <1>6 DEF Sound, Active, Deliver, At
  <2>2. Phase(k) = "open" /\ Phase(k)' = "open"  BY <1>6, <2>1 DEF Deliver, Phase, Open
  <2>3. delivered'[k] \in {0, 1}
    BY <1>1, <1>6, <2>1 DEF Deliver, Sent, Refused, SentUnsurely, MailOut, CountUpTo, TypeOK
  <2>. QED  BY <2>1, <2>2, <2>3 DEF Moves
<1>7. ASSUME mail[s] = k, Record(s)  PROVE Moves(k)
  <2>1. table[k].status = "PENDING" /\ delivered[k] = IF pc[s] = "sent" THEN 1 ELSE 0
    BY <1>1, <1>2, <1>7 DEF Sound, Active, Record, At
  <2>2. Phase(k) = "open" /\ delivered' = delivered
    BY <1>7, <2>1 DEF Phase, Open, Record, history
  <2>3. CASE pc[s] = "sent" /\ Write(k, Row("SENT", 0))
    <3>1. Phase(k)' = "sent"  BY <1>1, <1>2, <2>3 DEF Phase, Open, Write, TypeOK
    <3>. QED  BY <2>1, <2>2, <2>3, <3>1 DEF Moves
  <2>4. CASE pc[s] = "refused" /\ Write(k, Row("RETRYING", 1))
    <3>1. Phase(k)' = "open"  BY <1>1, <1>2, <2>4 DEF Phase, Open, Write, TypeOK
    <3>. QED  BY <2>2, <3>1 DEF Moves
  <2>. QED  BY <1>7, <2>3, <2>4 DEF Record, At
<1>8. CASE Create(s) \/ DatabaseFails(s)
  BY <1>3, <1>4, <1>5, <1>8 DEF Create, DatabaseFails, history
<1>9. CASE Lookup(s) \/ Duplicate(s) \/ Reread(s) \/ RecordFails(s)
  BY <1>3, <1>9 DEF Lookup, Duplicate, Reread, RecordFails, history
<1>. QED  BY <1>4, <1>6, <1>7, <1>8, <1>9 DEF SendEmail

LEMMA ProcessRetriesMoves ==
  ASSUME ServiceInv, ProcessRetries, NEW k \in Keys \ doubtful', doubtful \subseteq doubtful'
  PROVE  Moves(k)
<1>1. Sound(k) /\ TypeOK /\ Tries  BY DEF ServiceInv
<1>2. CASE UNCHANGED <<table, delivered>>  BY <1>2, Untouched
<1>3. ASSUME NEW c \in batch, Attempt(c)  PROVE Moves(k)
  <2>1. CASE c.key # k
    <3>1. table'[k] = table[k] /\ delivered'[k] = delivered[k]
      BY <1>1, <1>3, <2>1 DEF Attempt, Sent, Refused, SentUnsurely, MailOut, TypeOK
    <3>. QED  BY <3>1, Untouched
  <2>2. CASE c.key = k
    <3>1. ~ Outdated(c)  BY <1>3, <2>2 DEF Attempt
    <3>2. table[k] = c.row /\ c.row.status \in Open
      BY <1>1, <2>2, <3>1 DEF Outdated, Tries
    <3>3. \A s \in Senders : ~ Active(s, k)  BY <2>2, <3>1 DEF Outdated, Active, At
    <3>4. writing = {}  BY <1>3 DEF Attempt
    <3>5. delivered[k] = 0  BY <1>1, <3>2, <3>3, <3>4 DEF Sound, Open
    <3>6. Phase(k) = "open" /\ Phase(k)' = "open"  BY <1>3, <3>2 DEF Attempt, Phase
    <3>7. delivered'[k] \in {0, 1}
      BY <1>1, <1>3, <2>2, <3>5 DEF Attempt, Sent, Refused, SentUnsurely, MailOut, CountUpTo, TypeOK
    <3>. QED  BY <3>5, <3>6, <3>7 DEF Moves
  <2>. QED  BY <2>1, <2>2
<1>4. ASSUME NEW c \in writing, WriteBack(c)  PROVE Moves(k)
  <2>1. delivered' = delivered  BY <1>4 DEF WriteBack, history
  <2>2. CASE c.key # k
    <3>1. table'[k] = table[k]  BY <1>1, <1>4, <2>2 DEF WriteBack, Write, TypeOK
    <3>. QED  BY <2>1, <3>1, Untouched
  <2>3. CASE c.key = k
    <3>1. table[k].status \in Open /\ delivered[k] = IF c.row.status = "SENT" THEN 1 ELSE 0
      BY <1>1, <2>3 DEF Sound
    <3>2. table'[k] = c.row  BY <1>1, <1>4, <2>3 DEF WriteBack, Write, TypeOK
    <3>3. c.row.status \in {"SENT", "FAILED"} \cup Open
      BY <1>1 DEF TypeOK, Copies, Rows, Tries
    <3>4. Phase(k) = "open"  BY <3>1 DEF Phase
    <3>5. Phase(k)' = IF c.row.status = "SENT" THEN "sent"
                      ELSE IF c.row.status = "FAILED" THEN "failed" ELSE "open"
      BY <3>2, <3>3 DEF Phase, Open
    <3>. QED  BY <2>1, <3>1, <3>4, <3>5 DEF Moves, Open
  <2>. QED  BY <2>2, <2>3
<1>. QED  BY <1>2, <1>3, <1>4 DEF ProcessRetries, ListDue, WriteBackFails, history

LEMMA StepMoves ==
  ASSUME IInv, [Next]_vars
  PROVE  doubtful \subseteq doubtful' /\ \A k \in Keys \ doubtful' : Moves(k)
<1>1. ServiceInv  BY DEF IInv
<1>2. ASSUME NEW s \in Senders, SendEmail(s)  PROVE doubtful \subseteq doubtful'
  BY <1>2 DEF SendEmail, Lookup, Create, Duplicate, Reread, Deliver, Record, RecordFails,
     DatabaseFails, Doubt, history
<1>3. ASSUME ProcessRetries  PROVE doubtful \subseteq doubtful'
  BY <1>3 DEF ProcessRetries, ListDue, Attempt, WriteBack, WriteBackFails, history
<1>4. CASE doubtful \subseteq doubtful' /\ UNCHANGED <<table, delivered>>
  BY <1>4, Untouched
<1>5. ASSUME NEW t \in Topics, Loop(t)  PROVE UNCHANGED <<table, delivered, doubtful>>
  BY <1>5 DEF Loop, Fetch, SkipUnsendable, Commit, CommitFails, BackOff, Start, Finish, history
<1>6. ASSUME NEW r \in Requests, Caller(r)  PROVE UNCHANGED <<table, delivered, doubtful>>
  BY <1>6 DEF Caller, Request, Reply, Start, Finish, history
<1>7. CASE Restart
  BY <1>4, <1>7 DEF Restart, Crash
<1>8. CASE UNCHANGED vars
  BY <1>4, <1>8 DEF vars, serviceVars, history
<1>9. ASSUME NEW s \in Senders, Sender(s)
      PROVE  doubtful \subseteq doubtful' /\ \A k \in Keys \ doubtful' : Moves(k)
  BY <1>1, <1>2, <1>9, SendEmailMoves DEF Sender
<1>10. CASE Worker
  BY <1>1, <1>3, <1>10, ProcessRetriesMoves DEF Worker
<1>. QED  BY <1>4, <1>5, <1>6, <1>7, <1>8, <1>9, <1>10 DEF Next

(* Senders, worker and restarts together keep the mail book: for a key     *)
(* that is not doubtful, SENT is recorded when its one mail is out, FAILED *)
(* when none is, and both are final.                                       *)
THEOREM KeepsMailBook == Spec => ImplementsMailBook
<1>1. Init => Book!Init
  <2> SUFFICES ASSUME Init  PROVE Book!Init
    OBVIOUS
  <2>1. table = [k \in Keys |-> NoRow] /\ delivered = [k \in Keys |-> 0] /\ doubtful = {}
    BY DEF Init, ServiceInit
  <2>2. \A k \in Keys : Phase(k) = "none"
    BY <2>1 DEF Phase, NoRow, Row, Open
  <2>. QED  BY <2>1, <2>2 DEF Book!Init
<1>2. IInv /\ [Next]_vars => [Book!Next]_<<[k \in Keys |-> Phase(k)], delivered, doubtful>>
  <2> SUFFICES ASSUME IInv, [Next]_vars  PROVE Book!Next
    OBVIOUS
  <2>1. doubtful \subseteq doubtful'  BY StepMoves
  <2>2. ASSUME NEW k \in Keys \ doubtful'
        PROVE  Book!Log(k) \/ Book!Mail(k) \/ Book!Confirm(k) \/ Book!GiveUp(k) \/ Book!Rests(k)
    <3>1. Moves(k)  BY StepMoves
    <3>. QED  BY <3>1 DEF Moves, Book!Log, Book!Mail, Book!Confirm, Book!GiveUp, Book!Rests,
                 Book!Is, Book!Becomes
  <2>. QED  BY <2>1, <2>2 DEF Book!Next
<1>. QED  BY <1>1, <1>2, Invariant, PTL DEF Spec, ImplementsMailBook, Book!Spec

(* The book's promise, in terms of the rows.                               *)
LEMMA TruthfulAt ==
  ASSUME Book!Truthful, NEW k \in Keys, k \notin doubtful
  PROVE  /\ Phase(k) = "sent" => delivered[k] = 1
         /\ Phase(k) = "failed" => delivered[k] = 0
<1> DEFINE phases == [q \in Keys |-> Phase(q)]
<1>1. \A q \in Keys \ doubtful : /\ phases[q] = "sent" => delivered[q] = 1
                                 /\ phases[q] = "failed" => delivered[q] = 0
  BY DEF Book!Truthful
<1>2. phases[k] = Phase(k)
  OBVIOUS
<1> HIDE DEF phases
<1> QED BY <1>1, <1>2

(* The book only records what happened.                                    *)
LEMMA BookIsTruthful == Book!Spec => [](Book!Truthful)
<1> DEFINE bookVars == <<[k \in Keys |-> Phase(k)], delivered, doubtful>>
<1>1. Book!Init => Book!Truthful
  BY DEF Book!Init, Book!Truthful
<1>2. Book!Truthful /\ [Book!Next]_bookVars => Book!Truthful'
  <2> SUFFICES ASSUME Book!Truthful, [Book!Next]_bookVars, NEW k \in Keys \ doubtful'
               PROVE  /\ Phase(k)' = "sent" => delivered'[k] = 1
                      /\ Phase(k)' = "failed" => delivered'[k] = 0
    BY DEF Book!Truthful
  <2>1. CASE Book!Next
    <3>1. k \notin doubtful
      BY <2>1 DEF Book!Next
    <3>2. /\ Phase(k) = "sent" => delivered[k] = 1
          /\ Phase(k) = "failed" => delivered[k] = 0
      BY <3>1, TruthfulAt
    <3>3. Book!Log(k) \/ Book!Mail(k) \/ Book!Confirm(k) \/ Book!GiveUp(k) \/ Book!Rests(k)
      BY <2>1 DEF Book!Next
    <3>. QED  BY <3>2, <3>3 DEF Book!Log, Book!Mail, Book!Confirm, Book!GiveUp, Book!Rests,
                 Book!Is, Book!Becomes
  <2>2. CASE UNCHANGED bookVars
    <3>1. Phase(k)' = Phase(k) /\ delivered' = delivered /\ doubtful' = doubtful
      BY <2>2
    <3>. QED  BY <3>1, TruthfulAt
  <2>. QED  BY <2>1, <2>2
<1>. QED  BY <1>1, <1>2, PTL DEF Book!Spec

(* GetNotification: a SENT row had exactly one mail and a FAILED row had   *)
(* none, unless its key is doubtful.                                       *)
THEOREM RowsAreTruthful == Spec => [](Book!Truthful)
  BY KeepsMailBook, BookIsTruthful, PTL DEF ImplementsMailBook
=============================================================================
