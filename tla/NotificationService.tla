------------------------ MODULE NotificationService ------------------------
(***************************************************************************)
(* The notification service: SendEmail, run by any number of senders at    *)
(* once, and the retry worker, over the notifications table.  SendEmail    *)
(* and SendSMS have the same control and are one operation here.  What a   *)
(* sender or the worker writes is its own copy of the row, taken when the  *)
(* row was created or listed; the write has no condition and its error is  *)
(* ignored.                                                                *)
(***************************************************************************)
EXTENDS Naturals

CONSTANTS
  Senders,      \* goroutines that call SendEmail
  Keys,         \* idempotency keys
  NoKey,        \* a sender without a call
  MaxRetries,   \* the max_retries that SendEmail gives to every row
  MaxFaults     \* bound on database errors, unclear deliveries and crashes

ASSUME NotificationAssumption ==
  /\ NoKey \notin Keys
  /\ MaxRetries \in Nat /\ MaxRetries > 1
  /\ MaxFaults \in Nat

VARIABLES
  table,        \* table[k]: status and retry_count of the row with key k
  pc,           \* pc[s]: where sender s is in SendEmail, or what it returned
  mail,         \* mail[s]: the key of its call
  batch,        \* the copies that the worker has listed and not processed
  writing,      \* the copies (at most one) that the worker is about to write
  delivered,    \* delivered[k]: how many mails of key k went out, up to 2
  refused,      \* refused[k]: how many deliveries returned an error, up to
                \* MaxRetries
  doubtful,     \* keys with a delivery that the table has not learned, or
                \* that was repeated from an outdated copy
  faults

senderVars == <<pc, mail>>
workerVars == <<batch, writing>>
history == <<delivered, refused, doubtful>>
serviceVars == <<table, senderVars, workerVars, history, faults>>

Row(status, tries) == [status |-> status, tries |-> tries]
NoRow == Row("none", 0)
Open == {"PENDING", "RETRYING"}
Rows == [status : {"none", "SENT", "FAILED"} \cup Open, tries : 0..MaxRetries]
Copies == [key : Keys, row : Rows]

(* The mail book that the rows amount to.                                  *)
Phase(k) == IF table[k].status \in Open THEN "open"
            ELSE IF table[k].status = "SENT" THEN "sent"
            ELSE IF table[k].status = "FAILED" THEN "failed" ELSE "none"
Book == INSTANCE MailBook
  WITH phase <- [k \in Keys |-> Phase(k)], mails <- delivered, muddled <- doubtful

ServiceInit ==
  /\ table = [k \in Keys |-> NoRow]
  /\ mail = [s \in Senders |-> NoKey]
  /\ batch = {} /\ writing = {}
  /\ delivered = [k \in Keys |-> 0]
  /\ refused = [k \in Keys |-> 0]
  /\ doubtful = {}
  /\ faults = 0

Write(k, row) == table' = [table EXCEPT ![k] = row]
Doubt(k) == doubtful' = doubtful \cup {k}
Fault == faults < MaxFaults /\ faults' = faults + 1

(* The provider sent the mail, refused it, or sent it and reported an      *)
(* error all the same.                                                     *)
CountUpTo(limit, n) == IF n < limit THEN n + 1 ELSE limit
MailOut(k) == delivered' = [delivered EXCEPT ![k] = CountUpTo(2, @)]
ErrorBack(k) == refused' = [refused EXCEPT ![k] = CountUpTo(MaxRetries, @)]
Sent(k) == MailOut(k) /\ UNCHANGED <<refused, faults>>
Refused(k) == ErrorBack(k) /\ UNCHANGED <<delivered, faults>>
SentUnsurely(k) == MailOut(k) /\ ErrorBack(k) /\ Fault

-----------------------------------------------------------------------------
(* SendEmail of sender s.  At "sent" and "refused" the delivery is done    *)
(* and not recorded; "ok", "error" and "dbError" are what was returned.    *)

Goto(s, next) == pc' = [pc EXCEPT ![s] = next] /\ UNCHANGED mail
At(s, points) == pc[s] \in points

Start(s, k) ==
  /\ At(s, {"idle"})
  /\ pc' = [pc EXCEPT ![s] = "lookup"]
  /\ mail' = [mail EXCEPT ![s] = k]
  /\ UNCHANGED <<table, workerVars, history, faults>>

(* Mutant of Lookup: "we might trigger immediate retry" of an open row.    *)
LookupResends(s) ==
  /\ At(s, {"lookup"})
  /\ Goto(s, CASE table[mail[s]] = NoRow          -> "create"
               [] table[mail[s]].status \in Open -> "deliver"
               [] OTHER                          -> "ok")
  /\ UNCHANGED <<table, workerVars, history, faults>>

(* A notification that exists is returned, whatever its status.            *)
Lookup(s) ==
  /\ At(s, {"lookup"})
  /\ Goto(s, IF table[mail[s]] = NoRow THEN "create" ELSE "ok")
  /\ UNCHANGED <<table, workerVars, history, faults>>

Create(s) ==
  /\ At(s, {"create"}) /\ table[mail[s]] = NoRow
  /\ Write(mail[s], Row("PENDING", 0))
  /\ Goto(s, "deliver")
  /\ UNCHANGED <<workerVars, history, faults>>

(* The unique idempotency_key: another sender came first.                  *)
Duplicate(s) ==
  /\ At(s, {"create"}) /\ table[mail[s]] # NoRow
  /\ Goto(s, "reread")
  /\ UNCHANGED <<table, workerVars, history, faults>>

Reread(s) ==
  /\ At(s, {"reread"})
  /\ Goto(s, "ok")
  /\ UNCHANGED <<table, workerVars, history, faults>>

(* The first attempt; its outcome is only in memory until it is recorded.  *)
Deliver(s) ==
  /\ At(s, {"deliver"})
  /\ \/ Sent(mail[s]) /\ Goto(s, "sent") /\ UNCHANGED doubtful
     \/ Refused(mail[s]) /\ Goto(s, "refused") /\ UNCHANGED doubtful
     \/ SentUnsurely(mail[s]) /\ Goto(s, "refused") /\ Doubt(mail[s])
  /\ UNCHANGED <<table, workerVars>>

(* Mutant of Record: the outcome of the delivery is not looked at.         *)
RecordUnseen(s) ==
  /\ \/ At(s, {"sent"}) /\ Write(mail[s], Row("SENT", 0)) /\ Goto(s, "ok")
     \/ At(s, {"refused"}) /\ Write(mail[s], Row("SENT", 0)) /\ Goto(s, "error")
  /\ UNCHANGED <<workerVars, history, faults>>

(* UpdateNotification by id; the caller gets the outcome of the delivery.  *)
Record(s) ==
  /\ \/ At(s, {"sent"}) /\ Write(mail[s], Row("SENT", 0)) /\ Goto(s, "ok")
     \/ At(s, {"refused"}) /\ Write(mail[s], Row("RETRYING", 1)) /\ Goto(s, "error")
  /\ UNCHANGED <<workerVars, history, faults>>

(* Its error is ignored.                                                   *)
RecordFails(s) ==
  /\ \/ At(s, {"sent"}) /\ Goto(s, "ok") /\ Doubt(mail[s])
     \/ At(s, {"refused"}) /\ Goto(s, "error") /\ UNCHANGED doubtful
  /\ Fault
  /\ UNCHANGED <<table, workerVars, delivered, refused>>

(* The lookup or the insert fails ("failed to check idempotency", "failed  *)
(* to log notification"); the insert may have taken effect.  The error of  *)
(* the second lookup has no such text.                                     *)
DatabaseFails(s) ==
  /\ \/ At(s, {"lookup", "create"}) /\ Goto(s, "dbError") /\ UNCHANGED table
     \/ /\ At(s, {"create"}) /\ table[mail[s]] = NoRow
        /\ Write(mail[s], Row("PENDING", 0)) /\ Goto(s, "dbError")
     \/ At(s, {"reread"}) /\ Goto(s, "error") /\ UNCHANGED table
  /\ Fault
  /\ UNCHANGED <<workerVars, history>>

(* The caller takes the result.                                            *)
Finish(s, next) ==
  /\ pc' = [pc EXCEPT ![s] = next]
  /\ mail' = [mail EXCEPT ![s] = NoKey]
  /\ UNCHANGED <<table, workerVars, history>>

SendEmail(s) ==
  \/ Lookup(s) \/ Create(s) \/ Duplicate(s) \/ Reread(s)
  \/ Deliver(s) \/ Record(s) \/ RecordFails(s) \/ DatabaseFails(s)

-----------------------------------------------------------------------------
(* The retry worker.                                                       *)

(* Mutants of Due: only RETRYING rows are polled, as service.md has it;    *)
(* rows of every status are.                                               *)
DueRetrying(k) == table[k].status = "RETRYING"
DueAny(k) == table[k] # NoRow
Due(k) == table[k].status \in Open

(* A tick: ListPendingOrRetrying copies the rows, and those in due are     *)
(* the ones whose backoff will have passed when the loop comes to them;    *)
(* the others are skipped.                                                 *)
ListDue(due) ==
  /\ batch = {} /\ writing = {}
  /\ due # {} /\ \A k \in due : Due(k)
  /\ batch' = {[key |-> k, row |-> table[k]] : k \in due}
  /\ UNCHANGED <<table, senderVars, writing, history, faults>>

(* Mutants of AfterFailure: given up one attempt early; one too many.      *)
AfterFailureEarly(row) ==
  IF row.tries + 2 >= MaxRetries THEN Row("FAILED", row.tries + 1) ELSE Row("RETRYING", row.tries + 1)
AfterFailureLate(row) ==
  IF row.tries + 1 > MaxRetries THEN Row("FAILED", row.tries + 1) ELSE Row("RETRYING", row.tries + 1)

AfterFailure(row) ==
  IF row.tries + 1 >= MaxRetries THEN Row("FAILED", row.tries + 1) ELSE Row("RETRYING", row.tries + 1)

(* The copy is not what the table says, or is about to be: another         *)
(* delivery of the row is under way, or was recorded after the listing.    *)
Outdated(c) ==
  \/ table[c.key] # c.row
  \/ \E s \in Senders : mail[s] = c.key /\ At(s, {"deliver", "sent", "refused"})

Attempt(c) ==
  /\ c \in batch /\ writing = {}
  /\ \/ Sent(c.key) /\ writing' = {[c EXCEPT !.row.status = "SENT"]}
     \/ Refused(c.key) /\ writing' = {[c EXCEPT !.row = AfterFailure(c.row)]}
     \/ SentUnsurely(c.key) /\ writing' = {[c EXCEPT !.row = AfterFailure(c.row)]}
  /\ doubtful' = IF Outdated(c) \/ faults' # faults THEN doubtful \cup {c.key} ELSE doubtful
  /\ batch' = batch \ {c}
  /\ UNCHANGED <<table, senderVars>>

WriteBack(c) ==
  /\ c \in writing
  /\ Write(c.key, c.row)
  /\ writing' = {}
  /\ UNCHANGED <<senderVars, batch, history, faults>>

WriteBackFails(c) ==
  /\ c \in writing /\ Fault
  /\ writing' = {}
  /\ doubtful' = IF c.row.status = "SENT" THEN doubtful \cup {c.key} ELSE doubtful
  /\ UNCHANGED <<table, senderVars, batch, delivered, refused>>

ProcessRetries ==
  \/ \E due \in SUBSET Keys : ListDue(due)
  \/ \E c \in batch : Attempt(c)
  \/ \E c \in writing : WriteBack(c) \/ WriteBackFails(c)

-----------------------------------------------------------------------------
(* The process dies and is started again.  The sender s goes on at next[s].*)
Crash(next) ==
  /\ Fault
  /\ pc' = next
  /\ mail' = [s \in Senders |-> NoKey]
  /\ batch' = {} /\ writing' = {}
  /\ doubtful' = doubtful \cup {mail[s] : s \in {r \in Senders : At(r, {"sent"})}}
                         \cup {c.key : c \in {d \in writing : d.row.status = "SENT"}}
  /\ UNCHANGED <<table, delivered, refused>>

-----------------------------------------------------------------------------
Points == {"idle", "lookup", "create", "reread", "deliver", "sent", "refused",
           "ok", "error", "dbError", "done"}

TypeOK ==
  /\ table \in [Keys -> Rows]
  /\ pc \in [Senders -> Points]
  /\ mail \in [Senders -> Keys \cup {NoKey}]
  /\ \A s \in Senders : mail[s] = NoKey <=> pc[s] \in {"idle", "done"}
  /\ batch \subseteq Copies /\ writing \subseteq Copies
  /\ \A c, d \in writing : c = d
  /\ delivered \in [Keys -> 0..2] /\ refused \in [Keys -> 0..MaxRetries]
  /\ doubtful \subseteq Keys
  /\ faults \in 0..MaxFaults

(* A mail goes out at most once, however often its event is delivered and  *)
(* whatever crashes, unless the table has not learned of a delivery, or    *)
(* the worker has worked from an outdated copy.                            *)
OneMail == \A k \in Keys \ doubtful : delivered[k] <= 1

(* With the same exceptions, what was SENT is not written back by anybody  *)
(* who still holds an older copy of the row.                               *)
SentIsFinal ==
  [][\A k \in Keys \ doubtful : table[k].status = "SENT" => table'[k] = table[k]]_serviceVars

(* Seen from its rows and what went out, the service keeps the mail book:  *)
(* whatever senders and worker do at once, a row says SENT when its one    *)
(* mail is out and FAILED when none is, and nothing follows on either.     *)
ImplementsMailBook == Book!Spec

(* No notification is given up before MaxRetries deliveries were refused,  *)
(* even when old copies overwrite newer ones and retry counts are lost.    *)
(* Nothing is said of the time after: a sender whose first delivery is     *)
(* refused late reopens a row that the worker has given up meanwhile.      *)
GivenUpInTime ==
  \A k \in Keys : table[k].status = "FAILED" => refused[k] >= MaxRetries
=============================================================================
