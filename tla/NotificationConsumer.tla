------------------------ MODULE NotificationConsumer -----------------------
(***************************************************************************)
(* The notification service with its callers: one loop per Kafka topic,    *)
(* which reads the events of the order service and commits their offsets,  *)
(* and direct gRPC requests.  The broker keeps the log and the committed   *)
(* offset of each topic; the reader keeps its own position, which only     *)
(* moves forward until the process is started again.                       *)
(***************************************************************************)
EXTENDS NotificationService, Sequences

CONSTANTS
  Topics,       \* events.order.completed, events.order.failed: one loop each
  Unsendable,   \* an event of bad JSON, without an address or a rendered body
  Requests,     \* gRPC requests
  KeyOf,        \* KeyOf[r]: the key made from address, subject and time
  Workloads     \* what may arrive: log[t], the events of topic t, each one the
                \* key of its mail or Unsendable; and requests

ASSUME ConsumerAssumption ==
  /\ Senders = Topics \cup Requests /\ Topics \cap Requests = {}
  /\ Unsendable \notin Keys
  /\ KeyOf \in [Requests -> Keys]
  /\ \A w \in Workloads : /\ w.log \in [Topics -> Seq(Keys \cup {Unsendable})]
                          /\ w.requests \subseteq Requests

VARIABLES
  log,          \* the events that the broker holds
  position,     \* position[t]: how many events the reader has fetched
  committed,    \* committed[t]: the offset that the group has committed
  unlogged      \* unlogged[t]: fetched offsets whose call hit a database error

topicVars == <<log, position, committed, unlogged>>
vars == <<serviceVars, topicVars>>

Init ==
  /\ ServiceInit
  /\ \E w \in Workloads :
       /\ log = w.log
       /\ pc = [s \in Senders |-> IF s \in Topics \cup w.requests THEN "idle" ELSE "done"]
  /\ position = [t \in Topics |-> 0]
  /\ committed = [t \in Topics |-> 0]
  /\ unlogged = [t \in Topics |-> {}]

More(t) == position[t] < Len(log[t])
Event(t) == log[t][position[t] + 1]
Advance(t) == position' = [position EXCEPT ![t] = @ + 1]
CommitUpTo(t, offset) == committed' = [committed EXCEPT ![t] = offset]

(* Mutant of Fetch: the offset is committed when the event is read.        *)
FetchCommits(t) ==
  /\ More(t) /\ Event(t) # Unsendable
  /\ Start(t, Event(t))
  /\ Advance(t) /\ CommitUpTo(t, position[t] + 1)
  /\ UNCHANGED <<log, unlogged>>

(* FetchMessage, then the call of SendEmail.                               *)
Fetch(t) ==
  /\ More(t) /\ Event(t) # Unsendable
  /\ Start(t, Event(t))
  /\ Advance(t)
  /\ UNCHANGED <<log, committed, unlogged>>

(* Poison pills are committed and skipped; a failing commit is ignored.    *)
SkipUnsendable(t) ==
  /\ More(t) /\ Event(t) = Unsendable
  /\ At(t, {"idle"})
  /\ Advance(t)
  /\ \/ CommitUpTo(t, position[t] + 1) /\ UNCHANGED faults
     \/ Fault /\ UNCHANGED committed
  /\ UNCHANGED <<table, senderVars, workerVars, history, log, unlogged>>

(* After SendEmail: commit, unless the database failed.                    *)
Commit(t) ==
  /\ At(t, {"ok", "error"})
  /\ Finish(t, "idle") /\ UNCHANGED faults
  /\ CommitUpTo(t, position[t])
  /\ UNCHANGED <<log, position, unlogged>>

(* CommitMessages fails, which is ignored.                                 *)
CommitFails(t) ==
  /\ At(t, {"ok", "error"})
  /\ Finish(t, "idle") /\ Fault
  /\ UNCHANGED topicVars

(* Back off; the loop goes on with FetchMessage, which has moved on.       *)
BackOff(t) ==
  /\ At(t, {"dbError"})
  /\ Finish(t, "idle") /\ UNCHANGED faults
  /\ unlogged' = [unlogged EXCEPT ![t] = @ \cup {position[t]}]
  /\ UNCHANGED <<log, position, committed>>

Request(r) == Start(r, KeyOf[r]) /\ UNCHANGED topicVars
Reply(r) ==
  /\ At(r, {"ok", "error", "dbError"})
  /\ Finish(r, "done") /\ UNCHANGED <<faults, topicVars>>

(* The readers start again at the committed offsets; requests are broken.  *)
Restart ==
  /\ Crash([s \in Senders |-> IF s \in Topics \/ At(s, {"idle"}) THEN "idle" ELSE "done"])
  /\ position' = committed
  /\ UNCHANGED <<log, committed, unlogged>>

Loop(t) == Fetch(t) \/ SkipUnsendable(t) \/ Commit(t) \/ CommitFails(t) \/ BackOff(t)
Caller(r) == Request(r) \/ Reply(r)
Sender(s) == SendEmail(s) /\ UNCHANGED topicVars
Worker == ProcessRetries /\ UNCHANGED topicVars

Next ==
  \/ \E t \in Topics : Loop(t)
  \/ \E r \in Requests : Caller(r)
  \/ \E s \in Senders : Sender(s)
  \/ Worker
  \/ Restart

(* The worker ticks every ten seconds and a row becomes due again seconds  *)
(* after its last update (20 at most), so each open row is listed in due   *)
(* again and again until it is closed.                                     *)
Polled(k) == (\E due \in SUBSET Keys : k \in due /\ ListDue(due)) /\ UNCHANGED topicVars

Fairness ==
  /\ \A t \in Topics : WF_vars(Loop(t))
  /\ \A s \in Senders : WF_vars(Sender(s))
  /\ \A k \in Keys : SF_vars(Polled(k))
  /\ WF_vars(Worker)

Spec == Init /\ [][Next]_vars /\ Fairness

-----------------------------------------------------------------------------
Logged(event) == event = Unsendable \/ table[event] # NoRow

(* An event whose offset is passed has its row in the table, so that the   *)
(* worker sees to its mail, whatever crashes and however the commits fail; *)
(* only an event that met a database error may be missing.                 *)
EventKept ==
  \A t \in Topics : \A i \in 1..committed[t] : i \in unlogged[t] \/ Logged(log[t][i])

(* The comments of the loop say that the offset is NOT committed if the    *)
(* database failed, and that the same message is fetched again: no event   *)
(* is passed without a row.                                                *)
NoEventLost == \A t \in Topics : \A i \in 1..committed[t] : Logged(log[t][i])

(* The loops read their logs to the end, and every notification that was   *)
(* logged becomes SENT or FAILED and is left alone: nothing stays open     *)
(* because its sender died, its write was lost or its copy was outdated.   *)
EverythingSettles ==
  <>[](/\ \A t \in Topics : ~ More(t) /\ At(t, {"idle"})
       /\ \A k \in Keys : table[k].status \notin Open)
=============================================================================
