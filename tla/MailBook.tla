------------------------------ MODULE MailBook -----------------------------
(***************************************************************************)
(* What the notification service promises for the mail of each key: it is  *)
(* logged once, goes out at most once, and is in the end recorded as sent  *)
(* if it went out or given up if it did not.  No sender, worker or copy of *)
(* a row appears.  Nothing is promised for keys that are muddled.          *)
(***************************************************************************)
EXTENDS Naturals

CONSTANT Keys

VARIABLES
  phase,        \* phase[k]: "none", "open", "sent" or "failed"
  mails,        \* mails[k]: how many mails went out
  muddled       \* keys with a mail that was not recorded or not asked for

Init ==
  /\ phase = [k \in Keys |-> "none"]
  /\ mails = [k \in Keys |-> 0]
  /\ muddled = {}

Is(k, p, n) == phase[k] = p /\ mails[k] = n
Becomes(k, p, n) == phase'[k] = p /\ mails'[k] = n

Log(k) == Is(k, "none", 0) /\ Becomes(k, "open", 0)
Mail(k) == Is(k, "open", 0) /\ Becomes(k, "open", 1)
Confirm(k) == Is(k, "open", 1) /\ Becomes(k, "sent", 1)
GiveUp(k) == Is(k, "open", 0) /\ Becomes(k, "failed", 0)
Rests(k) == Becomes(k, phase[k], mails[k])

Next ==
  /\ muddled \subseteq muddled'
  /\ \A k \in Keys \ muddled' : Log(k) \/ Mail(k) \/ Confirm(k) \/ GiveUp(k) \/ Rests(k)

Spec == Init /\ [][Next]_<<phase, mails, muddled>>

(* What is recorded is what happened.                                      *)
Truthful ==
  \A k \in Keys \ muddled : /\ phase[k] = "sent" => mails[k] = 1
                            /\ phase[k] = "failed" => mails[k] = 0
=============================================================================
