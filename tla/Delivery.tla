------------------------------- MODULE Delivery -------------------------------
(***************************************************************************)
(* What the mail pipeline promises to the sessions that submit messages,   *)
(* without its queues and workers: a submission is answered at most once,  *)
(* it is accepted only when it has been delivered to somebody, and it is   *)
(* delivered to nobody before it was submitted.  It does not promise that  *)
(* a refused message is not delivered, before or after the refusal.        *)
(* Module MailPipeline implements this specification.                      *)
(***************************************************************************)
EXTENDS Naturals

CONSTANTS
  Submissions,   (* the messages                                             *)
  Places         (* the places in a message's list of recipients             *)

VARIABLES
  verdict,       (* what the submitter of a message has been told            *)
  served         (* the recipients that have got their message               *)

dvars == <<verdict, served>>

Init ==
  /\ verdict = [m \in Submissions |-> "none"]
  /\ served = {}

Submit(m) ==
  /\ verdict[m] = "none"
  /\ verdict' = [verdict EXCEPT ![m] = "pending"]
  /\ served' = served

Serve(m, i) ==
  /\ verdict[m] # "none"
  /\ served' = served \cup {<<m, i>>}
  /\ verdict' = verdict

Accept(m) ==
  /\ verdict[m] = "pending"
  /\ \E i \in Places : <<m, i>> \in served
  /\ verdict' = [verdict EXCEPT ![m] = "accepted"]
  /\ served' = served

Refuse(m) ==
  /\ verdict[m] = "pending"
  /\ verdict' = [verdict EXCEPT ![m] = "refused"]
  /\ served' = served

Next ==
  \E m \in Submissions :
    \/ Submit(m) \/ Accept(m) \/ Refuse(m)
    \/ \E i \in Places : Serve(m, i)

Spec == Init /\ [][Next]_dvars
=============================================================================
