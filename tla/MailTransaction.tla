--------------------------- MODULE MailTransaction ---------------------------
(***************************************************************************)
(* What an SMTP session promises about mail transactions, without saying   *)
(* how: a transaction is opened by a sender, addressed to one recipient at *)
(* a time up to a limit, and only an addressed one receives a body; the    *)
(* body is handed on at most once, for exactly the recipients that were    *)
(* accepted, and whatever happens to it the next transaction starts from   *)
(* nothing.  Module SmtpSession implements this specification.             *)
(***************************************************************************)
EXTENDS Naturals

CONSTANT limit          (* the largest number of recipients of a transaction *)

VARIABLES
  phase,                (* how far the transaction has got                   *)
  addressees            (* how many recipients it has                        *)

tvars == <<phase, addressees>>

Phase == {"idle", "opened", "addressed", "receiving", "handed", "over"}

Init == phase = "idle" /\ addressees = 0

(* A sender is given; recipients that are known already are kept.            *)
Open ==
  /\ phase = "idle"
  /\ phase' = "opened"
  /\ addressees' = addressees

Address ==
  /\ phase \in {"opened", "addressed"}
  /\ addressees < limit
  /\ addressees' = addressees + 1
  /\ phase' = "addressed"

Receive ==
  /\ phase = "addressed"
  /\ phase' = "receiving"
  /\ addressees' = addressees

HandOn ==
  /\ phase = "receiving"
  /\ phase' = "handed"
  /\ addressees' = addressees

(* The transaction ends, by a verdict on its body or by a reset.             *)
Finish ==
  /\ phase # "over"
  /\ phase' = "idle"
  /\ addressees' = 0

(* The session ends; not in the middle of a body or of a hand-over.          *)
End ==
  /\ phase \in {"idle", "opened", "addressed"}
  /\ phase' = "over"
  /\ addressees' = addressees

Next == Open \/ Address \/ Receive \/ HandOn \/ Finish \/ End

Spec == Init /\ [][Next]_tvars
=============================================================================
