------------------------------ MODULE MCWebmail ------------------------------
(***************************************************************************)
(* Webmail for TLC: histories of a browser that registers, logs in and     *)
(* logs out in two tabs at once; that reads its mail in one tab and        *)
(* deletes from the other while mail comes and goes; and that reads in     *)
(* both and logs in and out in one.                                        *)
(***************************************************************************)
EXTENDS Webmail

MCTabs == 1..2

Accounts == {"login", "logout", "register", "other"}

MCInit ==
  /\ asks \in {<<Accounts, Accounts>>,
               <<{"list"}, {"delete"}>>,
               <<{"list"}, {"view", "login", "logout"}>>}
  /\ Init
  /\ mails = CASE asks[1] = Accounts -> {}
               [] asks[2] = {"delete"} -> 1..arrived
               [] OTHER -> {arrived}
  /\ asks[1] = {"list"} => users # <<>>
  /\ asks[2] # {"delete"} => arrived = MaxMails

MCSpec == MCInit /\ [][Next]_vars
=============================================================================
