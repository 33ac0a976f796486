------------------------------- MODULE MCIncus -------------------------------
(***************************************************************************)
(* Incus for TLC, in four instances: one socket of either kind that two    *)
(* commands send to, a websocket that times out, and a message that ranges *)
(* over two sockets while they come and go.                                *)
(***************************************************************************)
EXTENDS Incus

CONSTANTS w, timed, l, c1, c2

Instance(here, given) ==
  /\ \A s \in Sockets : handler[s] = "new" <=> s \in here
  /\ \A c \in Commands : command[c] = Idle <=> c \in given

MCInit ==
  /\ Init
  /\ \/ Instance({w}, {c1, c2})
     \/ Instance({l}, {c1, c2})
     \/ Instance({timed}, {c1})
     \/ Instance({w, l}, {c1})

MCSpec == MCInit /\ [][Next]_vars /\ Fairness
=============================================================================
