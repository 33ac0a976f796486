-------------------------------- MODULE Service --------------------------------
(***************************************************************************)
(* What a server of at most Limit clients promises, without its listener,  *)
(* semaphore and wait group: it serves at most Limit clients at a time;    *)
(* once it is told to stop it takes at most one more, the one it was       *)
(* taking; and it says that it is drained only when nobody is served and   *)
(* nobody will be.  Module Server implements this specification for the    *)
(* POP3 server.                                                            *)
(***************************************************************************)
EXTENDS Naturals, FiniteSets

CONSTANTS Clients, Limit

VARIABLES
  phase,      (* "open", "stopping" or "drained"                             *)
  taken,      (* the client being taken, or none: at most one                *)
  served,     (* the clients being served                                    *)
  finished    (* the clients that have been served                           *)

svars == <<phase, taken, served, finished>>

Init ==
  /\ phase = "open"
  /\ taken = {} /\ served = {} /\ finished = {}

(* A client is taken only by a server that is open.                          *)
Take(c) ==
  /\ phase = "open"
  /\ taken = {}
  /\ c \notin served \cup finished
  /\ taken' = {c}
  /\ UNCHANGED <<phase, served, finished>>

Serve(c) ==
  /\ phase # "drained"
  /\ taken = {c}
  /\ Cardinality(served) < Limit
  /\ taken' = {}
  /\ served' = served \cup {c}
  /\ UNCHANGED <<phase, finished>>

Finish(c) ==
  /\ c \in served
  /\ served' = served \ {c}
  /\ finished' = finished \cup {c}
  /\ UNCHANGED <<phase, taken>>

Stop ==
  /\ phase = "open"
  /\ phase' = "stopping"
  /\ UNCHANGED <<taken, served, finished>>

Drain ==
  /\ phase = "stopping"
  /\ taken = {} /\ served = {}
  /\ phase' = "drained"
  /\ UNCHANGED <<taken, served, finished>>

Next ==
  \/ Stop \/ Drain
  \/ \E c \in Clients : Take(c) \/ Serve(c) \/ Finish(c)

Spec == Init /\ [][Next]_svars
=============================================================================
