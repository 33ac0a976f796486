-------------------------------- MODULE Server --------------------------------
(***************************************************************************)
(* The server of smtpd/server.go and of pop3d/server.go, which differ only *)
(* in what a session does: Start's listener loop, which admits clients     *)
(* through the semaphore sem, the goroutine handleClient of each client    *)
(* and its deferred closeClient, Stop, and Drain, which waits on the wait  *)
(* group.  A session is abstracted to being served until it ends; the one  *)
(* thing a session does to the server is the SMTP server's spam rule,      *)
(* which calls closeClient in the middle of the session                    *)
(* (smtpd/client.go:410).  The lines cited are those of smtpd.             *)
(***************************************************************************)
EXTENDS Integers, FiniteSets

CONSTANTS
  Clients,      (* the connections clients make                              *)
  MaxClients,   (* max.clients of the configuration                          *)
  SpamRule      (* sessions may be closed by the spam rule: TRUE for SMTP    *)

ASSUME ServerAssumption ==
  /\ MaxClients \in Nat \ {0}
  /\ SpamRule \in BOOLEAN
  /\ IsFiniteSet(Clients)

VARIABLES
  start,      (* where the goroutine of Start and Drain is                   *)
  admitting,  (* the client Start has accepted and waits to admit, a set     *)
  listener,   (* s.listener: nil, unusable, open or closed                   *)
  shutdown,   (* s.shutdown                                                  *)
  stopper,    (* where the goroutine that calls Stop on a signal is          *)
  client,     (* client[c]: where connection c, or its handleClient, is      *)
  sem,        (* how many values the channel sem holds                       *)
  waitgroup,  (* the counter of s.waitgroup                                  *)
  up          (* the process has not panicked                                *)

vars == <<start, admitting, listener, shutdown, stopper, client, sem,
          waitgroup, up>>

ClientState ==
  {"out",         (* not connected, or reset when the listener was closed    *)
   "backlog",     (* connected, not yet accepted                             *)
   "accepted",    (* accepted, Start waits for room in sem                   *)
   "serving",     (* in the command loop                                     *)
   "spam",        (* in the spam rule's closeClient, connection closed       *)
   "shut",        (* back in the command loop, connection closed             *)
   "release",     (* in the deferred closeClient, connection closed          *)
   "leaving",     (* closeClient has returned                                *)
   "gone"}        (* waitgroup.Done has been called                          *)

TypeOK ==
  /\ start \in {"listen", "accept", "admit", "stop", "drain", "drained"}
  /\ admitting \in {{}} \cup {{c} : c \in Clients}
  /\ listener \in {"nil", "unusable", "open", "closed"}
  /\ shutdown \in BOOLEAN
  /\ stopper \in {"idle", "closing"}
  /\ client \in [Clients -> ClientState]
  /\ sem \in 0..MaxClients
  /\ waitgroup \in Int
  /\ up \in BOOLEAN

Init ==
  /\ start = "listen"
  /\ admitting = {}
  /\ listener = "nil"
  /\ shutdown = FALSE
  /\ stopper = "idle"
  /\ client = [c \in Clients |-> "out"]
  /\ sem = 0
  /\ waitgroup = 0
  /\ up = TRUE

-----------------------------------------------------------------------------
(* A definition whose name has a suffix after an underscore is a faulty      *)
(* variant of the one that follows it, for checking that the properties      *)
(* notice the fault.                                                         *)

closeListener_KeepsBacklog ==
  /\ up' = (listener # "nil")
  /\ listener' = IF listener = "open" THEN "closed" ELSE listener
  /\ client' = client

(* s.listener.Close(): connections that wait to be accepted are reset.  On a *)
(* listener that could not be opened it returns an error, and on nil it      *)
(* panics.                                                                   *)
closeListener ==
  /\ up' = (listener # "nil")
  /\ listener' = IF listener = "open" THEN "closed" ELSE listener
  /\ client' = IF listener = "open"
               THEN [c \in Clients |->
                       IF client[c] = "backlog" THEN "out" ELSE client[c]]
               ELSE client

(* The peer opens a connection.                                              *)
Connect(c) ==
  /\ up
  /\ client[c] = "out"
  /\ listener = "open"
  /\ client' = [client EXCEPT ![c] = "backlog"]
  /\ UNCHANGED <<start, admitting, listener, shutdown, stopper, sem, waitgroup,
                 up>>

-----------------------------------------------------------------------------
(* Start, which ends in "defer s.Stop()", and Drain, which runSmtpd calls    *)
(* next.                                                                     *)

(* The address cannot be resolved: Start stops a server without a listener.  *)
ResolveFails ==
  /\ up
  /\ start = "listen"
  /\ shutdown' = TRUE
  /\ closeListener
  /\ start' = "stop"
  /\ UNCHANGED <<admitting, stopper, sem, waitgroup>>

Listen ==
  /\ up
  /\ start = "listen"
  /\ listener' = "open"
  /\ start' = "accept"
  /\ UNCHANGED <<admitting, shutdown, stopper, client, sem, waitgroup, up>>

(* ListenTCP fails and leaves a nil *TCPListener in s.listener; Stop.        *)
ListenFails ==
  /\ up
  /\ start = "listen"
  /\ listener' = "unusable"
  /\ shutdown' = TRUE
  /\ start' = "stop"
  /\ UNCHANGED <<admitting, stopper, client, sem, waitgroup, up>>

Accept_AddsNothing(c) ==
  /\ up
  /\ start = "accept"
  /\ client[c] = "backlog"
  /\ client' = [client EXCEPT ![c] = "accepted"]
  /\ admitting' = {c}
  /\ start' = "admit"
  /\ UNCHANGED <<listener, shutdown, stopper, sem, waitgroup, up>>

Accept_AddsTwice(c) ==
  /\ up
  /\ start = "accept"
  /\ client[c] = "backlog"
  /\ client' = [client EXCEPT ![c] = "accepted"]
  /\ waitgroup' = waitgroup + 2
  /\ admitting' = {c}
  /\ start' = "admit"
  /\ UNCHANGED <<listener, shutdown, stopper, sem, up>>

(* A connection is accepted and counted by s.waitgroup.Add(1).               *)
Accept(c) ==
  /\ up
  /\ start = "accept"
  /\ client[c] = "backlog"
  /\ client' = [client EXCEPT ![c] = "accepted"]
  /\ waitgroup' = waitgroup + 1
  /\ admitting' = {c}
  /\ start' = "admit"
  /\ UNCHANGED <<listener, shutdown, stopper, sem, up>>

(* s.sem <- 1 blocks Start while the channel is full, then the client's      *)
(* goroutine starts.                                                         *)
Admit(c) ==
  /\ up
  /\ start = "admit"
  /\ c \in admitting
  /\ sem < MaxClients
  /\ sem' = sem + 1
  /\ client' = [client EXCEPT ![c] = "serving"]
  /\ admitting' = {}
  /\ start' = "accept"
  /\ UNCHANGED <<listener, shutdown, stopper, waitgroup, up>>

(* Accept returns an error that is not temporary.  That happens when the     *)
(* listener has been closed; Start returns if it was Stop, else it panics.   *)
AcceptFails ==
  /\ up
  /\ start = "accept"
  /\ listener = "closed"
  /\ up' = shutdown
  /\ start' = "stop"
  /\ UNCHANGED <<admitting, listener, shutdown, stopper, client, sem,
                 waitgroup>>

(* The deferred Stop of Start.                                               *)
DeferredStop ==
  /\ up
  /\ start = "stop"
  /\ shutdown' = TRUE
  /\ closeListener
  /\ start' = "drain"
  /\ UNCHANGED <<admitting, stopper, sem, waitgroup>>

(* s.waitgroup.Wait() returns.                                               *)
Drain ==
  /\ up
  /\ start = "drain"
  /\ waitgroup = 0
  /\ start' = "drained"
  /\ UNCHANGED <<admitting, listener, shutdown, stopper, client, sem,
                 waitgroup, up>>

-----------------------------------------------------------------------------
(* Stop, as main's signalProcessor calls it on any SIGTERM once the server   *)
(* has been created.                                                         *)

Stop_ClosesFirst ==
  /\ up
  /\ stopper = "idle"
  /\ ~shutdown
  /\ stopper' = "closing"
  /\ closeListener
  /\ UNCHANGED <<start, admitting, shutdown, sem, waitgroup>>

(* Stop begins with s.shutdown = true.                                      *)
Stop ==
  /\ up
  /\ stopper = "idle"
  /\ shutdown' = TRUE
  /\ stopper' = "closing"
  /\ UNCHANGED <<start, admitting, listener, client, sem, waitgroup, up>>

StopCloses ==
  /\ up
  /\ stopper = "closing"
  /\ stopper' = "idle"
  /\ closeListener
  /\ UNCHANGED <<start, admitting, shutdown, sem, waitgroup>>

-----------------------------------------------------------------------------
(* handleClient.                                                             *)

move(c, from, to) == client[c] = from /\ client' = [client EXCEPT ![c] = to]

SessionEnds_KeepsItsPlace(c) ==
  \E at \in {"serving", "shut"} : move(c, at, "leaving")

(* The command loop ends, after the connection's end or the spam rule's      *)
(* close, and the deferred closeClient closes the connection.                *)
SessionEnds(c) == \E at \in {"serving", "shut"} : move(c, at, "release")

(* The spam rule calls closeClient, and the loop goes on afterwards.         *)
SpamCloses(c) == SpamRule /\ move(c, "serving", "spam")

(* closeClient in either place, up to the receive from sem.                  *)
closeClient(c) ==
  /\ up
  /\ SessionEnds(c) \/ SpamCloses(c)
  /\ UNCHANGED <<start, admitting, listener, shutdown, stopper, sem, waitgroup,
                 up>>

(* "<-s.sem" at the end of closeClient, in either place; it blocks on an     *)
(* empty channel.                                                            *)
Release(c) ==
  /\ up
  /\ sem > 0
  /\ sem' = sem - 1
  /\ move(c, "spam", "shut") \/ move(c, "release", "leaving")
  /\ UNCHANGED <<start, admitting, listener, shutdown, stopper, waitgroup, up>>

(* s.waitgroup.Done() in the deferred function.                              *)
Done(c) ==
  /\ up
  /\ move(c, "leaving", "gone")
  /\ waitgroup' = waitgroup - 1
  /\ UNCHANGED <<start, admitting, listener, shutdown, stopper, sem, up>>

handleClient(c) == closeClient(c) \/ Release(c) \/ Done(c)

listening ==
  \/ ResolveFails \/ Listen \/ ListenFails \/ AcceptFails
  \/ DeferredStop \/ Drain
  \/ \E c \in Clients : Accept(c) \/ Admit(c)

Next ==
  \/ listening \/ Stop \/ StopCloses
  \/ \E c \in Clients : Connect(c) \/ handleClient(c)

Spec == Init /\ [][Next]_vars

(* The goroutines run; Accept returns when a connection waits or when the    *)
(* listener has been closed.  Nothing obliges a client to connect, a session *)
(* to end (a client may send commands for ever) or the process to be         *)
(* stopped.                                                                  *)
Fairness ==
  /\ WF_vars(ResolveFails \/ Listen \/ ListenFails)
  /\ WF_vars(AcceptFails \/ \E c \in Clients : Accept(c))
  /\ WF_vars(\E c \in Clients : Admit(c))
  /\ WF_vars(DeferredStop \/ Drain)
  /\ WF_vars(StopCloses)
  /\ \A c \in Clients :
       /\ WF_vars(Release(c))
       /\ WF_vars(Done(c))
       /\ WF_vars(client[c] = "shut" /\ closeClient(c))

FairSpec == Spec /\ Fairness

-----------------------------------------------------------------------------
(* Safety.                                                                   *)

Serving == {c \in Clients : client[c] = "serving"}

(* When Drain has returned no goroutine of the server is left, and none will *)
(* start: the count went up before the goroutine existed, comes down last,   *)
(* and Start has returned (server.go:151, 188, 178).                         *)
DrainedMeansQuiet ==
  start = "drained" => \A c \in Clients : client[c] \in {"out", "gone"}

(* Stopping a server that has ever listened does not bring the process down: *)
(* the panic of the accept loop is for errors of a listener nobody closed,   *)
(* and Stop tells it so in time (server.go:141, 172).                        *)
PanicOnlyBeforeListening == ~up => listener = "nil"

(* The semaphore counts the clients: one value for each session that has not *)
(* left yet, so at most MaxClients are served (server.go:62, 154, 246).      *)
SemCountsClients ==
  sem = Cardinality({c \in Clients : client[c] \in {"serving", "release"}})

(* What the server promises, stated in Service.                              *)
phase ==
  CASE start = "drained" -> "drained"
    [] start # "drained" /\ listener \in {"unusable", "closed"} -> "stopping"
    [] OTHER -> "open"

Promise == INSTANCE Service WITH
  Limit <- MaxClients, phase <- phase, taken <- admitting,
  served <- {c \in Clients : client[c] \in {"serving", "release"}},
  finished <- {c \in Clients : client[c] \in {"leaving", "gone"}}

(* A server whose sessions release their place once serves at most           *)
(* MaxClients at a time, takes at most one client after Stop, and is drained *)
(* only when it serves nobody.                                               *)
KeepsPromise == Promise!Spec

(* Liveness.                                                                 *)

GoesOnForEver == \E c \in Clients : [](client[c] = "serving")

(* Drain returns, if no session goes on for ever (server.go:178).            *)
DrainEnds ==
  start = "drain" ~> (start = "drained" \/ ~up \/ GoesOnForEver)

(* A client that has been accepted is served, however many others there are, *)
(* if no session goes on for ever (server.go:154, 246).                      *)
AcceptedIsServed ==
  \A c \in Clients :
    client[c] = "accepted" ~> (client[c] = "serving" \/ ~up \/ GoesOnForEver)

-----------------------------------------------------------------------------
(* What the repository says of the SMTP server and its code does not do.     *)

(* "Maximum number of clients we allow" (etc/surelin.conf:32).               *)
ServedWithinLimit == Cardinality(Serving) <= MaxClients
=============================================================================
