------------------------------- MODULE Lifecycle -------------------------------
(***************************************************************************)
(* The process (main.go): main starts the web mail, the SMTP server and    *)
(* the POP3 server, each in a goroutine, and waits for ever, since nothing *)
(* counts its wait group down; the goroutine signalProcessor stops all     *)
(* three on SIGTERM; the goroutine timedExit ends the process 15 seconds   *)
(* later.  The two servers are instances of Server, which share the        *)
(* process.  The web mail is reduced to its listener (webmail/server.go).  *)
(***************************************************************************)
EXTENDS Integers, FiniteSets

CONSTANTS
  SmtpClients, Pop3Clients,   (* the connections clients make               *)
  Places,                     (* max.clients of either server               *)
  MaxSignals                  (* bound                                      *)

ASSUME LifecycleAssumption ==
  /\ Places \in Nat \ {0} /\ MaxSignals \in Nat
  /\ IsFiniteSet(SmtpClients) /\ IsFiniteSet(Pop3Clients)

VARIABLES
  main,        (* how many of web mail, SMTP and POP3 server main has begun  *)
  web,         (* webmail's listener: "nil", "open" or "closed"              *)
  smtpServer,  (* the variable smtpServer is not nil                         *)
  pop3Server,  (* the variable pop3Server is not nil                         *)
  processor,   (* where the goroutine signalProcessor is                     *)
  signals,     (* how many signals signalProcessor has received              *)
  timer,       (* a goroutine timedExit is asleep                            *)
  exited,      (* timedExit has ended the process                            *)
  orderly,     (* history: SIGTERM was received when everything was started  *)
  up,          (* the process has neither panicked nor ended                 *)
  smtpStart, smtpAdmitting, smtpListener, smtpShutdown, smtpStopper,
  smtpClient, smtpSem, smtpWaitgroup,
  pop3Start, pop3Admitting, pop3Listener, pop3Shutdown, pop3Stopper,
  pop3Client, pop3Sem, pop3Waitgroup

Smtp == INSTANCE Server WITH
  Clients <- SmtpClients, MaxClients <- Places, SpamRule <- TRUE,
  start <- smtpStart, admitting <- smtpAdmitting, listener <- smtpListener,
  shutdown <- smtpShutdown, stopper <- smtpStopper, client <- smtpClient,
  sem <- smtpSem, waitgroup <- smtpWaitgroup

Pop3 == INSTANCE Server WITH
  Clients <- Pop3Clients, MaxClients <- Places, SpamRule <- FALSE,
  start <- pop3Start, admitting <- pop3Admitting, listener <- pop3Listener,
  shutdown <- pop3Shutdown, stopper <- pop3Stopper, client <- pop3Client,
  sem <- pop3Sem, waitgroup <- pop3Waitgroup

smtpVars == <<smtpStart, smtpAdmitting, smtpListener, smtpShutdown,
              smtpStopper, smtpClient, smtpSem, smtpWaitgroup>>
pop3Vars == <<pop3Start, pop3Admitting, pop3Listener, pop3Shutdown,
              pop3Stopper, pop3Client, pop3Sem, pop3Waitgroup>>
servers == <<smtpVars, pop3Vars>>
begun == <<main, web, smtpServer, pop3Server>>
shutdown == <<processor, signals, timer, exited, orderly>>
vars == <<begun, shutdown, up, servers>>

TypeOK ==
  /\ main \in 0..3
  /\ web \in {"nil", "open", "closed"}
  /\ {smtpServer, pop3Server, timer, exited, orderly} \subseteq BOOLEAN
  /\ processor \in {"ready", "HUP", "TERM", "web", "smtp", "smtpCloses",
                    "pop3", "pop3Closes"}
  /\ signals \in 0..MaxSignals
  /\ Smtp!TypeOK /\ Pop3!TypeOK

(* signalProcessor runs before main begins anything.                         *)
Init ==
  /\ main = 0
  /\ web = "nil"
  /\ smtpServer = FALSE /\ pop3Server = FALSE
  /\ processor = "ready"
  /\ signals = 0
  /\ timer = FALSE
  /\ exited = FALSE
  /\ orderly = FALSE
  /\ Smtp!Init /\ Pop3!Init

-----------------------------------------------------------------------------
(* main and the goroutines it starts.                                        *)

MainBegins ==
  /\ up
  /\ main < 3
  /\ main' = main + 1
  /\ UNCHANGED <<web, smtpServer, pop3Server, shutdown, up, servers>>

(* webmail.Start, which panics when it cannot listen.                        *)
WebListens ==
  /\ up
  /\ main >= 1
  /\ web = "nil"
  /\ \/ web' = "open" /\ up' = TRUE
     \/ web' = web /\ up' = FALSE
  /\ UNCHANGED <<main, smtpServer, pop3Server, shutdown, servers>>

(* runSmtpd and runPop3d assign the variable, then call Start and Drain.     *)
RunSmtpd ==
  /\ up
  /\ main >= 2
  /\ ~smtpServer
  /\ smtpServer' = TRUE
  /\ UNCHANGED <<main, web, pop3Server, shutdown, up, servers>>

RunPop3d ==
  /\ up
  /\ main >= 3
  /\ ~pop3Server
  /\ pop3Server' = TRUE
  /\ UNCHANGED <<main, web, smtpServer, shutdown, up, servers>>

SmtpRuns ==
  /\ smtpServer
  /\ \/ Smtp!listening
     \/ \E c \in SmtpClients : Smtp!Connect(c) \/ Smtp!handleClient(c)
  /\ UNCHANGED <<begun, shutdown, pop3Vars>>

Pop3Runs ==
  /\ pop3Server
  /\ \/ Pop3!listening
     \/ \E c \in Pop3Clients : Pop3!Connect(c) \/ Pop3!handleClient(c)
  /\ UNCHANGED <<begun, shutdown, smtpVars>>

-----------------------------------------------------------------------------
(* Signals.  A definition whose name has a suffix after an underscore is a   *)
(* faulty variant of the one that follows it, for checking that the          *)
(* properties notice the fault.                                              *)

Started == web # "nil" /\ smtpListener # "nil" /\ pop3Listener # "nil"

(* The channel has no buffer: a signal that comes while signalProcessor is   *)
(* not waiting for one is lost, and changes nothing.                         *)
Signal(sig) ==
  /\ up
  /\ signals < MaxSignals
  /\ processor = "ready"
  /\ processor' = sig
  /\ signals' = signals + 1
  /\ orderly' = (orderly \/ (sig = "TERM" /\ Started))
  /\ UNCHANGED <<begun, timer, exited, up, servers>>

(* The log file is closed and opened again.                                  *)
HangUp ==
  /\ up
  /\ processor = "HUP"
  /\ processor' = "ready"
  /\ UNCHANGED <<begun, signals, timer, exited, orderly, up, servers>>

Terminate_OnlyWhenStarted ==
  /\ up
  /\ processor = "TERM"
  /\ timer' = smtpServer
  /\ processor' = "web"
  /\ UNCHANGED <<begun, signals, exited, orderly, up, servers>>

(* "go timedExit()"                                                          *)
Terminate ==
  /\ up
  /\ processor = "TERM"
  /\ timer' = TRUE
  /\ processor' = "web"
  /\ UNCHANGED <<begun, signals, exited, orderly, up, servers>>

(* webmail.Stop: before webmail.Start has listened there is nothing to close.*)
StopWeb ==
  /\ up
  /\ processor = "web"
  /\ web' = IF web = "open" THEN "closed" ELSE web
  /\ processor' = "smtp"
  /\ UNCHANGED <<main, smtpServer, pop3Server, signals, timer, exited, orderly,
                 up, servers>>

Goes(from, to) ==
  /\ processor = from
  /\ processor' = to
  /\ UNCHANGED <<begun, signals, timer, exited, orderly>>

(* "smtpServer was nil during shutdown", or its Stop.                        *)
StopSmtp ==
  \/ /\ up /\ ~smtpServer
     /\ Goes("smtp", "pop3")
     /\ UNCHANGED <<up, servers>>
  \/ /\ smtpServer
     /\ Goes("smtp", "smtpCloses")
     /\ Smtp!Stop
     /\ UNCHANGED pop3Vars

StopSmtpCloses ==
  /\ Goes("smtpCloses", "pop3")
  /\ Smtp!StopCloses
  /\ UNCHANGED pop3Vars

StopPop3_Not ==
  /\ up
  /\ Goes("pop3", "ready")
  /\ UNCHANGED <<up, servers>>

StopPop3 ==
  \/ /\ up /\ ~pop3Server
     /\ Goes("pop3", "ready")
     /\ UNCHANGED <<up, servers>>
  \/ /\ pop3Server
     /\ Goes("pop3", "pop3Closes")
     /\ Pop3!Stop
     /\ UNCHANGED smtpVars

StopPop3Closes ==
  /\ Goes("pop3Closes", "ready")
  /\ Pop3!StopCloses
  /\ UNCHANGED smtpVars

(* os.Exit(0), whoever is still being served.                                *)
TimedExit ==
  /\ up
  /\ timer
  /\ up' = FALSE
  /\ exited' = TRUE
  /\ UNCHANGED <<begun, processor, signals, timer, orderly, servers>>

signalProcessor ==
  \/ HangUp \/ Terminate \/ StopWeb \/ StopSmtp \/ StopSmtpCloses
  \/ StopPop3 \/ StopPop3Closes

Next ==
  \/ MainBegins \/ WebListens \/ RunSmtpd \/ RunPop3d
  \/ SmtpRuns \/ Pop3Runs
  \/ \E sig \in {"HUP", "TERM"} : Signal(sig)
  \/ signalProcessor \/ TimedExit

Spec == Init /\ [][Next]_vars

(* signalProcessor runs and the sleep of timedExit is over in the end; of    *)
(* the SMTP server's fairness, what its clients' progress needs: Start goes  *)
(* on when there is a place, a session gives its place back when it can, and *)
(* one whose connection is closed ends.  Nobody is obliged to send a signal. *)
Fairness ==
  /\ WF_vars(signalProcessor)
  /\ WF_vars(TimedExit)
  /\ WF_smtpVars(\E c \in SmtpClients : Smtp!Admit(c))
  /\ \A c \in SmtpClients :
       /\ WF_smtpVars(Smtp!Release(c))
       /\ WF_smtpVars(smtpClient[c] = "shut" /\ Smtp!closeClient(c))

FairSpec == Spec /\ Fairness

-----------------------------------------------------------------------------
(* Once all three parts have listened, no signals and no clients, in any     *)
(* number and at any moment, make the process panic: it ends only by         *)
(* timedExit (main.go:191-207, smtpd/server.go:141, 172).                    *)
ShutdownIsClean == Started /\ ~up => exited

(* A SIGTERM that is received when all three have listened has closed all    *)
(* their listeners when signalProcessor is back at its channel, although     *)
(* the first Stop lets the accept loop return and stop itself once more      *)
(* (main.go:195-207).                                                        *)
ShutdownReachesAll ==
  orderly /\ processor \in {"ready", "HUP"} =>
    /\ web = "closed"
    /\ {smtpListener, pop3Listener} \subseteq {"closed", "unusable"}

(* A SIGTERM that is received ends the process, however far the start has    *)
(* got and whoever is being served (main.go:194).                            *)
SignalEnds == processor = "TERM" ~> ~up

(* A client that the SMTP server has accepted is served, if no session goes  *)
(* on for ever and the process does not end, although the spam rule gives    *)
(* places back twice and takes those of others (smtpd/server.go:154, 246,    *)
(* client.go:410).                                                           *)
AcceptedIsServed == Smtp!AcceptedIsServed
=============================================================================
