-------------------------- MODULE Lifecycle_proofs --------------------------
(***************************************************************************)
(* Theorems about Lifecycle, for any finite sets of clients, any number of *)
(* places and any number of signals: its type invariant, that only         *)
(* timedExit ends a process that has started, that an orderly SIGTERM      *)
(* reaches all three listeners, and that the theorems of Server hold of    *)
(* both servers in the process, whatever the other one, main and           *)
(* signalProcessor do.                                                     *)
(***************************************************************************)
EXTENDS Lifecycle, TLAPS

(* What is proved of a server, for each of the two.                          *)
SmtpFacts == INSTANCE Server_proofs WITH
  Clients <- SmtpClients, MaxClients <- Places, SpamRule <- TRUE,
  start <- smtpStart, admitting <- smtpAdmitting, listener <- smtpListener,
  shutdown <- smtpShutdown, stopper <- smtpStopper, client <- smtpClient,
  sem <- smtpSem, waitgroup <- smtpWaitgroup

Pop3Facts == INSTANCE Server_proofs WITH
  Clients <- Pop3Clients, MaxClients <- Places, SpamRule <- FALSE,
  start <- pop3Start, admitting <- pop3Admitting, listener <- pop3Listener,
  shutdown <- pop3Shutdown, stopper <- pop3Stopper, client <- pop3Client,
  sem <- pop3Sem, waitgroup <- pop3Waitgroup

(* The invariant of a server, without its promise that a panic is its own:   *)
(* here the process may also end by what others do.                          *)
SmtpInv ==
  /\ SmtpFacts!TypeOK /\ SmtpFacts!Positions /\ SmtpFacts!GroupCounts
  /\ SmtpFacts!PlacesCount /\ SmtpFacts!NobodyLeft

Pop3Inv ==
  /\ Pop3Facts!TypeOK /\ Pop3Facts!Positions /\ Pop3Facts!GroupCounts
  /\ Pop3Facts!PlacesCount /\ Pop3Facts!NobodyLeft

(* A server that main has not created has not listened.                      *)
CreatedFirst ==
  /\ ~smtpServer => smtpListener = "nil"
  /\ ~pop3Server => pop3Listener = "nil"

(* What an orderly shutdown has closed when signalProcessor has come so far. *)
ClosedSoFar ==
  orderly =>
    /\ Started
    /\ processor \notin {"TERM", "web"} => web = "closed"
    /\ processor \notin {"TERM", "web", "smtp", "smtpCloses"} =>
         smtpListener \in {"closed", "unusable"}
    /\ processor \in {"ready", "HUP"} =>
         pop3Listener \in {"closed", "unusable"}

(* The types of what main and signalProcessor keep.                          *)
ProcessTypes ==
  /\ main \in 0..3
  /\ web \in {"nil", "open", "closed"}
  /\ smtpServer \in BOOLEAN /\ pop3Server \in BOOLEAN
  /\ timer \in BOOLEAN /\ exited \in BOOLEAN /\ orderly \in BOOLEAN
  /\ processor \in {"ready", "HUP", "TERM", "web", "smtp", "smtpCloses",
                    "pop3", "pop3Closes"}
  /\ signals \in 0..MaxSignals

IInv ==
  /\ ProcessTypes
  /\ SmtpInv /\ Pop3Inv
  /\ CreatedFirst
  /\ ClosedSoFar
  /\ ShutdownIsClean

-----------------------------------------------------------------------------
(* The constants of each server are as Server assumes.                       *)
LEMMA ServersAssumption ==
  SmtpFacts!ServerAssumption /\ Pop3Facts!ServerAssumption
  BY LifecycleAssumption DEF IsFiniteSet, SmtpFacts!IsFiniteSet,
                             Pop3Facts!IsFiniteSet

(* What a step of the SMTP server does to the process: it keeps the server's *)
(* invariant, ends the process only before the server has listened, and      *)
(* neither forgets a listener nor opens a closed one.                        *)
LEMMA SmtpStep ==
  ASSUME SmtpInv, up, SmtpFacts!Next
  PROVE  /\ SmtpInv'
         /\ ~up' => smtpListener' = "nil"
         /\ smtpListener # "nil" => smtpListener' # "nil"
         /\ smtpListener \in {"unusable", "closed"} => smtpListener' = smtpListener
<1>1. SmtpFacts!IInv
  BY DEF SmtpInv, SmtpFacts!IInv, SmtpFacts!PanicOnlyBeforeListening
<1>2. SmtpFacts!IInv'
  BY <1>1, SmtpFacts!NextIInv, ServersAssumption
<1>3. SmtpInv' /\ (~up' => smtpListener' = "nil")
  BY <1>2 DEF SmtpInv, SmtpFacts!IInv, SmtpFacts!PanicOnlyBeforeListening
<1>. QED BY <1>1, <1>3, SmtpFacts!ListenerAdvances, ServersAssumption

(* The same of the POP3 server.                                              *)
LEMMA Pop3Step ==
  ASSUME Pop3Inv, up, Pop3Facts!Next
  PROVE  /\ Pop3Inv'
         /\ ~up' => pop3Listener' = "nil"
         /\ pop3Listener # "nil" => pop3Listener' # "nil"
         /\ pop3Listener \in {"unusable", "closed"} => pop3Listener' = pop3Listener
<1>1. Pop3Facts!IInv
  BY DEF Pop3Inv, Pop3Facts!IInv, Pop3Facts!PanicOnlyBeforeListening
<1>2. Pop3Facts!IInv'
  BY <1>1, Pop3Facts!NextIInv, ServersAssumption
<1>3. Pop3Inv' /\ (~up' => pop3Listener' = "nil")
  BY <1>2 DEF Pop3Inv, Pop3Facts!IInv, Pop3Facts!PanicOnlyBeforeListening
<1>. QED BY <1>1, <1>3, Pop3Facts!ListenerAdvances, ServersAssumption

(* A step of anybody else keeps a server's invariant, whether the process    *)
(* ends with it or not.                                                      *)
LEMMA SmtpRests ==
  ASSUME SmtpInv, UNCHANGED smtpVars, up' \in BOOLEAN, up' => up
  PROVE  SmtpInv'
  BY DEF SmtpInv, smtpVars, SmtpFacts!TypeOK, SmtpFacts!Positions,
         SmtpFacts!GroupCounts, SmtpFacts!PlacesCount, SmtpFacts!NobodyLeft,
         SmtpFacts!In

LEMMA Pop3Rests ==
  ASSUME Pop3Inv, UNCHANGED pop3Vars, up' \in BOOLEAN, up' => up
  PROVE  Pop3Inv'
  BY DEF Pop3Inv, pop3Vars, Pop3Facts!TypeOK, Pop3Facts!Positions,
         Pop3Facts!GroupCounts, Pop3Facts!PlacesCount, Pop3Facts!NobodyLeft,
         Pop3Facts!In

(* The steps Lifecycle takes of a server are steps of Server.                *)
LEMMA SmtpSteps ==
  /\ Smtp!Stop \/ Smtp!StopCloses \/ Smtp!listening => SmtpFacts!Next
  /\ \A c \in SmtpClients :
       Smtp!Connect(c) \/ Smtp!handleClient(c) => SmtpFacts!Next
<1>1. Smtp!Stop => SmtpFacts!Stop
  BY DEF Smtp!Stop, SmtpFacts!Stop
<1>2. Smtp!StopCloses => SmtpFacts!StopCloses
  BY DEF Smtp!StopCloses, SmtpFacts!StopCloses, Smtp!closeListener,
         SmtpFacts!closeListener
<1>3. Smtp!listening => SmtpFacts!listening
  BY DEF Smtp!listening, SmtpFacts!listening,
         Smtp!ResolveFails, SmtpFacts!ResolveFails, Smtp!Listen, SmtpFacts!Listen,
         Smtp!ListenFails, SmtpFacts!ListenFails,
         Smtp!AcceptFails, SmtpFacts!AcceptFails,
         Smtp!DeferredStop, SmtpFacts!DeferredStop, Smtp!Drain, SmtpFacts!Drain,
         Smtp!closeListener, SmtpFacts!closeListener,
         Smtp!Accept, SmtpFacts!Accept, Smtp!Admit, SmtpFacts!Admit
<1>4. ASSUME NEW c \in SmtpClients
      PROVE  /\ Smtp!Connect(c) => SmtpFacts!Connect(c)
             /\ Smtp!handleClient(c) => SmtpFacts!handleClient(c)
  BY DEF Smtp!Connect, SmtpFacts!Connect,
         Smtp!handleClient, SmtpFacts!handleClient,
         Smtp!closeClient, SmtpFacts!closeClient,
         Smtp!SessionEnds, SmtpFacts!SessionEnds,
         Smtp!SpamCloses, SmtpFacts!SpamCloses, Smtp!move, SmtpFacts!move,
         Smtp!Release, SmtpFacts!Release, Smtp!Done, SmtpFacts!Done
<1>. QED BY <1>1, <1>2, <1>3, <1>4 DEF SmtpFacts!Next

LEMMA Pop3Steps ==
  /\ Pop3!Stop \/ Pop3!StopCloses \/ Pop3!listening => Pop3Facts!Next
  /\ \A c \in Pop3Clients :
       Pop3!Connect(c) \/ Pop3!handleClient(c) => Pop3Facts!Next
<1>1. Pop3!Stop => Pop3Facts!Stop
  BY DEF Pop3!Stop, Pop3Facts!Stop
<1>2. Pop3!StopCloses => Pop3Facts!StopCloses
  BY DEF Pop3!StopCloses, Pop3Facts!StopCloses, Pop3!closeListener,
         Pop3Facts!closeListener
<1>3. Pop3!listening => Pop3Facts!listening
  BY DEF Pop3!listening, Pop3Facts!listening,
         Pop3!ResolveFails, Pop3Facts!ResolveFails, Pop3!Listen, Pop3Facts!Listen,
         Pop3!ListenFails, Pop3Facts!ListenFails,
         Pop3!AcceptFails, Pop3Facts!AcceptFails,
         Pop3!DeferredStop, Pop3Facts!DeferredStop, Pop3!Drain, Pop3Facts!Drain,
         Pop3!closeListener, Pop3Facts!closeListener,
         Pop3!Accept, Pop3Facts!Accept, Pop3!Admit, Pop3Facts!Admit
<1>4. ASSUME NEW c \in Pop3Clients
      PROVE  /\ Pop3!Connect(c) => Pop3Facts!Connect(c)
             /\ Pop3!handleClient(c) => Pop3Facts!handleClient(c)
  BY DEF Pop3!Connect, Pop3Facts!Connect,
         Pop3!handleClient, Pop3Facts!handleClient,
         Pop3!closeClient, Pop3Facts!closeClient,
         Pop3!SessionEnds, Pop3Facts!SessionEnds,
         Pop3!SpamCloses, Pop3Facts!SpamCloses, Pop3!move, Pop3Facts!move,
         Pop3!Release, Pop3Facts!Release, Pop3!Done, Pop3Facts!Done
<1>. QED BY <1>1, <1>2, <1>3, <1>4 DEF Pop3Facts!Next

-----------------------------------------------------------------------------
(* The initial state satisfies the invariant.                                *)
LEMMA InitIInv == Init => IInv
<1>. SUFFICES ASSUME Init
              PROVE  IInv
  OBVIOUS
<1>1. SmtpInv
  <2>1. SmtpFacts!Init
    BY DEF Init, Smtp!Init, SmtpFacts!Init
  <2>2. SmtpFacts!IInv
    BY <2>1, SmtpFacts!InitIInv, ServersAssumption
  <2>. QED BY <2>2 DEF SmtpInv, SmtpFacts!IInv
<1>2. Pop3Inv
  <2>1. Pop3Facts!Init
    BY DEF Init, Pop3!Init, Pop3Facts!Init
  <2>2. Pop3Facts!IInv
    BY <2>1, Pop3Facts!InitIInv, ServersAssumption
  <2>. QED BY <2>2 DEF Pop3Inv, Pop3Facts!IInv
<1>3. ProcessTypes
  <2>1. main \in 0..3 /\ signals \in 0..MaxSignals
    BY LifecycleAssumption DEF Init
  <2>. QED BY <2>1 DEF Init, ProcessTypes
<1>4. up /\ smtpListener = "nil" /\ pop3Listener = "nil"
  BY DEF Init, Smtp!Init, Pop3!Init
<1>. QED BY <1>1, <1>2, <1>3, <1>4
         DEF Init, IInv, CreatedFirst, ClosedSoFar, ShutdownIsClean

(* Steps of main and of signalProcessor in which neither server takes part.  *)
LEMMA ProcessKeeps ==
  ASSUME IInv,
         \/ MainBegins \/ WebListens \/ RunSmtpd \/ RunPop3d
         \/ HangUp \/ Terminate \/ StopWeb \/ TimedExit
         \/ \E sig \in {"HUP", "TERM"} : Signal(sig)
         \/ up /\ ~smtpServer /\ Goes("smtp", "pop3") /\ UNCHANGED <<up, servers>>
         \/ up /\ ~pop3Server /\ Goes("pop3", "ready") /\ UNCHANGED <<up, servers>>
  PROVE  IInv'
<1>. USE DEF MainBegins, WebListens, RunSmtpd, RunPop3d, HangUp, Terminate,
             StopWeb, TimedExit, Signal, Goes, begun, shutdown, servers
<1>1. up /\ up' \in BOOLEAN /\ UNCHANGED smtpVars /\ UNCHANGED pop3Vars
  BY DEF IInv, SmtpInv, SmtpFacts!TypeOK
<1>2. SmtpInv' /\ Pop3Inv'
  BY <1>1, SmtpRests, Pop3Rests DEF IInv
<1>3. ProcessTypes'
  <2>1. main' \in 0..3 /\ signals' \in 0..MaxSignals
    BY LifecycleAssumption DEF IInv, ProcessTypes
  <2>. QED BY <2>1 DEF IInv, ProcessTypes
<1>4. CreatedFirst'
  BY <1>1 DEF IInv, CreatedFirst, smtpVars, pop3Vars
<1>5. ClosedSoFar'
  BY <1>1 DEF IInv, ProcessTypes, CreatedFirst, ClosedSoFar, Started, smtpVars,
              pop3Vars
<1>6. ShutdownIsClean'
  BY <1>1 DEF IInv, ShutdownIsClean, Started, smtpVars, pop3Vars
<1>. QED BY <1>2, <1>3, <1>4, <1>5, <1>6 DEF IInv

(* They are steps of Server, taken while the process runs.                   *)
LEMMA SmtpActs ==
  ASSUME SmtpRuns \/ Smtp!Stop \/ StopSmtpCloses
  PROVE  up /\ SmtpFacts!Next
<1>1. /\ Smtp!listening => up
      /\ \A c \in SmtpClients : Smtp!Connect(c) \/ Smtp!handleClient(c) => up
      /\ Smtp!Stop \/ Smtp!StopCloses => up
  BY DEF Smtp!listening, Smtp!ResolveFails, Smtp!Listen, Smtp!ListenFails,
         Smtp!AcceptFails, Smtp!DeferredStop, Smtp!Drain, Smtp!Accept, Smtp!Admit,
         Smtp!Connect, Smtp!handleClient, Smtp!closeClient, Smtp!Release, Smtp!Done,
         Smtp!Stop, Smtp!StopCloses
<1>. QED BY <1>1, SmtpSteps DEF SmtpRuns, StopSmtpCloses
(* Steps in which the SMTP server takes part.                                 *)
LEMMA SmtpKeeps ==
  ASSUME IInv,
         \/ SmtpRuns
         \/ smtpServer /\ Goes("smtp", "smtpCloses") /\ Smtp!Stop /\ UNCHANGED pop3Vars
         \/ StopSmtpCloses
  PROVE  IInv'
<1>. USE DEF SmtpRuns, StopSmtpCloses, Goes, begun, shutdown
<1>1. /\ up /\ SmtpFacts!Next /\ UNCHANGED <<begun, pop3Vars>>
      /\ UNCHANGED <<signals, timer, exited, orderly>>
  BY SmtpActs
<1>2. /\ SmtpInv'
      /\ ~up' => smtpListener' = "nil"
      /\ smtpListener # "nil" => smtpListener' # "nil"
      /\ smtpListener \in {"unusable", "closed"} => smtpListener' = smtpListener
  BY <1>1, SmtpStep DEF IInv
<1>3. up' \in BOOLEAN
  BY <1>2 DEF SmtpInv, SmtpFacts!TypeOK
<1>4. Pop3Inv'
  BY <1>1, <1>3, Pop3Rests DEF IInv
<1>5. CASE StopSmtpCloses
  <2>1. /\ smtpListener' = "nil" <=> smtpListener = "nil"
        /\ smtpListener' \in {"nil", "unusable", "closed"}
    <3>1. SmtpFacts!closeListener /\ SmtpFacts!TypeOK
      BY <1>5 DEF Smtp!StopCloses, Smtp!closeListener, SmtpFacts!closeListener,
                  IInv, SmtpInv
    <3>. QED BY <3>1, SmtpFacts!CloseMoves, ServersAssumption
  <2>2. /\ processor = "smtpCloses" /\ processor' = "pop3"
    BY <1>5
  <2>3. ProcessTypes'
    BY <1>1, <2>2 DEF IInv, ProcessTypes
  <2>4. CreatedFirst'
    BY <1>1, <2>1 DEF IInv, CreatedFirst, pop3Vars
  <2>5. ClosedSoFar'
    BY <1>1, <2>1, <2>2 DEF IInv, ClosedSoFar, Started, pop3Vars
  <2>6. ShutdownIsClean'
    BY <1>1, <1>2 DEF ShutdownIsClean, Started
  <2>. QED BY <1>2, <1>4, <2>3, <2>4, <2>5, <2>6 DEF IInv
<1>6. CASE /\ smtpServer
           /\ UNCHANGED processor \/ (processor = "smtp" /\ processor' = "smtpCloses")
  <2>1. ProcessTypes'
    BY <1>1, <1>6 DEF IInv, ProcessTypes
  <2>2. CreatedFirst'
    BY <1>1, <1>6 DEF IInv, CreatedFirst, pop3Vars
  <2>3. ClosedSoFar'
    BY <1>1, <1>2, <1>6 DEF IInv, ClosedSoFar, Started, pop3Vars
  <2>4. ShutdownIsClean'
    BY <1>1, <1>2 DEF ShutdownIsClean, Started
  <2>. QED BY <1>2, <1>4, <2>1, <2>2, <2>3, <2>4 DEF IInv
<1>. QED BY <1>5, <1>6

(* They are steps of Server, taken while the process runs.                   *)
LEMMA Pop3Acts ==
  ASSUME Pop3Runs \/ Pop3!Stop \/ StopPop3Closes
  PROVE  up /\ Pop3Facts!Next
<1>1. /\ Pop3!listening => up
      /\ \A c \in Pop3Clients : Pop3!Connect(c) \/ Pop3!handleClient(c) => up
      /\ Pop3!Stop \/ Pop3!StopCloses => up
  BY DEF Pop3!listening, Pop3!ResolveFails, Pop3!Listen, Pop3!ListenFails,
         Pop3!AcceptFails, Pop3!DeferredStop, Pop3!Drain, Pop3!Accept, Pop3!Admit,
         Pop3!Connect, Pop3!handleClient, Pop3!closeClient, Pop3!Release, Pop3!Done,
         Pop3!Stop, Pop3!StopCloses
<1>. QED BY <1>1, Pop3Steps DEF Pop3Runs, StopPop3Closes
(* Steps in which the POP3 server takes part.                                 *)
LEMMA Pop3Keeps ==
  ASSUME IInv,
         \/ Pop3Runs
         \/ pop3Server /\ Goes("pop3", "pop3Closes") /\ Pop3!Stop /\ UNCHANGED smtpVars
         \/ StopPop3Closes
  PROVE  IInv'
<1>. USE DEF Pop3Runs, StopPop3Closes, Goes, begun, shutdown
<1>1. /\ up /\ Pop3Facts!Next /\ UNCHANGED <<begun, smtpVars>>
      /\ UNCHANGED <<signals, timer, exited, orderly>>
  BY Pop3Acts
<1>2. /\ Pop3Inv'
      /\ ~up' => pop3Listener' = "nil"
      /\ pop3Listener # "nil" => pop3Listener' # "nil"
      /\ pop3Listener \in {"unusable", "closed"} => pop3Listener' = pop3Listener
  BY <1>1, Pop3Step DEF IInv
<1>3. up' \in BOOLEAN
  BY <1>2 DEF Pop3Inv, Pop3Facts!TypeOK
<1>4. SmtpInv'
  BY <1>1, <1>3, SmtpRests DEF IInv
<1>5. CASE StopPop3Closes
  <2>1. /\ pop3Listener' = "nil" <=> pop3Listener = "nil"
        /\ pop3Listener' \in {"nil", "unusable", "closed"}
    <3>1. Pop3Facts!closeListener /\ Pop3Facts!TypeOK
      BY <1>5 DEF Pop3!StopCloses, Pop3!closeListener, Pop3Facts!closeListener,
                  IInv, Pop3Inv
    <3>. QED BY <3>1, Pop3Facts!CloseMoves, ServersAssumption
  <2>2. /\ processor = "pop3Closes" /\ processor' = "ready"
    BY <1>5
  <2>3. ProcessTypes'
    BY <1>1, <2>2 DEF IInv, ProcessTypes
  <2>4. CreatedFirst'
    BY <1>1, <2>1 DEF IInv, CreatedFirst, smtpVars
  <2>5. ClosedSoFar'
    BY <1>1, <2>1, <2>2 DEF IInv, ClosedSoFar, Started, smtpVars
  <2>6. ShutdownIsClean'
    BY <1>1, <1>2 DEF ShutdownIsClean, Started
  <2>. QED BY <1>2, <1>4, <2>3, <2>4, <2>5, <2>6 DEF IInv
<1>6. CASE /\ pop3Server
           /\ UNCHANGED processor \/ (processor = "pop3" /\ processor' = "pop3Closes")
  <2>1. ProcessTypes'
    BY <1>1, <1>6 DEF IInv, ProcessTypes
  <2>2. CreatedFirst'
    BY <1>1, <1>6 DEF IInv, CreatedFirst, smtpVars
  <2>3. ClosedSoFar'
    BY <1>1, <1>2, <1>6 DEF IInv, ClosedSoFar, Started, smtpVars
  <2>4. ShutdownIsClean'
    BY <1>1, <1>2 DEF ShutdownIsClean, Started
  <2>. QED BY <1>2, <1>4, <2>1, <2>2, <2>3, <2>4 DEF IInv
<1>. QED BY <1>5, <1>6

(* Every step keeps the invariant.                                           *)
LEMMA NextIInv == IInv /\ [Next]_vars => IInv'
<1>. SUFFICES ASSUME IInv, [Next]_vars
              PROVE  IInv'
  OBVIOUS
<1>1. CASE Next
  <2>1. CASE \/ MainBegins \/ WebListens \/ RunSmtpd \/ RunPop3d
             \/ \E sig \in {"HUP", "TERM"} : Signal(sig)
             \/ HangUp \/ Terminate \/ StopWeb \/ TimedExit
    BY <2>1, ProcessKeeps
  <2>2. CASE SmtpRuns \/ StopSmtp \/ StopSmtpCloses
    BY <2>2, ProcessKeeps, SmtpKeeps DEF StopSmtp
  <2>3. CASE Pop3Runs \/ StopPop3 \/ StopPop3Closes
    BY <2>3, ProcessKeeps, Pop3Keeps DEF StopPop3
  <2>. QED BY <1>1, <2>1, <2>2, <2>3 DEF Next, signalProcessor
<1>2. CASE UNCHANGED vars
  <2>1. SmtpInv' /\ Pop3Inv'
    BY <1>2, SmtpRests, Pop3Rests
       DEF vars, servers, IInv, SmtpInv, SmtpFacts!TypeOK
  <2>. QED BY <1>2, <2>1
           DEF vars, begun, shutdown, servers, smtpVars, pop3Vars, IInv,
               ProcessTypes, CreatedFirst, ClosedSoFar, ShutdownIsClean, Started
<1>. QED BY <1>1, <1>2

-----------------------------------------------------------------------------
(* The invariant holds in every reachable state.                             *)
THEOREM Inductive == Spec => []IInv
  BY InitIInv, NextIInv, PTL DEF Spec

(* Every variable keeps its type, those of both servers too.                 *)
THEOREM TypeCorrect == Spec => []TypeOK
<1>1. IInv => TypeOK
  <2>1. SmtpInv => Smtp!TypeOK
    BY DEF SmtpInv, SmtpFacts!TypeOK, Smtp!TypeOK, SmtpFacts!ClientState,
           Smtp!ClientState
  <2>2. Pop3Inv => Pop3!TypeOK
    BY DEF Pop3Inv, Pop3Facts!TypeOK, Pop3!TypeOK, Pop3Facts!ClientState,
           Pop3!ClientState
  <2>3. ProcessTypes =>
          {smtpServer, pop3Server, timer, exited, orderly} \subseteq BOOLEAN
    BY DEF ProcessTypes
  <2>. QED BY <2>1, <2>2, <2>3 DEF IInv, ProcessTypes, TypeOK
<1>. QED BY Inductive, <1>1, PTL

(* However signals, clients and the start interleave, a process in which     *)
(* everything has listened ends only by timedExit (main.go:191-207,          *)
(* smtpd/server.go:141, 172).                                                *)
THEOREM CleanCorrect == Spec => []ShutdownIsClean
<1>1. IInv => ShutdownIsClean
  BY DEF IInv
<1>. QED BY Inductive, <1>1, PTL

(* When signalProcessor has handled a SIGTERM that came after the start, the *)
(* three listeners are closed (main.go:195-207).                             *)
THEOREM ReachCorrect == Spec => []ShutdownReachesAll
<1>1. IInv => ShutdownReachesAll
  BY DEF IInv, ClosedSoFar, ShutdownReachesAll
<1>. QED BY Inductive, <1>1, PTL

(* In the process too, neither server is drained before its last client has  *)
(* left, and the POP3 server's semaphore counts its clients                  *)
(* (server.go:178, pop3d/server.go:115, 147).                                *)
THEOREM ServersCorrect ==
  Spec => [](/\ Smtp!DrainedMeansQuiet /\ Pop3!DrainedMeansQuiet
             /\ Pop3!SemCountsClients)
<1>1. IInv => Smtp!DrainedMeansQuiet
  BY DEF IInv, SmtpInv, SmtpFacts!TypeOK, SmtpFacts!NobodyLeft,
         SmtpFacts!Positions, Smtp!DrainedMeansQuiet, SmtpFacts!In,
         SmtpFacts!Counted, SmtpFacts!ClientState
<1>2. IInv => Pop3!DrainedMeansQuiet
  BY DEF IInv, Pop3Inv, Pop3Facts!TypeOK, Pop3Facts!NobodyLeft,
         Pop3Facts!Positions, Pop3!DrainedMeansQuiet, Pop3Facts!In,
         Pop3Facts!Counted, Pop3Facts!ClientState
<1>3. IInv => Pop3!SemCountsClients
  BY DEF IInv, Pop3Inv, Pop3Facts!PlacesCount, Pop3!SemCountsClients,
         Pop3Facts!In, Pop3Facts!Holding, Pop3Facts!Cardinality, Pop3!Cardinality
<1>. QED BY Inductive, <1>1, <1>2, <1>3, PTL

-----------------------------------------------------------------------------
(* The POP3 server of the process implements Service.                        *)

(* A step of its own is one of Service or is not seen.                       *)
LEMMA Pop3Seen ==
  ASSUME Pop3Inv, up, Pop3Facts!Next
  PROVE  [Pop3!Promise!Next]_(Pop3!Promise!svars)
<1>1. Pop3Facts!IInv
  BY DEF Pop3Inv, Pop3Facts!IInv, Pop3Facts!PanicOnlyBeforeListening
<1>2. [Pop3Facts!Promise!Next]_(Pop3Facts!Promise!svars)
  BY <1>1, Pop3Facts!StepRefines, ServersAssumption
<1>. QED BY <1>2
         DEF Pop3Facts!Promise!Next, Pop3!Promise!Next,
             Pop3Facts!Promise!svars, Pop3!Promise!svars,
             Pop3Facts!Promise!Take, Pop3!Promise!Take,
             Pop3Facts!Promise!Serve, Pop3!Promise!Serve,
             Pop3Facts!Promise!Finish, Pop3!Promise!Finish,
             Pop3Facts!Promise!Stop, Pop3!Promise!Stop,
             Pop3Facts!Promise!Drain, Pop3!Promise!Drain,
             Pop3Facts!Promise!Cardinality, Pop3!Promise!Cardinality,
             Pop3Facts!phase, Pop3!phase

(* What Service sees of it does not change in steps of others.               *)
LEMMA Pop3Unseen ==
  ASSUME UNCHANGED pop3Vars
  PROVE  [Pop3!Promise!Next]_(Pop3!Promise!svars)
  BY DEF pop3Vars, Pop3!Promise!svars, Pop3!phase

(* Whatever main, signalProcessor and the SMTP server do, the POP3 server    *)
(* serves at most as many clients as it has places, takes nobody new once    *)
(* its listener is closed and is drained only when it serves nobody          *)
(* (main.go:191-207, pop3d/server.go:57-165).                                *)
THEOREM Pop3PromiseKept == Spec => Pop3!KeepsPromise
<1>1. Init => Pop3!Promise!Init
  BY DEF Init, Pop3!Init, Pop3!Promise!Init, Pop3!phase
<1>2. IInv /\ [Next]_vars => [Pop3!Promise!Next]_(Pop3!Promise!svars)
  <2>. SUFFICES ASSUME IInv, [Next]_vars
                PROVE  [Pop3!Promise!Next]_(Pop3!Promise!svars)
    OBVIOUS
  <2>1. CASE Pop3Runs \/ StopPop3Closes \/ (Pop3!Stop /\ StopPop3)
    <3>1. up /\ Pop3Facts!Next
      BY <2>1, Pop3Acts
    <3>. QED BY <3>1, Pop3Seen DEF IInv
  <2>2. CASE UNCHANGED pop3Vars
    BY <2>2, Pop3Unseen
  <2>3. UNCHANGED pop3Vars \/ Pop3Runs \/ StopPop3Closes \/ (Pop3!Stop /\ StopPop3)
    BY DEF Next, vars, servers, MainBegins, WebListens, RunSmtpd, RunPop3d,
           SmtpRuns, Signal, signalProcessor, HangUp, Terminate, StopWeb,
           StopSmtp, StopSmtpCloses, StopPop3, TimedExit
  <2>. QED BY <2>1, <2>2, <2>3
<1>. QED BY Inductive, <1>1, <1>2, PTL DEF Spec, Pop3!KeepsPromise, Pop3!Promise!Spec
=============================================================================
