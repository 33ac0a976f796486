-------------------------------- MODULE Incus --------------------------------
(***************************************************************************)
(* The push server of the web mail (incus): the goroutines of a socket,    *)
(* which are the HTTP handler that accepted it, a reader, a writer and     *)
(* whoever calls Socket.Close (sockets.go, server.go), the store of        *)
(* sockets by user and by page (memory_store.go, store.go), and the        *)
(* commands that run in goroutines of their own (message.go).              *)
(*                                                                         *)
(* The store's operations hold a lock and are one step each; everything    *)
(* else in a socket is shared without one, so each access is a step.       *)
(* A message is one element of a socket's buff, whatever it says.  A read  *)
(* of Page beside a write is taken to see the old or the new name, never a *)
(* mixture.                                                                *)
(***************************************************************************)
EXTENDS Integers, FiniteSets

CONSTANTS
  WebSockets,     (* the connections SocketListener accepts                  *)
  Timed,          (* those of a server whose connection_timeout is positive  *)
  LongPolls,      (* the requests LongPollListener accepts                   *)
  Users,          (* the names sockets authenticate with                     *)
  Pages,          (* the names of pages                                      *)
  Commands,       (* bound: the goroutines that run a command, each once     *)
  BuffCap,        (* capacity of buff, 1000 in newSocket                     *)
  CLIENT_BROAD,   (* client_broadcasts: sockets may send messages            *)
  NoUser, NoPage

Sockets == WebSockets \cup LongPolls

ASSUME IncusAssumption ==
  /\ WebSockets \cap LongPolls = {} /\ Timed \subseteq WebSockets
  /\ IsFiniteSet(Sockets)
  /\ NoUser \notin Users /\ NoPage \notin Pages
  /\ BuffCap \in Nat \ {0}
  /\ CLIENT_BROAD \in BOOLEAN

VARIABLES
  handler,      (* where SocketListener or LongPollListener is               *)
  reader,       (* listenForMessages: none, running or ended                 *)
  writer,       (* listenForWrites: none, running or ended                   *)
  closing,      (* closing[s][k]: the call of s.Close by k, see Closer       *)
  UID, Page, closed, done, buff,      (* the socket's fields                 *)
  clients,      (* the sockets in MemoryStore.clients, each under its UID    *)
  clientCount,
  pages,        (* MemoryStore.pages                                         *)
  command,      (* the goroutines of FromSocket and FromApp                  *)
  raced,        (* history: changes of a socket's Page that overlapped       *)
  up            (* the process has not gone down                             *)

goroutines == <<handler, reader, writer, closing, command>>
store == <<clients, clientCount, pages>>
fields == <<UID, Page, closed, done, buff>>
vars == <<goroutines, store, fields, raced, up>>

(* Who calls Close: the handler when its time is over, or a goroutine that   *)
(* the reader or the writer starts.                                          *)
Closer == {"timeout", "reader", "writer"}
CloseStep ==
  {"idle", "check", "mark", "unset", "clear", "remove", "done", "ended"}

Idle == [at |-> "idle", sock |-> "none", user |-> NoUser, page |-> NoPage,
         due |-> {}, seen |-> {}]

Setting == {"look", "unset", "assign", "enter"}
CommandState ==
  {m \in [at : {"idle", "message", "range", "send", "ended"} \cup Setting,
          sock : Sockets \cup {"none"}, user : Users \cup {NoUser},
          page : Pages \cup {NoPage},
          due : SUBSET Sockets, seen : SUBSET Sockets] :
     m.at \in Setting \cup {"send"} => m.sock \in Sockets}

TypeOK ==
  /\ handler \in [Sockets -> {"new", "paging", "waiting", "closing", "returned"}]
  /\ reader \in [Sockets -> {"none", "running", "ended"}]
  /\ writer \in [Sockets -> {"none", "running", "ended"}]
  /\ closing \in [Sockets -> [Closer -> CloseStep]]
  /\ UID \in [Sockets -> Users \cup {NoUser}]
  /\ Page \in [Sockets -> Pages \cup {NoPage}]
  /\ closed \in [Sockets -> BOOLEAN]
  /\ done \in [Sockets -> BOOLEAN]
  /\ buff \in [Sockets -> 0..BuffCap]
  /\ clients \in SUBSET Sockets
  /\ clientCount \in Int
  /\ pages \in [Pages \cup {NoPage} -> SUBSET Sockets]
  /\ command \in [Commands -> CommandState]
  /\ raced \in [Sockets -> BOOLEAN]
  /\ up \in BOOLEAN

Over == [Idle EXCEPT !.at = "ended"]

(* newSocket, for every connection that is going to come: those that never   *)
(* will have returned, and the commands nobody gives have ended.             *)
Init ==
  /\ handler \in [Sockets -> {"new", "returned"}]
  /\ reader = [s \in Sockets |-> "none"]
  /\ writer = [s \in Sockets |-> "none"]
  /\ closing = [s \in Sockets |-> [k \in Closer |-> "idle"]]
  /\ UID = [s \in Sockets |-> NoUser]
  /\ Page = [s \in Sockets |-> NoPage]
  /\ closed = [s \in Sockets |-> FALSE]
  /\ done = [s \in Sockets |-> FALSE]
  /\ buff = [s \in Sockets |-> 0]
  /\ clients = {}
  /\ clientCount = 0
  /\ pages = [p \in Pages \cup {NoPage} |-> {}]
  /\ command \in [Commands -> {Idle, Over}]
  /\ raced = [s \in Sockets |-> FALSE]
  /\ up = TRUE

(* The process goes down, and everything in it goes.                         *)
GoesDown ==
  /\ up' = FALSE
  /\ handler' = [s \in Sockets |-> "returned"]
  /\ reader' = [s \in Sockets |-> "none"]
  /\ writer' = [s \in Sockets |-> "none"]
  /\ closing' = [s \in Sockets |-> [k \in Closer |-> "idle"]]
  /\ command' = [c \in Commands |-> Over]
  /\ UID' = [s \in Sockets |-> NoUser]
  /\ Page' = [s \in Sockets |-> NoPage]
  /\ closed' = [s \in Sockets |-> FALSE]
  /\ done' = [s \in Sockets |-> FALSE]
  /\ buff' = [s \in Sockets |-> 0]
  /\ clients' = {}
  /\ clientCount' = 0
  /\ pages' = [p \in Pages \cup {NoPage} |-> {}]
  /\ raced' = [s \in Sockets |-> FALSE]

-----------------------------------------------------------------------------
(* The store.  A definition whose name has a suffix after an underscore,     *)
(* here and below, is a faulty variant of the one that follows it, for       *)
(* checking that the properties notice the fault.                            *)

Save(s) ==
  /\ clientCount' = IF s \in clients THEN clientCount ELSE clientCount + 1
  /\ clients' = clients \cup {s}

Remove_CountsAlways(s) ==
  /\ clientCount' = clientCount - 1
  /\ clients' = clients \ {s}

(* Only a socket that was in the store is subtracted.                        *)
Remove(s) ==
  /\ clientCount' = IF s \in clients THEN clientCount - 1 ELSE clientCount
  /\ clients' = clients \ {s}

SetPage(s, page) == pages' = [pages EXCEPT ![page] = @ \cup {s}]

UnsetPage(s) == pages' = [pages EXCEPT ![Page[s]] = @ \ {s}]

-----------------------------------------------------------------------------
(* Starting a command: "go command.FromSocket(this)" or "go cmd.FromApp".    *)

Setters(s) == {c \in Commands : command[c].at \in Setting /\ command[c].sock = s}

Starts(c, state) ==
  /\ command[c].at = "idle"
  /\ command' = [command EXCEPT ![c] = state]

Message(user, page) ==
  [Idle EXCEPT !.at = "message", !.user = user, !.page = page]

StartsSetpage(c, s) ==
  /\ \E page \in Pages :
       Starts(c, [Idle EXCEPT !.at = "look", !.sock = s, !.page = page])
  /\ raced' = [raced EXCEPT ![s] = @ \/ closed[s] \/ Setters(s) # {}]

StartsMessage(c) ==
  /\ \E user \in Users \cup {NoUser}, page \in Pages \cup {NoPage} :
       Starts(c, Message(user, page))
  /\ raced' = raced

FromSocket(c, s) == StartsSetpage(c, s) \/ (CLIENT_BROAD /\ StartsMessage(c))

(* Whoever calls AppListener.                                                *)
AppListener(c) ==
  /\ up
  /\ Starts(c, Message(NoUser, NoPage))
  /\ UNCHANGED <<handler, reader, writer, closing, store, fields, raced, up>>

-----------------------------------------------------------------------------
(* The handlers.                                                             *)

StartsClose(s, k) == closing' = [closing EXCEPT ![s][k] = "check"]

(* Authenticate fails, or the client leaves before it.                       *)
AuthenticateFails(s) ==
  /\ up
  /\ handler[s] = "new"
  /\ handler' = [handler EXCEPT ![s] = "returned"]
  /\ UNCHANGED <<reader, writer, closing, command, store, fields, raced, up>>

(* Authenticate, up to "go sock.listenForWrites()" for a websocket.          *)
Authenticate(s) ==
  /\ up
  /\ handler[s] = "new"
  /\ \E user \in Users : UID' = [UID EXCEPT ![s] = user]
  /\ Save(s)
  /\ \/ /\ s \in WebSockets
        /\ handler' = [handler EXCEPT ![s] = "waiting"]
        /\ reader' = [reader EXCEPT ![s] = "running"]
        /\ writer' = [writer EXCEPT ![s] = "running"]
     \/ /\ s \in LongPolls
        /\ handler' = [handler EXCEPT ![s] = "paging"]
        /\ UNCHANGED <<reader, writer>>
  /\ UNCHANGED <<closing, command, Page, closed, done, buff, pages, raced, up>>

LongPollSetUp_NoWriter(s) ==
  /\ up
  /\ handler[s] = "paging"
  /\ handler' = [handler EXCEPT ![s] = "waiting"]
  /\ Page' = Page /\ pages' = pages
  /\ UNCHANGED <<command, raced>>
  /\ UNCHANGED <<reader, writer, closing, UID, closed, done, buff, clients,
                 clientCount, up>>

(* The long poll's page, its command and its writer.                         *)
LongPollSetUp(s) ==
  /\ up
  /\ handler[s] = "paging"
  /\ handler' = [handler EXCEPT ![s] = "waiting"]
  /\ \/ Page' = Page /\ pages' = pages
     \/ \E page \in Pages :
          Page' = [Page EXCEPT ![s] = page] /\ SetPage(s, page)
  /\ \/ UNCHANGED <<command, raced>>
     \/ \E c \in Commands : FromSocket(c, s)
  /\ writer' = [writer EXCEPT ![s] = "running"]
  /\ UNCHANGED <<reader, closing, UID, closed, done, buff, clients,
                 clientCount, up>>

(* A long poll always has its 30 seconds.                                    *)
TimeOver(s) ==
  /\ up
  /\ handler[s] = "waiting"
  /\ s \in Timed \cup LongPolls
  /\ handler' = [handler EXCEPT ![s] = "closing"]
  /\ StartsClose(s, "timeout")
  /\ UNCHANGED <<reader, writer, command, store, fields, raced, up>>

(* done is closed, or the handler's own Close has returned.                  *)
HandlerReturns(s) ==
  /\ up
  /\ \/ handler[s] = "waiting" /\ done[s]
     \/ handler[s] = "closing" /\ closing[s]["timeout"] = "ended"
  /\ handler' = [handler EXCEPT ![s] = "returned"]
  /\ UNCHANGED <<reader, writer, closing, command, store, fields, raced, up>>

-----------------------------------------------------------------------------
(* listenForMessages.  done is looked at before each read only.              *)

ReadsCommand(s) ==
  /\ up
  /\ reader[s] = "running"
  /\ handler[s] # "returned"
  /\ \E c \in Commands : FromSocket(c, s)
  /\ reader' = [reader EXCEPT ![s] = IF done[s] THEN "ended" ELSE "running"]
  /\ UNCHANGED <<handler, writer, closing, store, fields, up>>

(* The peer ends the connection or sends what is no command; or the handler  *)
(* has closed the connection.                                                *)
ReadFails(s) ==
  /\ up
  /\ reader[s] = "running"
  /\ reader' = [reader EXCEPT ![s] = "ended"]
  /\ StartsClose(s, "reader")
  /\ UNCHANGED <<handler, writer, command, store, fields, raced, up>>

-----------------------------------------------------------------------------
(* listenForWrites.                                                          *)

Writes(s) ==
  /\ up
  /\ writer[s] = "running"
  /\ buff[s] > 0
  /\ buff' = [buff EXCEPT ![s] = @ - 1]
  /\ \/ s \in WebSockets /\ UNCHANGED <<writer, closing>>
     \/ /\ writer' = [writer EXCEPT ![s] = "ended"]
        /\ StartsClose(s, "writer")
  /\ UNCHANGED <<handler, reader, command, store, UID, Page, closed, done, raced,
                 up>>

WriterReturns(s) ==
  /\ up
  /\ writer[s] = "running"
  /\ done[s]
  /\ writer' = [writer EXCEPT ![s] = "ended"]
  /\ UNCHANGED <<handler, reader, closing, command, store, fields, raced, up>>

-----------------------------------------------------------------------------
(* Close, as called by k.                                                    *)

At(s, k, step) == up /\ closing[s][k] = step
Goes(s, k, step) == closing' = [closing EXCEPT ![s][k] = step]

CloseChecks(s, k) ==
  /\ At(s, k, "check")
  /\ Goes(s, k, IF closed[s] THEN "ended" ELSE "mark")
  /\ UNCHANGED <<handler, reader, writer, command, store, fields, raced, up>>

CloseMarks(s, k) ==
  /\ At(s, k, "mark")
  /\ closed' = [closed EXCEPT ![s] = TRUE]
  /\ Goes(s, k, IF Page[s] # NoPage THEN "unset" ELSE "remove")
  /\ raced' = [raced EXCEPT ![s] = @ \/ Setters(s) # {}]
  /\ UNCHANGED <<handler, reader, writer, command, store, UID, Page, done, buff,
                 up>>

CloseLeavesPage(s, k) ==
  /\ At(s, k, "unset")
  /\ UnsetPage(s)
  /\ Goes(s, k, "clear")
  /\ UNCHANGED <<handler, reader, writer, command, clients, clientCount, fields,
                 raced, up>>

CloseClears(s, k) ==
  /\ At(s, k, "clear")
  /\ Page' = [Page EXCEPT ![s] = NoPage]
  /\ Goes(s, k, "remove")
  /\ UNCHANGED <<handler, reader, writer, command, store, UID, closed, done, buff,
                 raced, up>>

CloseRemoves_OnlyTimedOut(s, k) ==
  /\ At(s, k, "remove")
  /\ IF k = "timeout" THEN Remove(s) ELSE UNCHANGED <<clients, clientCount>>
  /\ Goes(s, k, "done")
  /\ UNCHANGED <<handler, reader, writer, command, pages, fields, raced, up>>

CloseRemoves(s, k) ==
  /\ At(s, k, "remove")
  /\ Remove(s)
  /\ Goes(s, k, "done")
  /\ UNCHANGED <<handler, reader, writer, command, pages, fields, raced, up>>

CloseFinishes_NotForTimeout(s, k) ==
  /\ At(s, k, "done")
  /\ \/ /\ ~done[s] \/ k = "timeout"
        /\ done' = [done EXCEPT ![s] = @ \/ k # "timeout"]
        /\ Goes(s, k, "ended")
        /\ UNCHANGED <<handler, reader, writer, command, store, UID, Page, closed,
                       buff, raced, up>>
     \/ done[s] /\ k # "timeout" /\ GoesDown

(* close(this.done) panics when done is closed already: that ends the        *)
(* process, except in the handler, whose panics net/http recovers.           *)
CloseFinishes(s, k) ==
  /\ At(s, k, "done")
  /\ \/ /\ ~done[s] \/ k = "timeout"
        /\ done' = [done EXCEPT ![s] = TRUE]
        /\ Goes(s, k, "ended")
        /\ UNCHANGED <<handler, reader, writer, command, store, UID, Page, closed,
                       buff, raced, up>>
     \/ done[s] /\ k # "timeout" /\ GoesDown

Close(s, k) ==
  \/ CloseChecks(s, k) \/ CloseMarks(s, k) \/ CloseLeavesPage(s, k)
  \/ CloseClears(s, k) \/ CloseRemoves(s, k) \/ CloseFinishes(s, k)

-----------------------------------------------------------------------------
(* The command setpage, of the socket command[c].sock.                       *)

CommandAt(c, at) == up /\ command[c].at = at
CommandGoes(c, at) == command' = [command EXCEPT ![c].at = at]
CommandEnds(c) == command' = [command EXCEPT ![c] = Over]

SetpageLooks_KeepsOld(c) ==
  /\ CommandAt(c, "look")
  /\ CommandGoes(c, "assign")
  /\ UNCHANGED <<handler, reader, writer, closing, store, fields, raced, up>>

SetpageLooks(c) ==
  /\ CommandAt(c, "look")
  /\ CommandGoes(c, IF Page[command[c].sock] # NoPage THEN "unset" ELSE "assign")
  /\ UNCHANGED <<handler, reader, writer, closing, store, fields, raced, up>>

SetpageLeaves(c) ==
  /\ CommandAt(c, "unset")
  /\ UnsetPage(command[c].sock)
  /\ CommandGoes(c, "assign")
  /\ UNCHANGED <<handler, reader, writer, closing, clients, clientCount, fields,
                 raced, up>>

SetpageAssigns(c) ==
  /\ CommandAt(c, "assign")
  /\ Page' = [Page EXCEPT ![command[c].sock] = command[c].page]
  /\ CommandGoes(c, "enter")
  /\ UNCHANGED <<handler, reader, writer, closing, store, UID, closed, done, buff,
                 raced, up>>

(* The store reads Page again.                                               *)
SetpageEnters(c) ==
  /\ CommandAt(c, "enter")
  /\ SetPage(command[c].sock, Page[command[c].sock])
  /\ CommandEnds(c)
  /\ UNCHANGED <<handler, reader, writer, closing, clients, clientCount, fields,
                 raced, up>>

-----------------------------------------------------------------------------
(* The command message: messageUser, messagePage and messageAll.             *)

(* The map, or the maps, that are ranged over while others change them.      *)
Scope(m) ==
  IF m.user # NoUser THEN {s \in clients : UID[s] = m.user}
  ELSE IF m.page # NoPage THEN pages[m.page]
  ELSE clients

MessageBegins(c) ==
  /\ CommandAt(c, "message")
  /\ command' = [command EXCEPT ![c].at = "range", ![c].due = Scope(command[c])]
  /\ UNCHANGED <<handler, reader, writer, closing, store, fields, raced, up>>

Wanted(m, s) ==
  /\ ~closed[s]
  /\ m.user # NoUser /\ m.page # NoPage => Page[s] = m.page

(* The next socket of the range: one that was there and still is, or one     *)
(* that has been added since.                                                *)
MessageVisits(c) ==
  /\ CommandAt(c, "range")
  /\ \E s \in Scope(command[c]) \ command[c].seen :
       command' = [command EXCEPT
                     ![c].seen = @ \cup {s},
                     ![c].sock = IF Wanted(command[c], s) THEN s ELSE "none",
                     ![c].at = IF Wanted(command[c], s) THEN "send" ELSE "range"]
  /\ UNCHANGED <<handler, reader, writer, closing, store, fields, raced, up>>

(* "sock.buff <- msg" blocks while buff is full.                             *)
MessageSent(c) ==
  /\ CommandAt(c, "send")
  /\ buff[command[c].sock] < BuffCap
  /\ buff' = [buff EXCEPT ![command[c].sock] = @ + 1]
  /\ command' = [command EXCEPT ![c].at = "range", ![c].sock = "none"]
  /\ UNCHANGED <<handler, reader, writer, closing, store, UID, Page, closed, done,
                 raced, up>>

MessageEnds(c) ==
  /\ CommandAt(c, "range")
  /\ Scope(command[c]) \cap command[c].due \subseteq command[c].seen
  /\ CommandEnds(c)
  /\ UNCHANGED <<handler, reader, writer, closing, store, fields, raced, up>>

Run(c) ==
  \/ SetpageLooks(c) \/ SetpageLeaves(c) \/ SetpageAssigns(c) \/ SetpageEnters(c)
  \/ MessageBegins(c) \/ MessageVisits(c) \/ MessageSent(c) \/ MessageEnds(c)

-----------------------------------------------------------------------------
(* A range over a map that meets a write to it brings the process down.      *)
(* SendHeartbeats ranges over clients again and again and changes nothing.   *)
MapFault ==
  /\ up
  /\ \/ \E s \in Sockets :
          handler[s] = "new" \/ \E k \in Closer : closing[s][k] = "remove"
     \/ /\ \E c \in Commands :
             /\ command[c].at \in {"range", "send"}
             /\ command[c].user = NoUser /\ command[c].page # NoPage
        /\ \/ \E c \in Commands : command[c].at \in {"unset", "enter"}
           \/ \E s \in Sockets :
                handler[s] = "paging" \/ \E k \in Closer : closing[s][k] = "unset"
  /\ GoesDown

Handler(s) ==
  \/ AuthenticateFails(s) \/ Authenticate(s) \/ LongPollSetUp(s) \/ TimeOver(s)
  \/ HandlerReturns(s)

Next ==
  \/ \E s \in Sockets :
       \/ Handler(s) \/ ReadsCommand(s) \/ ReadFails(s)
       \/ Writes(s) \/ WriterReturns(s)
       \/ \E k \in Closer : Close(s, k)
  \/ \E c \in Commands : AppListener(c) \/ Run(c)
  \/ MapFault

Spec == Init /\ [][Next]_vars

(* The goroutines run, a timer that is running expires, a write to a socket  *)
(* ends, and a read does when its connection has been closed.  Nothing       *)
(* obliges a client to connect, to say anything or to go.                    *)
Fairness ==
  /\ \A s \in Sockets :
       /\ WF_vars(LongPollSetUp(s) \/ TimeOver(s) \/ HandlerReturns(s))
       /\ WF_vars(Writes(s) \/ WriterReturns(s))
       /\ \A k \in Closer \ {"reader"} : WF_vars(Close(s, k))
  /\ \A s \in WebSockets :
       /\ WF_vars(handler[s] = "returned" /\ ReadFails(s))
       /\ WF_vars(Close(s, "reader"))
  /\ \A c \in Commands : WF_vars(Run(c))

FairSpec == Spec /\ Fairness

-----------------------------------------------------------------------------
(* Safety.                                                                   *)

(* clientCount counts the sockets in the store although up to three callers  *)
(* of Close remove the same one (memory_store.go:18, 41).                    *)
CountIsClients == clientCount = Cardinality(clients)

(* When done is closed, which is what lets the handler return and the        *)
(* response be reused, no message can find the socket any more: it is in no  *)
(* user's map (sockets.go:70, memory_store.go:40).                           *)
DoneMeansForgotten == \A s \in Sockets : done[s] => s \notin clients

(* A socket is on the page it says and on no other, and on none once it is   *)
(* done, unless two setpage commands overlapped or one was not over when the *)
(* socket closed: then it may stay on a page for ever (sockets.go:65,        *)
(* message.go:43).                                                           *)
PagesInStep ==
  \A s \in Sockets :
    ~raced[s] =>
      /\ done[s] => \A p \in DOMAIN pages : s \notin pages[p]
      /\ ~closed[s] /\ Setters(s) = {}
           => \A p \in DOMAIN pages : s \in pages[p] <=> p = Page[s] /\ p # NoPage

(* Liveness.                                                                 *)

Ended(s) ==
  /\ handler[s] = "returned"
  /\ reader[s] # "running" /\ writer[s] # "running"
  /\ \A k \in Closer : closing[s][k] \in {"idle", "ended"}

(* A socket that anybody closes, the peer, a failed write or the timeout,    *)
(* loses all its goroutines, although each waits for something else and      *)
(* Close does its work in the first of its callers (sockets.go:61, 130, 178, *)
(* server.go:95).                                                            *)
GoroutinesEnd == \A s \in Sockets : closed[s] ~> (Ended(s) \/ ~up)

(* A message is handed to every socket of its range, unless the sender hangs *)
(* on one whose writer has gone since it was looked at (message.go:119).     *)
SendersFinish ==
  \A c \in Commands :
    command[c].at = "message" ~>
      \/ command[c].at = "ended"
      \/ ~up
      \/ command[c].at = "send" /\ writer[command[c].sock] = "ended"
=============================================================================
