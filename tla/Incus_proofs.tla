----------------------------- MODULE Incus_proofs -----------------------------
(***************************************************************************)
(* Theorems about Incus, for any sockets, users, pages and commands and    *)
(* any capacity: its type invariant, that clientCount is the number of     *)
(* sockets in the store, that a socket whose done is closed is in no       *)
(* user's map, and that a socket is on the page it says.                   *)
(***************************************************************************)
EXTENDS Incus, FiniteSetTheorems, TLAPS

(* Nothing has happened to a socket whose handler has not set it up.         *)
Fresh(s) ==
  handler[s] \in {"new", "paging"} =>
    /\ reader[s] = "none" /\ writer[s] = "none"
    /\ \A k \in Closer : closing[s][k] = "idle"
    /\ ~closed[s] /\ ~done[s]

(* What a call of Close has done when it comes to a step.                    *)
Closes(s) ==
  /\ \A k \in Closer :
       /\ closing[s][k] \in {"unset", "clear", "remove", "done"} => closed[s]
       /\ closing[s][k] = "done" => s \notin clients
  /\ done[s] => closed[s] /\ s \notin clients

SocketInv == \A s \in Sockets : Fresh(s) /\ Closes(s)

(* Where a socket is while its one setpage command or its Close is at work.  *)
Elsewhere(s) == \A p \in DOMAIN pages : s \notin pages[p]
Moving(s) == \E c \in Setters(s) : command[c].at \in {"assign", "enter"}
Leaving(s) == done[s] \/ \E k \in Closer : closing[s][k] \in {"clear", "remove", "done"}

OnPage(s) ==
  ~raced[s] =>
    /\ \A c, d \in Setters(s) : c = d
    /\ closed[s] => Setters(s) = {}
    /\ \A p \in DOMAIN pages : s \in pages[p] => p = Page[s] /\ p # NoPage
    /\ Moving(s) \/ Leaving(s) => Elsewhere(s)
    /\ ~closed[s] /\ ~Moving(s) /\ Page[s] # NoPage => s \in pages[Page[s]]
    /\ \A c \in Setters(s) : command[c].page # NoPage
    /\ \A c \in Setters(s) : command[c].at = "enter" => Page[s] # NoPage

NotYetOnPage(s) ==
  handler[s] \in {"new", "paging"} => Setters(s) = {} /\ Page[s] = NoPage

PageInv == \A s \in Sockets : NotYetOnPage(s) /\ OnPage(s)

IInv == TypeOK /\ SocketInv /\ CountIsClients

-----------------------------------------------------------------------------
(* The records of commands.                                                  *)
LEMMA CommandTypes ==
  /\ {Idle, Over} \subseteq CommandState
  /\ \A user \in Users \cup {NoUser}, page \in Pages \cup {NoPage} :
       Message(user, page) \in CommandState
  /\ \A s \in Sockets, page \in Pages :
       [Idle EXCEPT !.at = "look", !.sock = s, !.page = page] \in CommandState
<1>1. Idle \in CommandState
  BY DEF CommandState, Idle, Setting
<1>2. Over \in CommandState
  BY <1>1 DEF CommandState, Over, Setting
<1>3. ASSUME NEW user \in Users \cup {NoUser}, NEW page \in Pages \cup {NoPage}
      PROVE  Message(user, page) \in CommandState
  BY <1>1, <1>3 DEF CommandState, Message, Setting
<1>4. ASSUME NEW s \in Sockets, NEW page \in Pages
      PROVE  [Idle EXCEPT !.at = "look", !.sock = s, !.page = page] \in CommandState
  BY <1>1, <1>4 DEF CommandState, Setting
<1>. QED BY <1>1, <1>2, <1>3, <1>4

(* A new command leaves the type of command alone.                           *)
LEMMA StartsType ==
  ASSUME TypeOK, NEW c \in Commands, NEW s \in Sockets,
         FromSocket(c, s) \/ AppListener(c)
  PROVE  command' \in [Commands -> CommandState] /\ raced' \in [Sockets -> BOOLEAN]
<1>1. ASSUME NEW m \in CommandState, Starts(c, m)
      PROVE  command' \in [Commands -> CommandState]
  BY <1>1 DEF TypeOK, Starts
<1>2. CASE StartsSetpage(c, s)
  BY <1>1, <1>2, CommandTypes DEF TypeOK, StartsSetpage
<1>3. CASE StartsMessage(c)
  BY <1>1, <1>3, CommandTypes DEF TypeOK, StartsMessage
<1>4. CASE AppListener(c)
  BY <1>1, <1>4, CommandTypes DEF TypeOK, AppListener
<1>. QED BY <1>2, <1>3, <1>4 DEF FromSocket

LEMMA ScopeType ==
  ASSUME TypeOK, NEW m \in CommandState PROVE Scope(m) \subseteq Sockets
BY DEF TypeOK, Scope, CommandState

LEMMA InitType == Init => TypeOK
<1>. SUFFICES ASSUME Init PROVE TypeOK
  OBVIOUS
<1>1. command \in [Commands -> CommandState]
  BY CommandTypes DEF Init
<1>. QED BY <1>1, IncusAssumption DEF Init, TypeOK, CloseStep, Sockets

LEMMA DownType == ASSUME GoesDown PROVE TypeOK'
<1>1. command' \in [Commands -> CommandState]
  BY CommandTypes DEF GoesDown
<1>2. /\ handler' \in [Sockets -> {"new", "paging", "waiting", "closing", "returned"}]
      /\ reader' \in [Sockets -> {"none", "running", "ended"}]
      /\ writer' \in [Sockets -> {"none", "running", "ended"}]
  BY DEF GoesDown
<1>3. closing' \in [Sockets -> [Closer -> CloseStep]]
  BY DEF GoesDown, CloseStep
<1>4. /\ UID' \in [Sockets -> Users \cup {NoUser}]
      /\ Page' \in [Sockets -> Pages \cup {NoPage}]
      /\ buff' \in [Sockets -> 0..BuffCap]
  BY IncusAssumption DEF GoesDown
<1>5. /\ clients' \in SUBSET Sockets
      /\ pages' \in [Pages \cup {NoPage} -> SUBSET Sockets]
  BY DEF GoesDown
<1>6. /\ closed' \in [Sockets -> BOOLEAN] /\ done' \in [Sockets -> BOOLEAN]
      /\ raced' \in [Sockets -> BOOLEAN]
  BY Zenon DEF GoesDown
<1>7. clientCount' \in Int
  BY DEF GoesDown
<1>8. up' \in BOOLEAN
  BY Zenon DEF GoesDown
<1>. QED BY <1>1, <1>2, <1>3, <1>4, <1>5, <1>6, <1>7, <1>8 DEF TypeOK

LEMMA HandlerType ==
  ASSUME TypeOK, NEW s \in Sockets, Handler(s)
  PROVE  TypeOK'
<1>. USE DEF TypeOK, fields, store
<1>1. CASE AuthenticateFails(s)
  BY <1>1 DEF AuthenticateFails
<1>2. CASE Authenticate(s)
  <2>1. handler' \in [Sockets -> {"new", "paging", "waiting", "closing", "returned"}]
    BY <1>2 DEF Authenticate
  <2>2. /\ reader' \in [Sockets -> {"none", "running", "ended"}]
        /\ writer' \in [Sockets -> {"none", "running", "ended"}]
    <3>1. /\ reader' \in {reader, [reader EXCEPT ![s] = "running"]}
          /\ writer' \in {writer, [writer EXCEPT ![s] = "running"]}
      BY <1>2, Zenon DEF Authenticate
    <3>2. /\ [reader EXCEPT ![s] = "running"] \in [Sockets -> {"none", "running", "ended"}]
          /\ [writer EXCEPT ![s] = "running"] \in [Sockets -> {"none", "running", "ended"}]
      OBVIOUS
    <3>. QED BY <3>1, <3>2
  <2>3. UID' \in [Sockets -> Users \cup {NoUser}]
    BY <1>2 DEF Authenticate
  <2>4. clients' \in SUBSET Sockets /\ clientCount' \in Int
    BY <1>2 DEF Authenticate, Save
  <2>. QED BY <1>2, <2>1, <2>2, <2>3, <2>4 DEF Authenticate
<1>3. CASE LongPollSetUp(s)
  <2>1. command' \in [Commands -> CommandState] /\ raced' \in [Sockets -> BOOLEAN]
    BY <1>3, StartsType DEF LongPollSetUp
  <2>2. CASE Page' = Page /\ pages' = pages
    BY <1>3, <2>1, <2>2 DEF LongPollSetUp
  <2>3. ASSUME NEW page \in Pages, Page' = [Page EXCEPT ![s] = page], SetPage(s, page)
        PROVE  /\ Page' \in [Sockets -> Pages \cup {NoPage}]
               /\ pages' \in [Pages \cup {NoPage} -> SUBSET Sockets]
    BY <2>3 DEF SetPage
  <2>. QED BY <1>3, <2>1, <2>2, <2>3 DEF LongPollSetUp
<1>4. CASE TimeOver(s)
  BY <1>4 DEF TimeOver, StartsClose, CloseStep, Closer
<1>5. CASE HandlerReturns(s)
  BY <1>5 DEF HandlerReturns
<1>. QED BY <1>1, <1>2, <1>3, <1>4, <1>5 DEF Handler

LEMMA SocketType ==
  ASSUME TypeOK, NEW s \in Sockets,
         ReadsCommand(s) \/ ReadFails(s) \/ Writes(s) \/ WriterReturns(s)
  PROVE  TypeOK'
<1>. USE DEF TypeOK, fields, store
<1>1. CASE ReadsCommand(s)
  <2>1. command' \in [Commands -> CommandState] /\ raced' \in [Sockets -> BOOLEAN]
    BY <1>1, StartsType DEF ReadsCommand
  <2>. QED BY <1>1, <2>1 DEF ReadsCommand
<1>2. CASE ReadFails(s)
  BY <1>2 DEF ReadFails, StartsClose, CloseStep, Closer
<1>3. CASE Writes(s)
  <2>1. closing' \in [Sockets -> [Closer -> CloseStep]]
    <3>1. CASE UNCHANGED closing
      BY <3>1
    <3>2. CASE StartsClose(s, "writer")
      BY <3>2 DEF StartsClose, CloseStep, Closer
    <3>. QED BY <1>3, <3>1, <3>2 DEF Writes
  <2>2. buff' \in [Sockets -> 0..BuffCap]
    BY <1>3, IncusAssumption DEF Writes
  <2>. QED BY <1>3, <2>1, <2>2 DEF Writes
<1>4. CASE WriterReturns(s)
  BY <1>4 DEF WriterReturns
<1>. QED BY <1>1, <1>2, <1>3, <1>4

LEMMA CloseType ==
  ASSUME TypeOK, NEW s \in Sockets, NEW k \in Closer, Close(s, k)
  PROVE  TypeOK'
<1>. USE DEF TypeOK, fields, store, At, Goes, CloseStep
<1>1. CASE CloseChecks(s, k)
  BY <1>1 DEF CloseChecks
<1>2. CASE CloseMarks(s, k)
  BY <1>2 DEF CloseMarks
<1>3. CASE CloseLeavesPage(s, k)
  BY <1>3 DEF CloseLeavesPage, UnsetPage
<1>4. CASE CloseClears(s, k)
  BY <1>4 DEF CloseClears
<1>5. CASE CloseRemoves(s, k)
  BY <1>5 DEF CloseRemoves, Remove
<1>6. CASE CloseFinishes(s, k)
  <2>1. CASE GoesDown
    BY <2>1, DownType
  <2>2. CASE Goes(s, k, "ended") /\ done' = [done EXCEPT ![s] = TRUE]
    BY <1>6, <2>1, <2>2 DEF CloseFinishes
  <2>. QED BY <1>6, <2>1, <2>2 DEF CloseFinishes
<1>. QED BY <1>1, <1>2, <1>3, <1>4, <1>5, <1>6 DEF Close

LEMMA RunType ==
  ASSUME TypeOK, NEW c \in Commands, Run(c)
  PROVE  TypeOK'
<1>. DEFINE m == command[c]
<1>. USE DEF TypeOK, fields, store, CommandAt, CommandGoes, CommandEnds
<1>0. m \in CommandState /\ Over \in CommandState /\ Scope(m) \subseteq Sockets
  BY CommandTypes, ScopeType
<1>1. ASSUME NEW at \in {"unset", "assign", "enter"}, m.at \in Setting,
             CommandGoes(c, at)
      PROVE  command' \in [Commands -> CommandState]
  BY <1>0, <1>1 DEF CommandState, Setting
<1>2. CASE SetpageLooks(c)
  BY <1>1, <1>2 DEF SetpageLooks, Setting
<1>3. CASE SetpageLeaves(c)
  BY <1>1, <1>3 DEF SetpageLeaves, UnsetPage, Setting
<1>4. CASE SetpageAssigns(c)
  BY <1>0, <1>1, <1>4 DEF SetpageAssigns, CommandState, Setting
<1>5. CASE SetpageEnters(c)
  <2>1. m.sock \in Sockets /\ Page[m.sock] \in Pages \cup {NoPage}
    BY <1>0, <1>5 DEF SetpageEnters, CommandState, Setting
  <2>. QED BY <1>0, <1>5, <2>1 DEF SetpageEnters, SetPage
<1>6. CASE MessageBegins(c)
  <2>1. [m EXCEPT !.at = "range", !.due = Scope(m)] \in CommandState
    BY <1>0, <1>6 DEF CommandState, Setting, MessageBegins
  <2>. QED BY <1>6, <2>1 DEF MessageBegins
<1>7. CASE MessageVisits(c)
  <2>1. PICK s \in Scope(m) \ m.seen :
          command' = [command EXCEPT
                        ![c].seen = @ \cup {s},
                        ![c].sock = IF Wanted(m, s) THEN s ELSE "none",
                        ![c].at = IF Wanted(m, s) THEN "send" ELSE "range"]
    BY <1>7 DEF MessageVisits
  <2>2. s \in Sockets
    BY <1>0
  <2>3. /\ [m EXCEPT !.seen = @ \cup {s}, !.sock = s, !.at = "send"] \in CommandState
        /\ [m EXCEPT !.seen = @ \cup {s}, !.sock = "none", !.at = "range"]
             \in CommandState
    BY <1>0, <2>2 DEF CommandState, Setting
  <2>4. command' \in [Commands -> CommandState]
    BY <2>1, <2>2, <2>3
  <2>. QED BY <1>7, <2>4 DEF MessageVisits
<1>8. CASE MessageSent(c)
  <2>1. [m EXCEPT !.at = "range", !.sock = "none"] \in CommandState
    BY <1>0, <1>8 DEF CommandState, Setting, MessageSent
  <2>2. buff' \in [Sockets -> 0..BuffCap]
    <3>1. buff' = [buff EXCEPT ![m.sock] = @ + 1] /\ buff[m.sock] < BuffCap
      BY <1>8 DEF MessageSent
    <3>2. ASSUME m.sock \in Sockets PROVE buff[m.sock] + 1 \in 0..BuffCap
      BY <3>1, <3>2, IncusAssumption
    <3>. QED BY <3>1, <3>2
  <2>. QED BY <1>8, <2>1, <2>2 DEF MessageSent
<1>9. CASE MessageEnds(c)
  BY <1>0, <1>9 DEF MessageEnds
<1>. QED BY <1>2, <1>3, <1>4, <1>5, <1>6, <1>7, <1>8, <1>9 DEF Run

LEMMA NextType == TypeOK /\ [Next]_vars => TypeOK'
<1>. SUFFICES ASSUME TypeOK, [Next]_vars PROVE TypeOK'
  OBVIOUS
<1>1. CASE UNCHANGED vars
  BY <1>1 DEF vars, goroutines, store, fields, TypeOK
<1>2. CASE MapFault
  BY <1>2, DownType DEF MapFault
<1>3. ASSUME NEW c \in Commands, AppListener(c) PROVE TypeOK'
  <2>1. CASE Sockets = {}
    <3>1. command' \in [Commands -> CommandState]
      BY <1>3, CommandTypes, IncusAssumption DEF AppListener, Starts, TypeOK
    <3>. QED BY <1>3, <3>1 DEF AppListener, TypeOK, store, fields
  <2>2. ASSUME NEW s \in Sockets PROVE TypeOK'
    BY <1>3, <2>2, StartsType DEF AppListener, TypeOK, store, fields
  <2>. QED BY <2>1, <2>2
<1>. QED
  BY <1>1, <1>2, <1>3, HandlerType, SocketType, CloseType, RunType DEF Next

-----------------------------------------------------------------------------
(* The number of sockets in the store.                                       *)
LEMMA StoreCounts ==
  ASSUME TypeOK, CountIsClients, NEW s \in Sockets, Save(s) \/ Remove(s)
  PROVE  CountIsClients'
<1>1. IsFiniteSet(clients)
  BY FS_Subset, IncusAssumption DEF TypeOK
<1>2. Cardinality(clients) \in Nat
  BY <1>1, FS_CardinalityType
<1>3. CASE Save(s)
  <2>1. Cardinality(clients \cup {s}) =
          IF s \in clients THEN Cardinality(clients) ELSE Cardinality(clients) + 1
    BY <1>1, FS_AddElement
  <2>. QED BY <1>2, <1>3, <2>1 DEF Save, CountIsClients
<1>4. CASE Remove(s)
  <2>1. Cardinality(clients \ {s}) =
          IF s \in clients THEN Cardinality(clients) - 1 ELSE Cardinality(clients)
    BY <1>1, FS_RemoveElement
  <2>. QED BY <1>2, <1>4, <2>1 DEF Remove, CountIsClients
<1>. QED BY <1>3, <1>4

LEMMA DownCounts == ASSUME GoesDown PROVE CountIsClients'
BY FS_EmptySet DEF GoesDown, CountIsClients

LEMMA NextCounts == TypeOK /\ CountIsClients /\ [Next]_vars => CountIsClients'
<1>. SUFFICES ASSUME TypeOK, CountIsClients, [Next]_vars PROVE CountIsClients'
  OBVIOUS
<1>0. ASSUME UNCHANGED <<clients, clientCount>> PROVE CountIsClients'
  BY <1>0 DEF CountIsClients
<1>1. CASE UNCHANGED vars
  BY <1>0, <1>1 DEF vars, store
<1>2. CASE MapFault
  BY <1>2, DownCounts DEF MapFault
<1>3. ASSUME NEW c \in Commands, AppListener(c) \/ Run(c) PROVE CountIsClients'
  BY <1>0, <1>3 DEF AppListener, Run, SetpageLooks, SetpageLeaves, SetpageAssigns,
     SetpageEnters, MessageBegins, MessageVisits, MessageSent, MessageEnds, store
<1>4. ASSUME NEW s \in Sockets, Handler(s) PROVE CountIsClients'
  <2>1. CASE Authenticate(s)
    BY <2>1, StoreCounts DEF Authenticate
  <2>. QED
    BY <1>0, <1>4, <2>1 DEF Handler, AuthenticateFails, LongPollSetUp, TimeOver,
       HandlerReturns, store
<1>5. ASSUME NEW s \in Sockets,
             ReadsCommand(s) \/ ReadFails(s) \/ Writes(s) \/ WriterReturns(s)
      PROVE  CountIsClients'
  BY <1>0, <1>5 DEF ReadsCommand, ReadFails, Writes, WriterReturns, store
<1>6. ASSUME NEW s \in Sockets, NEW k \in Closer, Close(s, k) PROVE CountIsClients'
  <2>1. CASE CloseRemoves(s, k)
    BY <2>1, StoreCounts DEF CloseRemoves
  <2>2. CASE CloseFinishes(s, k)
    BY <1>0, <2>2, DownCounts DEF CloseFinishes, store
  <2>. QED
    BY <1>0, <1>6, <2>1, <2>2 DEF Close, CloseChecks, CloseMarks, CloseLeavesPage,
       CloseClears, store
<1>. QED BY <1>1, <1>2, <1>3, <1>4, <1>5, <1>6 DEF Next

-----------------------------------------------------------------------------
(* What Close has done, and what has not begun.                              *)
LEMMA DownSockets == ASSUME GoesDown PROVE SocketInv'
BY DEF GoesDown, SocketInv, Fresh, Closes

(* Steps that touch none of what SocketInv speaks of.                        *)
LEMMA SameSockets ==
  ASSUME SocketInv, UNCHANGED <<handler, reader, writer, closing, closed, done, clients>>
  PROVE  SocketInv'
BY DEF SocketInv, Fresh, Closes

LEMMA HandlerSockets ==
  ASSUME TypeOK, SocketInv, NEW s \in Sockets, Handler(s)
  PROVE  SocketInv'
<1>. USE DEF TypeOK, fields, store, SocketInv, Fresh, Closes
<1>1. CASE AuthenticateFails(s)
  BY <1>1 DEF AuthenticateFails
<1>2. CASE Authenticate(s)
  <2>1. /\ handler[s] = "new"
        /\ UNCHANGED <<closing, closed, done>>
        /\ clients' = clients \cup {s}
        /\ \A t \in Sockets \ {s} :
             /\ handler'[t] = handler[t]
             /\ reader'[t] = reader[t]
             /\ writer'[t] = writer[t]
    BY <1>2 DEF Authenticate, Save
  <2>2. handler'[s] = "waiting" \/ (handler'[s] = "paging" /\ UNCHANGED <<reader, writer>>)
    BY <1>2 DEF Authenticate
  <2>3. ~done[s] /\ \A k \in Closer : closing[s][k] = "idle"
    BY <2>1
  <2>. QED BY <2>1, <2>2, <2>3
<1>3. CASE LongPollSetUp(s)
  BY <1>3 DEF LongPollSetUp
<1>4. CASE TimeOver(s)
  BY <1>4 DEF TimeOver, StartsClose, Closer
<1>5. CASE HandlerReturns(s)
  BY <1>5 DEF HandlerReturns
<1>. QED BY <1>1, <1>2, <1>3, <1>4, <1>5 DEF Handler

LEMMA ReaderWriterSockets ==
  ASSUME TypeOK, SocketInv, NEW s \in Sockets,
         ReadsCommand(s) \/ ReadFails(s) \/ Writes(s) \/ WriterReturns(s)
  PROVE  SocketInv'
<1>. USE DEF TypeOK, fields, store, SocketInv, Fresh, Closes
<1>1. CASE ReadsCommand(s)
  BY <1>1 DEF ReadsCommand
<1>2. CASE ReadFails(s)
  BY <1>2 DEF ReadFails, StartsClose, Closer
<1>3. CASE Writes(s)
  <2>1. CASE UNCHANGED <<writer, closing>>
    BY <1>3, <2>1 DEF Writes
  <2>2. CASE writer' = [writer EXCEPT ![s] = "ended"] /\ StartsClose(s, "writer")
    BY <1>3, <2>2 DEF Writes, StartsClose, Closer
  <2>. QED BY <1>3, <2>1, <2>2 DEF Writes
<1>4. CASE WriterReturns(s)
  BY <1>4 DEF WriterReturns
<1>. QED BY <1>1, <1>2, <1>3, <1>4

LEMMA CloseSockets ==
  ASSUME TypeOK, SocketInv, NEW s \in Sockets, NEW k \in Closer, Close(s, k)
  PROVE  SocketInv'
<1>. USE DEF TypeOK, fields, store, SocketInv, Fresh, Closes, At, Goes
<1>1. CASE CloseChecks(s, k)
  BY <1>1 DEF CloseChecks
<1>2. CASE CloseMarks(s, k)
  BY <1>2 DEF CloseMarks
<1>3. CASE CloseLeavesPage(s, k)
  BY <1>3 DEF CloseLeavesPage
<1>4. CASE CloseClears(s, k)
  BY <1>4 DEF CloseClears
<1>5. CASE CloseRemoves(s, k)
  BY <1>5 DEF CloseRemoves, Remove
<1>6. CASE CloseFinishes(s, k)
  <2>1. CASE GoesDown
    BY <2>1, DownSockets
  <2>2. CASE ~GoesDown
    <3>1. /\ done' = [done EXCEPT ![s] = TRUE]
          /\ closing' = [closing EXCEPT ![s][k] = "ended"]
          /\ UNCHANGED <<handler, reader, writer, closed, clients>>
          /\ closing[s][k] = "done"
      BY <1>6, <2>2 DEF CloseFinishes
    <3>. QED BY <3>1
  <2>. QED BY <2>1, <2>2
<1>. QED BY <1>1, <1>2, <1>3, <1>4, <1>5, <1>6 DEF Close

LEMMA NextSockets == TypeOK /\ SocketInv /\ [Next]_vars => SocketInv'
<1>. SUFFICES ASSUME TypeOK, SocketInv, [Next]_vars PROVE SocketInv'
  OBVIOUS
<1>1. CASE UNCHANGED vars
  BY <1>1, SameSockets DEF vars, goroutines, store, fields
<1>2. CASE MapFault
  BY <1>2, DownSockets DEF MapFault
<1>3. ASSUME NEW c \in Commands, AppListener(c) \/ Run(c) PROVE SocketInv'
  BY <1>3, SameSockets DEF AppListener, Run, SetpageLooks, SetpageLeaves,
     SetpageAssigns, SetpageEnters, MessageBegins, MessageVisits, MessageSent,
     MessageEnds, store, fields
<1>. QED
  BY <1>1, <1>2, <1>3, HandlerSockets, ReaderWriterSockets, CloseSockets DEF Next

-----------------------------------------------------------------------------
(* IInv holds in every state: PagesInStep has an invariant of its own below. *)
THEOREM Inductive == Spec => []IInv
<1>1. Init => IInv
  <2>. SUFFICES ASSUME Init PROVE IInv
    OBVIOUS
  <2>1. SocketInv
    BY DEF Init, SocketInv, Fresh, Closes
  <2>2. CountIsClients
    BY FS_EmptySet DEF Init, CountIsClients
  <2>. QED BY <2>1, <2>2, InitType DEF IInv
<1>2. IInv /\ [Next]_vars => IInv'
  BY NextType, NextSockets, NextCounts DEF IInv
<1>. QED BY <1>1, <1>2, PTL DEF Spec

(* Every variable keeps its type.                                            *)
THEOREM TypeCorrect == Spec => []TypeOK
<1>1. IInv => TypeOK
  BY DEF IInv
<1>. QED BY <1>1, Inductive, PTL

(* clientCount is the number of sockets in the store, however many callers   *)
(* of Close remove the same socket (memory_store.go:18, 41).                 *)
THEOREM CountCorrect == Spec => []CountIsClients
<1>1. IInv => CountIsClients
  BY DEF IInv
<1>. QED BY <1>1, Inductive, PTL

(* A socket whose done is closed is in no user's map (sockets.go:70).        *)
THEOREM DoneCorrect == Spec => []DoneMeansForgotten
<1>1. IInv => DoneMeansForgotten
  BY DEF IInv, SocketInv, Closes, DoneMeansForgotten
<1>. QED BY <1>1, Inductive, PTL

-----------------------------------------------------------------------------
(* A socket that a step passes by stays as it is.                            *)
Same(t) ==
  /\ raced'[t] = raced[t] /\ closed'[t] = closed[t] /\ done'[t] = done[t]
  /\ Page'[t] = Page[t] /\ closing'[t] = closing[t]
  /\ \A p \in DOMAIN pages : t \in pages'[p] <=> t \in pages[p]

LEMMA SameOnPage ==
  ASSUME TypeOK, TypeOK', NEW t \in Sockets, OnPage(t), Same(t),
         Setters(t)' = Setters(t), \A c \in Setters(t) : command'[c] = command[c]
  PROVE  OnPage(t)'
<1>1. DOMAIN pages' = DOMAIN pages /\ Page[t] \in DOMAIN pages
  BY DEF TypeOK
<1>2. /\ Elsewhere(t)' <=> Elsewhere(t)
      /\ Moving(t)' <=> Moving(t)
      /\ Leaving(t)' <=> Leaving(t)
  BY <1>1 DEF Same, Elsewhere, Moving, Leaving
<1>. QED BY <1>1, <1>2 DEF OnPage, Same

(* A command changes the setters of no socket but its own, or of none.       *)
LEMMA SettersMove ==
  ASSUME TypeOK, TypeOK', NEW c \in Commands, NEW t \in Sockets,
         \A d \in Commands \ {c} : command'[d] = command[d],
         c \notin Setters(t), c \notin Setters(t)'
  PROVE  Setters(t)' = Setters(t) /\ \A d \in Setters(t) : command'[d] = command[d]
BY DEF Setters

LEMMA SettersStay ==
  ASSUME NEW t, UNCHANGED command
  PROVE  Setters(t)' = Setters(t) /\ \A d \in Setters(t) : command'[d] = command[d]
BY DEF Setters

(* What a command that is given does to the setters of a socket.             *)
Passed(t) ==
  /\ raced'[t] = raced[t]
  /\ Setters(t)' = Setters(t)
  /\ \A d \in Setters(t) : command'[d] = command[d]

Begins(s) ==
  /\ ~raced[s] /\ ~closed[s] /\ Setters(s) = {}
  /\ \E c \in Commands :
       /\ Setters(s)' = {c}
       /\ command'[c].at = "look" /\ command'[c].page \in Pages

LEMMA Given ==
  ASSUME TypeOK, TypeOK', NEW c \in Commands, NEW s \in Sockets, FromSocket(c, s)
  PROVE  /\ \A t \in Sockets \ {s} : Passed(t)
         /\ Passed(s) \/ raced'[s] \/ Begins(s)
<1>1. \A t \in Sockets : c \notin Setters(t)
  BY DEF FromSocket, StartsSetpage, StartsMessage, Starts, Setters, Setting
<1>2. \A d \in Commands \ {c} : command'[d] = command[d]
  BY DEF FromSocket, StartsSetpage, StartsMessage, Starts, TypeOK
<1>3. CASE StartsMessage(c)
  <2>1. command'[c].at = "message" /\ raced' = raced
    BY <1>3 DEF StartsMessage, Starts, Message, Idle, TypeOK
  <2>2. \A t \in Sockets : c \notin Setters(t)'
    BY <2>1 DEF Setters, Setting
  <2>. QED BY <1>1, <1>2, <2>1, <2>2, SettersMove DEF Passed
<1>4. CASE StartsSetpage(c, s)
  <2>1. PICK page \in Pages :
          Starts(c, [Idle EXCEPT !.at = "look", !.sock = s, !.page = page])
    BY <1>4 DEF StartsSetpage
  <2>2. command'[c].at = "look" /\ command'[c].sock = s /\ command'[c].page = page
    BY <2>1 DEF Starts, Idle, TypeOK
  <2>3. raced' = [raced EXCEPT ![s] = @ \/ closed[s] \/ Setters(s) # {}]
    BY <1>4 DEF StartsSetpage
  <2>4. \A t \in Sockets \ {s} : raced'[t] = raced[t] /\ c \notin Setters(t)'
    BY <2>2, <2>3 DEF Setters, TypeOK
  <2>5. ASSUME ~raced'[s] PROVE Begins(s)
    <3>1. ~raced[s] /\ ~closed[s] /\ Setters(s) = {}
      BY <2>3, <2>5, Zenon DEF TypeOK
    <3>2. Setters(s)' = {c}
      BY <1>2, <2>2, <3>1 DEF Setters, Setting
    <3>. QED BY <2>2, <3>1, <3>2 DEF Begins
  <2>. QED BY <1>1, <1>2, <2>4, <2>5, SettersMove DEF Passed
<1>. QED BY <1>3, <1>4 DEF FromSocket

(* A socket whose setpage command has just been given, if there is one.      *)
LEMMA Settled ==
  ASSUME NEW s \in Sockets, ~closed'[s], ~Leaving(s)',
         \A p \in DOMAIN pages' : s \in pages'[p] => p = Page'[s] /\ p # NoPage,
         Page'[s] # NoPage => s \in pages'[Page'[s]],
         Setters(s)' = {} \/ Begins(s)
  PROVE  OnPage(s)'
<1>1. \A c, d \in Setters(s)' : c = d
  BY DEF Begins
<1>2. \A c \in Setters(s)' : command'[c].at = "look" /\ command'[c].page # NoPage
  BY IncusAssumption DEF Begins
<1>3. ~Moving(s)'
  BY <1>2 DEF Moving
<1>. QED BY <1>1, <1>2, <1>3 DEF OnPage

-----------------------------------------------------------------------------
LEMMA SetUpPages ==
  ASSUME TypeOK, TypeOK', SocketInv, PageInv, NEW s \in Sockets, LongPollSetUp(s)
  PROVE  PageInv'
<1>1. /\ Setters(s) = {} /\ Page[s] = NoPage /\ ~closed[s] /\ ~done[s]
      /\ \A k \in Closer : closing[s][k] = "idle"
  BY DEF PageInv, NotYetOnPage, SocketInv, Fresh, LongPollSetUp
<1>2. UNCHANGED <<closing, closed, done>> /\ handler' = [handler EXCEPT ![s] = "waiting"]
  BY DEF LongPollSetUp
<1>3. /\ \A t \in Sockets \ {s} : Passed(t)
      /\ Passed(s) \/ raced'[s] \/ Begins(s)
  <2>1. CASE UNCHANGED <<command, raced>>
    BY <2>1 DEF Passed, Setters
  <2>. QED BY <2>1, Given DEF LongPollSetUp
<1>4. \/ UNCHANGED <<Page, pages>>
      \/ \E page \in Pages :
           /\ Page' = [Page EXCEPT ![s] = page]
           /\ pages' = [pages EXCEPT ![page] = @ \cup {s}]
  BY DEF LongPollSetUp, SetPage
<1>5. ASSUME NEW t \in Sockets \ {s} PROVE NotYetOnPage(t)' /\ OnPage(t)'
  <2>1. Page'[t] = Page[t] /\ \A p \in DOMAIN pages : t \in pages'[p] <=> t \in pages[p]
    BY <1>4, <1>5 DEF TypeOK
  <2>2. Same(t)
    BY <1>2, <1>3, <2>1 DEF Same, Passed
  <2>3. handler'[t] = handler[t]
    BY <1>2 DEF TypeOK
  <2>. QED BY <1>3, <2>1, <2>2, <2>3, SameOnPage DEF PageInv, Passed, NotYetOnPage
<1>6. NotYetOnPage(s)'
  BY <1>2 DEF NotYetOnPage, TypeOK
<1>7. OnPage(s)'
  <2>1. CASE raced'[s]
    BY <2>1 DEF OnPage
  <2>2. CASE ~raced'[s]
    <3>1. ~raced[s] /\ (Setters(s)' = {} \/ Begins(s))
      BY <1>1, <1>3, <2>2 DEF Passed, Begins
    <3>2. \A p \in DOMAIN pages : s \notin pages[p]
      BY <1>1, <3>1 DEF PageInv, OnPage
    <3>3. /\ \A p \in DOMAIN pages' : s \in pages'[p] => p = Page'[s] /\ p # NoPage
          /\ Page'[s] # NoPage => s \in pages'[Page'[s]]
      BY <1>1, <1>4, <3>2, IncusAssumption DEF TypeOK
    <3>4. ~closed'[s] /\ ~Leaving(s)'
      BY <1>1, <1>2 DEF Leaving
    <3>. QED BY <3>1, <3>3, <3>4, Settled
  <2>. QED BY <2>1, <2>2
<1>. QED BY <1>5, <1>6, <1>7 DEF PageInv

LEMMA GivenPages ==
  ASSUME TypeOK, TypeOK', SocketInv, PageInv, NEW s \in Sockets, ReadsCommand(s)
  PROVE  PageInv'
<1>1. UNCHANGED <<closing, closed, done, handler, Page, pages>>
  BY DEF ReadsCommand, store, fields
<1>2. /\ \A t \in Sockets \ {s} : Passed(t)
      /\ Passed(s) \/ raced'[s] \/ Begins(s)
  BY Given DEF ReadsCommand
<1>3. ASSUME NEW t \in Sockets, Passed(t) PROVE NotYetOnPage(t)' /\ OnPage(t)'
  BY <1>1, <1>3, SameOnPage DEF PageInv, Passed, NotYetOnPage, Same
<1>4. NotYetOnPage(s)'
  BY <1>1 DEF SocketInv, Fresh, ReadsCommand, NotYetOnPage
<1>5. CASE raced'[s]
  BY <1>2, <1>3, <1>4, <1>5 DEF PageInv, OnPage
<1>6. CASE Begins(s)
  <2>1. ~Moving(s) /\ ~closed[s] /\ ~raced[s]
    BY <1>6 DEF Begins, Moving
  <2>2. ~Leaving(s)'
    BY <1>1, <2>1 DEF SocketInv, Closes, Leaving
  <2>3. /\ \A p \in DOMAIN pages : s \in pages[p] => p = Page[s] /\ p # NoPage
        /\ Page[s] # NoPage => s \in pages[Page[s]]
    BY <2>1 DEF PageInv, OnPage
  <2>4. OnPage(s)'
    BY <1>1, <1>6, <2>1, <2>2, <2>3, Settled
  <2>. QED BY <1>2, <1>3, <1>4, <2>4 DEF PageInv
<1>. QED BY <1>2, <1>3, <1>5, <1>6 DEF PageInv

(* A step of the goroutines that may start a call of Close, and no more.     *)
LEMMA QuietPages ==
  ASSUME TypeOK, TypeOK', PageInv, NEW s \in Sockets, NEW k \in Closer,
         UNCHANGED <<command, raced, closed, done, Page, pages>>,
         closing' = closing \/ closing' = [closing EXCEPT ![s][k] = "check"],
         \A t \in Sockets :
           handler'[t] \in {"new", "paging"} => handler[t] \in {"new", "paging"}
  PROVE  PageInv'
<1>. SUFFICES ASSUME NEW t \in Sockets PROVE NotYetOnPage(t)' /\ OnPage(t)'
  BY DEF PageInv
<1>1. Leaving(t)' => Leaving(t)
  <2>1. CASE closing' = closing
    BY <2>1 DEF Leaving
  <2>2. CASE closing' = [closing EXCEPT ![s][k] = "check"]
    <3>1. closing \in [Sockets -> [Closer -> CloseStep]]
      BY DEF TypeOK
    <3>2. \A j \in Closer : closing'[t][j] = closing[t][j] \/ closing'[t][j] = "check"
      BY <2>2, <3>1
    <3>. QED BY <3>2 DEF Leaving
  <2>. QED BY <2>1, <2>2
<1>2. /\ Setters(t)' = Setters(t)
      /\ Moving(t)' <=> Moving(t)
      /\ Elsewhere(t)' <=> Elsewhere(t)
  BY DEF Setters, Moving, Elsewhere
<1>. QED BY <1>1, <1>2 DEF PageInv, NotYetOnPage, OnPage

LEMMA HandlerPages ==
  ASSUME TypeOK, TypeOK', SocketInv, PageInv, NEW s \in Sockets, Handler(s)
  PROVE  PageInv'
<1>. USE DEF TypeOK, fields, store
<1>0. {"timeout", "reader", "writer"} \subseteq Closer
  BY DEF Closer
<1>1. CASE AuthenticateFails(s)
  BY <1>0, <1>1, QuietPages DEF AuthenticateFails
<1>2. CASE Authenticate(s)
  <2>1. \A t \in Sockets :
          handler'[t] \in {"new", "paging"} => handler[t] \in {"new", "paging"}
    BY <1>2 DEF Authenticate
  <2>. QED BY <1>0, <1>2, <2>1, QuietPages DEF Authenticate
<1>3. CASE LongPollSetUp(s)
  BY <1>3, SetUpPages
<1>4. CASE TimeOver(s)
  BY <1>0, <1>4, QuietPages DEF TimeOver, StartsClose
<1>5. CASE HandlerReturns(s)
  BY <1>0, <1>5, QuietPages DEF HandlerReturns
<1>. QED BY <1>1, <1>2, <1>3, <1>4, <1>5 DEF Handler

LEMMA ReaderWriterPages ==
  ASSUME TypeOK, TypeOK', SocketInv, PageInv, NEW s \in Sockets,
         ReadsCommand(s) \/ ReadFails(s) \/ Writes(s) \/ WriterReturns(s)
  PROVE  PageInv'
<1>0. {"timeout", "reader", "writer"} \subseteq Closer
  BY DEF Closer
<1>1. CASE ReadsCommand(s)
  BY <1>1, GivenPages
<1>2. CASE ReadFails(s)
  BY <1>0, <1>2, QuietPages DEF ReadFails, StartsClose, fields, store
<1>3. CASE Writes(s)
  <2>1. closing' = closing \/ closing' = [closing EXCEPT ![s]["writer"] = "check"]
    BY <1>3 DEF Writes, StartsClose
  <2>. QED BY <1>0, <1>3, <2>1, QuietPages DEF Writes, store
<1>4. CASE WriterReturns(s)
  BY <1>0, <1>4, QuietPages DEF WriterReturns, fields, store
<1>. QED BY <1>1, <1>2, <1>3, <1>4

-----------------------------------------------------------------------------
(* Close: the steps of one socket, and every other passed by.                *)
LEMMA ClosePasses ==
  ASSUME TypeOK, TypeOK', PageInv, NEW s \in Sockets, NEW t \in Sockets \ {s},
         NEW k \in Closer, Close(s, k), ~GoesDown
  PROVE  NotYetOnPage(t)' /\ OnPage(t)'
<1>1. UNCHANGED <<handler, command>>
  BY DEF Close, CloseChecks, CloseMarks, CloseLeavesPage, CloseClears, CloseRemoves,
     CloseFinishes
<1>2. closing'[t] = closing[t]
  BY DEF Close, CloseChecks, CloseMarks, CloseLeavesPage, CloseClears, CloseRemoves,
     CloseFinishes, Goes, TypeOK
<1>3. raced'[t] = raced[t] /\ closed'[t] = closed[t] /\ done'[t] = done[t]
  BY DEF Close, CloseChecks, CloseMarks, CloseLeavesPage, CloseClears, CloseRemoves,
     CloseFinishes, TypeOK, fields
<1>4. Page'[t] = Page[t] /\ \A p \in DOMAIN pages : t \in pages'[p] <=> t \in pages[p]
  BY DEF Close, CloseChecks, CloseMarks, CloseLeavesPage, CloseClears, CloseRemoves,
     CloseFinishes, TypeOK, fields, store, UnsetPage
<1>5. Same(t)
  BY <1>2, <1>3, <1>4 DEF Same
<1>. QED
  BY <1>1, <1>4, <1>5, SettersStay, SameOnPage DEF PageInv, NotYetOnPage

LEMMA DownPages == ASSUME GoesDown PROVE PageInv'
<1>1. \A s \in Sockets : Setters(s)' = {}
  BY DEF GoesDown, Setters, Setting, Over, Idle
<1>2. \A s \in Sockets : Page'[s] = NoPage /\ \A p \in DOMAIN pages' : s \notin pages'[p]
  BY DEF GoesDown
<1>. QED
  BY <1>1, <1>2 DEF PageInv, NotYetOnPage, OnPage, Moving, Elsewhere

LEMMA ClosePages ==
  ASSUME TypeOK, TypeOK', SocketInv, PageInv, NEW s \in Sockets, NEW k \in Closer,
         Close(s, k), ~GoesDown
  PROVE  PageInv'
<1>. SUFFICES NotYetOnPage(s)' /\ OnPage(s)'
  BY ClosePasses DEF PageInv
<1>. USE DEF At, Goes
<1>1. UNCHANGED <<handler, command>> /\ closing[s][k] # "idle"
  BY DEF Close, CloseChecks, CloseMarks, CloseLeavesPage, CloseClears, CloseRemoves,
     CloseFinishes
<1>2. NotYetOnPage(s)'
  BY <1>1 DEF SocketInv, Fresh, NotYetOnPage
<1>3. Setters(s)' = Setters(s) /\ (Moving(s)' <=> Moving(s))
  BY <1>1 DEF Setters, Moving
<1>4. ASSUME ~raced[s]
      PROVE  /\ \A c, d \in Setters(s) : c = d
             /\ closed[s] => Setters(s) = {}
             /\ \A p \in DOMAIN pages : s \in pages[p] => p = Page[s] /\ p # NoPage
             /\ Moving(s) \/ Leaving(s) => Elsewhere(s)
             /\ ~closed[s] /\ ~Moving(s) /\ Page[s] # NoPage => s \in pages[Page[s]]
             /\ \A c \in Setters(s) : command[c].page # NoPage
             /\ \A c \in Setters(s) : command[c].at = "enter" => Page[s] # NoPage
  BY <1>4 DEF PageInv, OnPage
<1>5. closing[s][k] \in {"unset", "clear", "remove", "done"} => closed[s]
  BY DEF SocketInv, Closes
<1>6. CASE CloseChecks(s, k)
  <2>1. Leaving(s)' => Leaving(s)
    BY <1>6 DEF CloseChecks, Leaving, TypeOK, fields
  <2>. QED
    BY <1>2, <1>3, <1>4, <1>6, <2>1 DEF CloseChecks, OnPage, Elsewhere, fields, store
<1>7. CASE CloseMarks(s, k)
  <2>1. ~raced'[s] => ~raced[s] /\ Setters(s) = {}
    BY <1>7, Zenon DEF CloseMarks, TypeOK
  <2>2. closed'[s] /\ UNCHANGED <<Page, pages, done>>
    BY <1>7 DEF CloseMarks, TypeOK, store
  <2>3. Leaving(s)' => Leaving(s) \/ Page[s] = NoPage
    BY <1>7 DEF CloseMarks, Leaving, TypeOK
  <2>4. ~raced[s] /\ Page[s] = NoPage => Elsewhere(s)
    BY <1>4 DEF Elsewhere
  <2>5. Setters(s) = {} => ~Moving(s)
    BY DEF Moving
  <2>. QED
    BY <1>1, <1>2, <1>3, <1>4, <2>1, <2>2, <2>3, <2>4, <2>5 DEF OnPage, Elsewhere
<1>8. CASE CloseLeavesPage(s, k)
  <2>1. closed[s] /\ UNCHANGED <<Page, raced, done, closed>> /\ closing[s][k] = "unset"
    BY <1>5, <1>8 DEF CloseLeavesPage, fields
  <2>2. pages' = [pages EXCEPT ![Page[s]] = @ \ {s}]
    BY <1>8 DEF CloseLeavesPage, UnsetPage
  <2>3. ~raced[s] => Elsewhere(s)'
    BY <1>4, <2>2 DEF Elsewhere, TypeOK
  <2>. QED
    BY <1>1, <1>2, <1>3, <1>4, <2>1, <2>3 DEF OnPage, Elsewhere, Moving
<1>9. CASE CloseClears(s, k)
  <2>1. closed[s] /\ UNCHANGED <<pages, raced, done, closed>>
    BY <1>5, <1>9 DEF CloseClears, store
  <2>2. Leaving(s)
    BY <1>9 DEF CloseClears, Leaving
  <2>3. ~raced[s] => Elsewhere(s) /\ Elsewhere(s)'
    BY <1>4, <2>1, <2>2 DEF Elsewhere
  <2>. QED
    BY <1>1, <1>2, <1>3, <1>4, <2>1, <2>3 DEF OnPage, Elsewhere, Moving
<1>10. CASE CloseRemoves(s, k) \/ CloseFinishes(s, k)
  <2>1. closed[s] /\ UNCHANGED <<Page, pages, raced, closed>>
    BY <1>5, <1>10 DEF CloseRemoves, CloseFinishes, store, fields
  <2>2. Leaving(s)
    BY <1>10 DEF CloseRemoves, CloseFinishes, Leaving
  <2>. QED
    BY <1>1, <1>2, <1>3, <1>4, <2>1, <2>2 DEF OnPage, Elsewhere, Moving
<1>. QED BY <1>6, <1>7, <1>8, <1>9, <1>10 DEF Close

-----------------------------------------------------------------------------
(* The commands.                                                             *)

(* A message is never a setter, and changes no page.                         *)
LEMMA MessagePages ==
  ASSUME TypeOK, TypeOK', PageInv, NEW c \in Commands,
         UNCHANGED <<handler, closing, raced, closed, done, Page, pages>>,
         \A d \in Commands \ {c} : command'[d] = command[d],
         command[c].at \notin Setting, command'[c].at \notin Setting
  PROVE  PageInv'
<1>1. \A t \in Sockets : c \notin Setters(t) /\ c \notin Setters(t)'
  BY DEF Setters
<1>. QED BY <1>1, SettersMove, SameOnPage DEF PageInv, NotYetOnPage, Same

(* A step of setpage by c, of the socket s.                                  *)
LEMMA SetpagePages ==
  ASSUME TypeOK, TypeOK', SocketInv, PageInv,
         NEW c \in Commands, NEW s \in Sockets, command[c].sock = s,
         SetpageLooks(c) \/ SetpageLeaves(c) \/ SetpageAssigns(c) \/ SetpageEnters(c)
  PROVE  PageInv'
<1>. USE DEF CommandAt
<1>1. /\ c \in Setters(s)
      /\ UNCHANGED <<handler, closing, raced, closed, done>>
      /\ \A d \in Commands \ {c} : command'[d] = command[d]
  BY DEF SetpageLooks, SetpageLeaves, SetpageAssigns, SetpageEnters, CommandGoes,
     CommandEnds, Setters, Setting, TypeOK, CommandState, fields
<1>2. /\ command'[c].at \in Setting
           => command'[c].sock = s /\ command'[c].page = command[c].page
      /\ command[c].at = "enter" => command'[c].at \notin Setting
  <2>1. CASE command[c].at = "enter"
    BY <2>1 DEF SetpageLooks, SetpageLeaves, SetpageAssigns, SetpageEnters,
       CommandEnds, Setting, TypeOK, Over, Idle
  <2>2. CASE command[c].at # "enter"
    <3>1. \E at \in Setting : command' = [command EXCEPT ![c].at = at]
      BY <2>2 DEF SetpageLooks, SetpageLeaves, SetpageAssigns, SetpageEnters,
         CommandGoes, Setting
    <3>2. command[c] \in CommandState
      BY DEF TypeOK
    <3>. QED BY <2>2, <3>1, <3>2 DEF TypeOK, CommandState
  <2>. QED BY <2>1, <2>2
<1>3. ASSUME NEW t \in Sockets \ {s} PROVE NotYetOnPage(t)' /\ OnPage(t)'
  <2>1. c \notin Setters(t) /\ c \notin Setters(t)'
    BY <1>2 DEF Setters
  <2>2. Page'[t] = Page[t] /\ \A p \in DOMAIN pages : t \in pages'[p] <=> t \in pages[p]
    BY <1>1 DEF SetpageLooks, SetpageLeaves, SetpageAssigns, SetpageEnters, store,
       fields, UnsetPage, SetPage, TypeOK
  <2>3. Same(t)
    BY <1>1, <2>2 DEF Same
  <2>. QED
    BY <1>1, <2>1, <2>2, <2>3, SettersMove, SameOnPage DEF PageInv, NotYetOnPage
<1>4. handler[s] \notin {"new", "paging"}
  BY <1>1 DEF PageInv, NotYetOnPage
<1>5. NotYetOnPage(s)'
  BY <1>1, <1>4 DEF NotYetOnPage
<1>6. ASSUME ~raced[s] PROVE OnPage(s)'
  <2>1. /\ Setters(s) = {c} /\ ~closed[s]
        /\ \A p \in DOMAIN pages : s \in pages[p] => p = Page[s] /\ p # NoPage
        /\ command[c].at \in {"assign", "enter"} => Elsewhere(s)
        /\ command[c].at \notin {"assign", "enter"} /\ Page[s] # NoPage
             => s \in pages[Page[s]]
        /\ command[c].page # NoPage
        /\ command[c].at = "enter" => Page[s] # NoPage
    BY <1>1, <1>6 DEF PageInv, OnPage, Moving
  <2>2. ~Leaving(s)'
    BY <1>1, <2>1 DEF SocketInv, Closes, Leaving
  <2>3. Setters(s)' = IF command'[c].at \in Setting THEN {c} ELSE {}
    BY <1>1, <1>2, <2>1 DEF Setters
  <2>4. CASE SetpageLooks(c)
    <3>1. command'[c].at = (IF Page[s] # NoPage THEN "unset" ELSE "assign")
          /\ UNCHANGED <<Page, pages>> /\ command[c].at = "look"
      BY <2>4 DEF SetpageLooks, CommandGoes, TypeOK, store, fields
    <3>2. Page[s] = NoPage => Elsewhere(s)'
      BY <2>1, <3>1 DEF Elsewhere
    <3>. QED
      BY <1>1, <1>2, <2>1, <2>2, <2>3, <3>1, <3>2 DEF OnPage, Moving, Setting
  <2>5. CASE SetpageLeaves(c)
    <3>1. command'[c].at = "assign" /\ pages' = [pages EXCEPT ![Page[s]] = @ \ {s}]
          /\ Page' = Page
      BY <2>5 DEF SetpageLeaves, CommandGoes, TypeOK, fields, UnsetPage
    <3>2. Elsewhere(s)'
      BY <2>1, <3>1 DEF Elsewhere, TypeOK
    <3>. QED
      BY <1>1, <1>2, <2>1, <2>2, <2>3, <3>1, <3>2 DEF OnPage, Moving, Setting, Elsewhere
  <2>6. CASE SetpageAssigns(c)
    <3>1. command'[c].at = "enter" /\ pages' = pages /\ Page'[s] = command[c].page
          /\ command[c].at = "assign"
      BY <1>1, <2>6 DEF SetpageAssigns, CommandGoes, TypeOK, store
    <3>2. Elsewhere(s)'
      BY <2>1, <3>1 DEF Elsewhere
    <3>. QED
      BY <1>1, <1>2, <2>1, <2>2, <2>3, <3>1, <3>2 DEF OnPage, Moving, Setting, Elsewhere
  <2>7. CASE SetpageEnters(c)
    <3>1. /\ pages' = [pages EXCEPT ![Page[s]] = @ \cup {s}] /\ Page' = Page
          /\ command[c].at = "enter"
      BY <2>7 DEF SetpageEnters, fields, SetPage
    <3>2. Setters(s)' = {}
      BY <1>2, <2>3, <3>1
    <3>3. /\ \A p \in DOMAIN pages' : s \in pages'[p] => p = Page'[s] /\ p # NoPage
          /\ Page'[s] # NoPage => s \in pages'[Page'[s]]
      BY <1>1, <2>1, <3>1 DEF Elsewhere, TypeOK
    <3>4. ~closed'[s]
      BY <1>1, <2>1
    <3>. QED BY <1>1, <2>2, <3>2, <3>3, <3>4, Settled
  <2>. QED BY <2>4, <2>5, <2>6, <2>7
<1>7. CASE raced[s]
  <2>1. raced'[s]
    BY <1>1, <1>7
  <2>. QED BY <1>1, <1>3, <1>5, <2>1, Zenon DEF PageInv, OnPage
<1>8. CASE ~raced[s]
  BY <1>1, <1>3, <1>5, <1>6, <1>8 DEF PageInv
<1>. QED BY <1>7, <1>8

LEMMA NextPages == TypeOK /\ TypeOK' /\ SocketInv /\ PageInv /\ [Next]_vars => PageInv'
<1>. SUFFICES ASSUME TypeOK, TypeOK', SocketInv, PageInv, [Next]_vars PROVE PageInv'
  OBVIOUS
<1>1. CASE UNCHANGED vars
  BY <1>1, SettersStay, SameOnPage DEF vars, goroutines, store, fields, PageInv,
     NotYetOnPage, Same
<1>2. CASE GoesDown
  BY <1>2, DownPages
<1>3. ASSUME NEW c \in Commands, AppListener(c) PROVE PageInv'
  <2>1. command[c].at = "idle" /\ command'[c].at = "message"
        /\ \A d \in Commands \ {c} : command'[d] = command[d]
    BY <1>3 DEF AppListener, Starts, Message, Idle, TypeOK
  <2>. QED BY <1>3, <2>1, MessagePages DEF AppListener, Setting, store, fields
<1>4. ASSUME NEW c \in Commands, Run(c) PROVE PageInv'
  <2>1. CASE MessageBegins(c) \/ MessageVisits(c) \/ MessageSent(c) \/ MessageEnds(c)
    <3>1. /\ command[c].at \notin Setting
          /\ \A d \in Commands \ {c} : command'[d] = command[d]
          /\ UNCHANGED <<handler, closing, raced, closed, done, Page, pages>>
      BY <2>1 DEF MessageBegins, MessageVisits, MessageSent, MessageEnds, CommandAt,
         CommandGoes, CommandEnds, TypeOK, Setting, store, fields
    <3>2. command'[c].at \in {"range", "send", "ended"}
      <4>1. command[c] \in CommandState
        BY DEF TypeOK
      <4>2. CASE MessageBegins(c) \/ MessageSent(c)
        BY <4>1, <4>2 DEF MessageBegins, MessageSent, TypeOK, CommandState
      <4>3. CASE MessageVisits(c)
        BY <4>1, <4>3 DEF MessageVisits, TypeOK, CommandState
      <4>4. CASE MessageEnds(c)
        BY <4>4 DEF MessageEnds, CommandEnds, TypeOK, Over, Idle
      <4>. QED BY <2>1, <4>2, <4>3, <4>4
    <3>3. command'[c].at \notin Setting
      BY <3>2 DEF Setting
    <3>. QED BY <3>1, <3>3, MessagePages
  <2>2. command[c].at \in Setting => command[c].sock \in Sockets
    BY DEF TypeOK, CommandState
  <2>3. CASE SetpageLooks(c) \/ SetpageLeaves(c) \/ SetpageAssigns(c) \/ SetpageEnters(c)
    <3>1. command[c].at \in Setting
      BY <2>3 DEF SetpageLooks, SetpageLeaves, SetpageAssigns, SetpageEnters,
         CommandAt, Setting
    <3>. QED BY <2>2, <2>3, <3>1, SetpagePages
  <2>. QED BY <1>4, <2>1, <2>3 DEF Run
<1>. QED
  BY <1>1, <1>2, <1>3, <1>4, HandlerPages, ReaderWriterPages, ClosePages
  DEF Next, MapFault

(* A socket is on the page it says and on no other, and on none once it is   *)
(* done, unless changes of its page overlapped (sockets.go:65,               *)
(* message.go:43).                                                           *)
THEOREM PagesCorrect == Spec => []PagesInStep
<1>1. Init => PageInv
  BY DEF Init, PageInv, NotYetOnPage, OnPage, Setters, Setting, Moving, Leaving,
     Elsewhere, Idle, Over
<1>2. IInv /\ IInv' /\ PageInv /\ [Next]_vars => PageInv'
  BY NextPages DEF IInv
<1>3. IInv /\ PageInv => PagesInStep
  BY DEF IInv, TypeOK, PageInv, OnPage, PagesInStep, Leaving, Elsewhere, Moving
<1>. QED BY <1>1, <1>2, <1>3, Inductive, PTL DEF Spec
===============================================================================
