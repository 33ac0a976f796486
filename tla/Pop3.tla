--------------------------------- MODULE Pop3 ---------------------------------
(***************************************************************************)
(* POP3 sessions (pop3d/client.go, and handleClient of pop3d/server.go)    *)
(* over the collection of messages in MongoDB (data/storage.go and         *)
(* data/mongostore.go), which savers add to and the web mail deletes from  *)
(* while sessions are open.  A session keeps no list of its own: each      *)
(* command fetches the messages of the mailbox again and numbers them      *)
(* anew.  A panic in any session ends the process.                         *)
(*                                                                         *)
(* A line is abstracted to the word it begins with and the argument the    *)
(* command takes; a message to its Id, the mailboxes it is for, and its    *)
(* place among all that were inserted.                                     *)
(***************************************************************************)
EXTENDS Integers, FiniteSets

CONSTANTS
  Sessions,
  Users,        (* the emails in the collection Users                        *)
  Strangers,    (* other names                                               *)
  MaxSaves,     (* bound: how many messages are inserted                     *)
  MaxNumber,    (* bound: the largest number a RETR is given                 *)
  Resaves,      (* a saver may insert a message again after a reconnection   *)
  FetchMayFail, (* queries to MongoDB may fail                               *)
  NoName

ASSUME Pop3Assumption ==
  /\ NoName \notin Users \cup Strangers
  /\ {MaxSaves, MaxNumber} \subseteq Nat
  /\ {Resaves, FetchMayFail} \subseteq BOOLEAN

VARIABLES
  mails,     (* the collection Messages: a query returns it by place         *)
  inserted,  (* how many inserts there have been                             *)
  last,      (* the message a saver had last; Ids count them                 *)
  resaved,   (* the Ids inserted twice (a history variable)                  *)
  deleted,   (* the Ids the web mail has deleted (a history variable)        *)
  at,        (* where the goroutine of a session is                          *)
  state,     (* c.state                                                      *)
  email,     (* c.email                                                      *)
  reply,     (* the last command and whether it was answered with +OK        *)
  told,      (* what LIST or UIDL last told the client                       *)
  shown,     (* what RETR last showed the client                             *)
  owner,     (* the mailbox whose password was given (a history variable)    *)
  crash      (* what has made the process panic, or "no"                     *)

collection == <<mails, inserted, last, resaved, deleted>>
session == <<at, state, email, reply, told, shown, owner>>
vars == <<collection, session, crash>>

Id == 1..MaxSaves
Mail == [place : Nat, id : Id, to : SUBSET Users]
NoMail == [place |-> 0, id |-> 0, to |-> {}]
Numbered == [number : Nat, mail : Mail]

Words == {"USER", "PASS", "STAT", "LIST", "UIDL", "RETR", "DELE", "CAPA",
          "NOOP"}

TypeOK ==
  /\ mails \in SUBSET Mail /\ inserted \in Nat
  /\ last \in Mail \cup {NoMail}
  /\ resaved \subseteq Id /\ deleted \subseteq Id
  /\ at \in [Sessions -> {"greet", "command", "quit", "closed"}]
  /\ state \in [Sessions -> {"UNAUTHORIZED", "TRANSACTION"}]
  /\ email \in [Sessions -> Users \cup Strangers \cup {NoName}]
  /\ reply \in [Sessions -> [cmd : Words \cup {"greet"}, ok : BOOLEAN]]
  /\ told \in [Sessions -> SUBSET Numbered]
  /\ shown \in [Sessions -> [number : Nat, mail : Mail \cup {NoMail}]]
  /\ owner \in [Sessions -> Users \cup {NoName}]
  /\ crash \in {"no", "short word", "query", "told number", "other number"}

(* handleClient's &Client{state: 1, ...}: 1 is TRANSACTION.                  *)
Init ==
  /\ mails = {} /\ inserted = 0 /\ last = NoMail /\ resaved = {} /\ deleted = {}
  /\ at = [s \in Sessions |-> "greet"]
  /\ state = [s \in Sessions |-> "TRANSACTION"]
  /\ email = [s \in Sessions |-> NoName]
  /\ reply = [s \in Sessions |-> [cmd |-> "greet", ok |-> TRUE]]
  /\ told = [s \in Sessions |-> {}]
  /\ shown = [s \in Sessions |-> [number |-> 0, mail |-> NoMail]]
  /\ owner = [s \in Sessions |-> NoName]
  /\ crash = "no"

-----------------------------------------------------------------------------
(* The data store.  A definition whose name has a suffix after an underscore *)
(* is a faulty variant of the one that follows it, for checking that the     *)
(* properties notice the fault.                                              *)

MailOf(who) == {m \in mails : who \in m.to}

Fetch_NewestFirst(who) ==
  {[number |-> Cardinality({n \in MailOf(who) : n.place >= m.place}),
    mail |-> m] : m \in MailOf(who)}

(* The messages of a mailbox, numbered in the order they were inserted.      *)
Fetch(who) ==
  {[number |-> Cardinality({n \in MailOf(who) : n.place <= m.place}),
    mail |-> m] : m \in MailOf(who)}

(* Whether the queries of a command succeed.                                 *)
Answers == IF FetchMayFail THEN BOOLEAN ELSE {TRUE}

(* The query for one user: a name that is not found is an error, too.        *)
IsUserExists(name, answered) == answered /\ name \in Users

(* An error means yes.                                                       *)
CheckUserExists(name, answered) ==
  LET err == ~IsUserExists(name, answered)
  IN err \/ name \in Users

Login(name, right, answered) == answered /\ name \in Users /\ right

(* An error means no.                                                        *)
LoginUser(name, right, answered) == Login(name, right, answered)

(* ListMails: the heads in the order of Fetch, none if the query fails.      *)
ListMails(who, answered) == IF answered THEN Fetch(who) ELSE {}

(* The element id - 1 of messages, which Go counts from 0.                   *)
GetMail_FromZero(who, i) == {entry \in Fetch(who) : entry.number = i + 1}

GetMail(who, i) == {entry \in Fetch(who) : entry.number = i}

-----------------------------------------------------------------------------
(* The session s.                                                            *)

Alive(s) == crash = "no" /\ at[s] = "command"

Say(s, cmd, ok) == reply' = [reply EXCEPT ![s] = [cmd |-> cmd, ok |-> ok]]

greet(s) ==
  /\ crash = "no"
  /\ at[s] = "greet"
  /\ at' = [at EXCEPT ![s] = "command"]
  /\ state' = [state EXCEPT ![s] = "UNAUTHORIZED"]
  /\ UNCHANGED <<collection, email, reply, told, shown, owner, crash>>

(* parseCmd takes the first four letters of a word that has fewer, such as   *)
(* TOP or the empty word of an empty line: that panics.                      *)
shortWord(s) ==
  /\ Alive(s)
  /\ crash' = "short word"
  /\ UNCHANGED <<collection, session>>

user_Anytime(s) ==
  /\ Alive(s)
  /\ \E name \in Users \cup Strangers, answered \in Answers :
       /\ email' = [email EXCEPT ![s] = name]
       /\ Say(s, "USER", CheckUserExists(name, answered))
  /\ UNCHANGED <<collection, at, state, told, shown, owner, crash>>

user(s) ==
  /\ Alive(s)
  /\ state[s] = "UNAUTHORIZED"
  /\ \E name \in Users \cup Strangers, answered \in Answers :
       /\ email' = [email EXCEPT ![s] = name]
       /\ Say(s, "USER", CheckUserExists(name, answered))
  /\ UNCHANGED <<collection, at, state, told, shown, owner, crash>>

pass(s) ==
  /\ Alive(s)
  /\ state[s] = "UNAUTHORIZED"
  /\ \E right \in BOOLEAN, answered \in Answers :
       LET ok == LoginUser(email[s], right, answered)
       IN /\ Say(s, "PASS", ok)
          /\ state' = IF ok THEN [state EXCEPT ![s] = "TRANSACTION"] ELSE state
          /\ owner' = IF ok THEN [owner EXCEPT ![s] = email[s]] ELSE owner
  /\ UNCHANGED <<collection, at, email, told, shown, crash>>

stat(s) ==
  /\ Alive(s)
  /\ state[s] = "TRANSACTION"
  /\ Say(s, "STAT", TRUE)
  /\ UNCHANGED <<collection, at, state, email, told, shown, owner, crash>>

list(s) ==
  /\ Alive(s)
  /\ state[s] = "TRANSACTION"
  /\ \E answered \in Answers :
       told' = [told EXCEPT ![s] = ListMails(email[s], answered)]
  /\ \E cmd \in {"LIST", "UIDL"} : Say(s, cmd, TRUE)
  /\ UNCHANGED <<collection, at, state, email, shown, owner, crash>>

(* GetMail fails: the reply begins with +OK, and the body of the empty       *)
(* Message{}, whose Content is nil, panics.                                  *)
retrFails(s) ==
  /\ Alive(s)
  /\ state[s] = "TRANSACTION"
  /\ FetchMayFail
  /\ Say(s, "RETR", TRUE)
  /\ crash' = "query"
  /\ UNCHANGED <<collection, at, state, email, told, shown, owner>>

(* A number out of range, 0 for what is no number, panics.                   *)
retr(s, i) ==
  /\ Alive(s)
  /\ state[s] = "TRANSACTION"
  /\ \/ /\ \E entry \in GetMail(email[s], i) :
             shown' = [shown EXCEPT ![s] = [number |-> i, mail |-> entry.mail]]
        /\ Say(s, "RETR", TRUE)
        /\ crash' = crash
     \/ /\ GetMail(email[s], i) = {}
        /\ crash' = IF \E entry \in told[s] : entry.number = i
                    THEN "told number" ELSE "other number"
        /\ UNCHANGED <<shown, reply>>
  /\ UNCHANGED <<collection, at, state, email, told, owner>>

(* The number is not even parsed, and nothing is deleted.                    *)
DELE(s) ==
  /\ Alive(s)
  /\ state[s] = "TRANSACTION"
  /\ Say(s, "DELE", TRUE)
  /\ UNCHANGED <<collection, at, state, email, told, shown, owner, crash>>

(* CAPA's lines come without the +OK.                                        *)
capa(s) ==
  /\ Alive(s)
  /\ Say(s, "CAPA", FALSE)
  /\ UNCHANGED <<collection, at, state, email, told, shown, owner, crash>>

(* Any other word, or one of these in another state.                         *)
notImplemented(s) ==
  /\ Alive(s)
  /\ Say(s, "NOOP", FALSE)
  /\ UNCHANGED <<collection, at, state, email, told, shown, owner, crash>>

quit(s) ==
  /\ Alive(s)
  /\ at' = [at EXCEPT ![s] = "quit"]
  /\ UNCHANGED <<collection, state, email, reply, told, shown, owner, crash>>

(* The connection ends, fails or is idle for too long.                       *)
readLineFails(s) ==
  /\ Alive(s)
  /\ at' = [at EXCEPT ![s] = "closed"]
  /\ UNCHANGED <<collection, state, email, reply, told, shown, owner, crash>>

handle(s) ==
  \/ shortWord(s) \/ user(s) \/ pass(s) \/ stat(s) \/ list(s) \/ retrFails(s)
  \/ DELE(s) \/ capa(s) \/ notImplemented(s) \/ quit(s)
  \/ \E i \in 0..MaxNumber : retr(s, i)

-----------------------------------------------------------------------------
(* The rest of the process.                                                  *)

Inserts(m) ==
  /\ inserted' = inserted + 1
  /\ mails' = mails \cup {[m EXCEPT !.place = inserted + 1]}

Save_SameId(to) ==
  /\ crash = "no"
  /\ last.id < MaxSaves
  /\ last' = [place |-> 0, id |-> last.id + 1, to |-> to]
  /\ Inserts([last' EXCEPT !.id = 1])
  /\ UNCHANGED <<resaved, deleted, session, crash>>

(* A saver inserts a message that ParseSMTPMessage has given a new Id.  One  *)
(* message sent to two mailboxes is saved twice, each time for both.         *)
Save(to) ==
  /\ crash = "no"
  /\ last.id < MaxSaves
  /\ last' = [place |-> 0, id |-> last.id + 1, to |-> to]
  /\ Inserts(last')
  /\ UNCHANGED <<resaved, deleted, session, crash>>

(* A saver has reconnected after an insert that had succeeded.               *)
Resave ==
  /\ crash = "no"
  /\ Resaves
  /\ last # NoMail /\ last.id \notin resaved
  /\ Inserts(last)
  /\ resaved' = resaved \cup {last.id}
  /\ UNCHANGED <<last, deleted, session, crash>>

(* The web mail's MailDelete, by any user who is logged in there.            *)
DeleteOne(id) ==
  /\ crash = "no"
  /\ \E m \in mails : m.id = id
  /\ mails' = {m \in mails : m.id # id}
  /\ deleted' = deleted \cup {id}
  /\ UNCHANGED <<inserted, last, resaved, session, crash>>

Arriving == SUBSET Users \ {{}}

Next ==
  \/ \E s \in Sessions : greet(s) \/ handle(s) \/ readLineFails(s)
  \/ \E to \in Arriving : Save(to)
  \/ Resave
  \/ \E id \in Id : DeleteOne(id)

Spec == Init /\ [][Next]_vars

-----------------------------------------------------------------------------
(* Safety.                                                                   *)

(* Whatever a client is told or shown is mail of the mailbox it gave the     *)
(* password of, although email is what every command fetches by and USER     *)
(* sets it before any password (client.go:44, 56, 103).                      *)
OwnMailOnly ==
  \A s \in Sessions :
    /\ \A entry \in told[s] : owner[s] \in entry.mail.to
    /\ shown[s].mail # NoMail => owner[s] \in shown[s].mail.to

(* While nothing is deleted a number means what the client was told, though  *)
(* it is looked up in a list fetched anew: mail that arrives in the meantime *)
(* is numbered last (storage.go:151, 176, mongostore.go:168).                *)
NumbersMeanWhatWasTold ==
  [][\A s \in Sessions : \A entry \in told[s] :
       shown'[s] # shown[s] /\ deleted = {} /\ shown'[s].number = entry.number
         => shown'[s].mail = entry.mail]_vars

(* A client that retrieves only numbers it was told does not bring the       *)
(* process down by an index out of range, not even at the boundaries of the  *)
(* list, unless mail has been deleted since (storage.go:183).                *)
ToldNumbersAreSafe == crash = "told number" => deleted # {}

(* Two entries of a list have the same Uid only when a reconnection saved    *)
(* the message twice (message.go:94, storage.go:101, 164).                   *)
UidsDistinguish ==
  \A s \in Sessions : \A x, y \in told[s] :
    x # y /\ x.mail.id = y.mail.id => x.mail.id \in resaved

-----------------------------------------------------------------------------
(* What the repository says of POP3 and its code does not do.                *)

(* "-ERR never heard of mailbox name" (pop3d/client.go:51): USER is answered *)
(* with +OK for mailboxes only.                                              *)
UserIsKnown ==
  \A s \in Sessions :
    reply[s].cmd = "USER" /\ reply[s].ok => email[s] \in Users
=============================================================================
