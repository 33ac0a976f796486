-------------------------------- MODULE Webmail --------------------------------
(***************************************************************************)
(* The handlers of the web mail (webmail/handlers.go), each run by         *)
(* ServeHTTP (server.go) in a goroutine of its own between NewContext,     *)
(* which reads the session from the request's cookie, and Session.Save,    *)
(* which writes it back into the response.  A browser keeps one cookie for *)
(* all its tabs.  A query of the data store (data/mongostore.go) is a      *)
(* step.  Mail arrives at any time, from the savers, and goes, when        *)
(* somebody else deletes it.                                               *)
(*                                                                         *)
(* An account and a mail are numbers, in the order in which the data store *)
(* got them; a session is the number of an account, or 0.  Flash messages, *)
(* templates and the login counters of an account are left out.            *)
(***************************************************************************)
EXTENDS Pagination, Sequences, FiniteSets

CONSTANTS
  Browsers,
  Tabs,         (* bound: the requests a browser makes at the same time      *)
  Emails,
  Passwords,
  Limit,        (* of mails on a page: 25 in MailList                        *)
  MaxUsers,     (* bound                                                     *)
  MaxMails      (* bound                                                     *)

ASSUME WebmailAssumption ==
  /\ Emails # {} /\ Passwords # {}
  /\ Limit \in Nat \ {0}
  /\ {MaxUsers, MaxMails} \subseteq Nat

VARIABLES
  asks,         (* bound: the kinds of requests a tab makes in this history  *)
  users,        (* the collection Users                                      *)
  mails,        (* the collection Messages                                   *)
  unread,       (* the mails whose field unread is true                      *)
  arrived,      (* how many mails have come                                  *)
  cookie,       (* cookie[b]: the session in the browser's cookie            *)
  request,      (* request[b][t]: the request of a tab, while it runs        *)
  walk,         (* walk[b][t]: the lists a tab has gone through by Next      *)
  earned,       (* history: accounts a browser gave the password of          *)
  left          (* history: the browser has logged out, and nothing else was *)
                (* under way when it did or has tried to log in since        *)

store == <<users, mails, unread, arrived>>
browser == <<cookie, walk, earned, left>>
vars == <<asks, store, browser, request>>

Kinds == {"list", "view", "delete", "login", "logout", "register", "other"}

User == [email : Emails, password : Passwords, active : BOOLEAN,
         since : Nat]              (* how many accounts Register looked at   *)
Mail == 1..MaxMails

Request ==
  [at : {"idle", "query", "change", "respond"}, kind : Kinds \cup {"none"},
   session : Nat, page : Nat, follows : BOOLEAN, total : Nat,
   rows : SUBSET Nat, shown : BOOLEAN, intact : BOOLEAN,
   mail : Nat, form : User]

(* The list a walk began with, the last one, and the mails on all of them.   *)
Walk == [page : Nat, next : BOOLEAN, first : SUBSET Nat, seen : SUBSET Nat,
         intact : BOOLEAN]

AnyForm == [email |-> CHOOSE e \in Emails : TRUE,
            password |-> CHOOSE p \in Passwords : TRUE,
            active |-> TRUE, since |-> 0]
Idle == [at |-> "idle", kind |-> "none", session |-> 0,
         page |-> 0, follows |-> FALSE, total |-> 0,
         rows |-> {}, shown |-> FALSE, intact |-> TRUE,
         mail |-> 0, form |-> AnyForm]
NoWalk == [page |-> 0, next |-> FALSE, first |-> {}, seen |-> {}, intact |-> TRUE]

TypeOK ==
  /\ asks \in [Tabs -> SUBSET Kinds]
  /\ users \in Seq(User) /\ Len(users) \in 0..MaxUsers
  /\ arrived \in 0..MaxMails
  /\ mails \in SUBSET Mail /\ unread \in SUBSET mails
  /\ cookie \in [Browsers -> 0..Len(users)]
  /\ request \in [Browsers -> [Tabs -> Request]]
  /\ walk \in [Browsers -> [Tabs -> Walk]]
  /\ earned \in [Browsers -> SUBSET (1..Len(users))]
  /\ left \in [Browsers -> BOOLEAN]

(* Accounts and mail from before, and sessions from before.                  *)
Init ==
  /\ asks \in [Tabs -> SUBSET Kinds]
  /\ users \in {<<>>} \cup {<<u>> : u \in [email : Emails, password : Passwords,
                                           active : BOOLEAN, since : {0}]}
  /\ Len(users) <= MaxUsers
  /\ arrived \in 0..MaxMails
  /\ mails \in SUBSET (1..arrived)
  /\ unread = mails
  /\ cookie \in [Browsers -> 0..Len(users)]
  /\ request = [b \in Browsers |-> [t \in Tabs |-> Idle]]
  /\ walk = [b \in Browsers |-> [t \in Tabs |-> NoWalk]]
  /\ earned = [b \in Browsers |-> {cookie[b]} \ {0}]
  /\ left = [b \in Browsers |-> FALSE]

-----------------------------------------------------------------------------
(* The data store.                                                           *)

(* How many mails are as new as m or newer.                                  *)
Rank(m) == Cardinality({n \in mails : n >= m})

(* List: the newest mails first, start of them skipped.                      *)
List(start, limit) == {m \in mails : Rank(m) \in start + 1..start + limit}

Found(email) == {i \in 1..Len(users) : users[i].email = email}

(* A mail goes: the lists that have been read no longer fit the mailbox.     *)
Goes(m) ==
  /\ mails' = mails \ {m}
  /\ unread' = unread \ {m}

Broken(r) == [b \in Browsers |-> [t \in Tabs |-> [r[b][t] EXCEPT !.intact = FALSE]]]

(* A saver stores a message.                                                 *)
Arrive ==
  /\ arrived < MaxMails
  /\ arrived' = arrived + 1
  /\ mails' = mails \cup {arrived + 1}
  /\ unread' = unread \cup {arrived + 1}
  /\ UNCHANGED <<asks, users, request, browser>>

(* Another user deletes one: the web mail shows everybody all mail.          *)
DeletedElsewhere(m) ==
  /\ m \in mails
  /\ Goes(m)
  /\ request' = Broken(request) /\ walk' = Broken(walk)
  /\ UNCHANGED <<asks, users, arrived, cookie, earned, left>>

-----------------------------------------------------------------------------
(* Requests.  A definition whose name has a suffix after an underscore is a  *)
(* faulty variant of the one that follows it, for checking that the          *)
(* properties notice the fault.                                              *)

(* A browser sends a request with its cookie; NewContext finds the account,  *)
(* since accounts never go.                                                  *)
Sends(b, t, fields) ==
  /\ request[b][t].at = "idle"
  /\ fields.kind \in asks[t]
  /\ request' = [request EXCEPT ![b][t] =
                   [fields EXCEPT !.session = cookie[b]]]
  /\ UNCHANGED <<asks, store, cookie, walk, earned>>

New(kind) == [Idle EXCEPT !.kind = kind, !.at = "query"]

(* A link of a list, or an address that is typed in.                         *)
AsksList(b, t) ==
  /\ \/ \E page \in 0..MaxMails + 1 :
          Sends(b, t, [New("list") EXCEPT !.page = page])
     \/ /\ walk[b][t].next
        /\ Sends(b, t, [New("list") EXCEPT
                          !.page = walk[b][t].page + 1, !.follows = TRUE,
                          !.intact = walk[b][t].intact])
  /\ left' = left

AsksMail(b, t) ==
  /\ \E m \in 1..arrived, kind \in {"view", "delete"} :
       Sends(b, t, [New(kind) EXCEPT !.mail = m])
  /\ left' = left

AsksEntry(b, t) ==
  /\ \E kind \in {"login", "register"}, email \in Emails, password \in Passwords :
       Sends(b, t, [New(kind) EXCEPT
                      !.form = [email |-> email, password |-> password,
                                active |-> TRUE, since |-> 0]])
  /\ left' = [left EXCEPT ![b] = FALSE]

AsksOther(b, t) ==
  /\ \E kind \in {"logout", "other"} :
       Sends(b, t, [New(kind) EXCEPT !.at = "respond"])
  /\ left' = left

(* The handler goes on with r.                                               *)
Handles(b, t, r) ==
  /\ request' = [request EXCEPT ![b][t] = r]
  /\ UNCHANGED <<asks, cookie, left>>

At(b, t, kind, at) == request[b][t].kind = kind /\ request[b][t].at = at

(* "This page requires a login": LoginForm.                                  *)
NeedsLogin(b, t) ==
  /\ \E kind \in {"list", "view", "delete"} : At(b, t, kind, "query")
  /\ request[b][t].session = 0
  /\ Handles(b, t, [request[b][t] EXCEPT !.at = "respond"])
  /\ UNCHANGED <<store, walk, earned>>

(* MailList: Total, then List.  A page that is not there is not found.       *)
MailListTotals(b, t) ==
  /\ At(b, t, "list", "query")
  /\ request[b][t].session # 0
  /\ LET total == Cardinality(mails)
         p == Paginate(total, Limit, request[b][t].page)
     IN  Handles(b, t, [request[b][t] EXCEPT
                          !.total = total,
                          !.at = IF request[b][t].page > p.pages
                                 THEN "respond" ELSE "change"])
  /\ UNCHANGED <<store, walk, earned>>

Listed(r) == Paginate(r.total, Limit, r.page)

MailListLists(b, t) ==
  /\ At(b, t, "list", "change")
  /\ LET p == Listed(request[b][t]) IN
       /\ p.offset >= 0
       /\ Handles(b, t, [request[b][t] EXCEPT
                           !.at = "respond", !.shown = TRUE,
                           !.rows = List(p.offset, p.limit)])
  /\ UNCHANGED <<store, walk, earned>>

(* MailView: Load, then the update of unread.                                *)
MailViewLoads(b, t) ==
  /\ At(b, t, "view", "query")
  /\ request[b][t].session # 0
  /\ request[b][t].mail \in mails
  /\ Handles(b, t, [request[b][t] EXCEPT !.at = "change"])
  /\ UNCHANGED <<store, walk, earned>>

MailViewUpdates(b, t) ==
  /\ At(b, t, "view", "change")
  /\ unread' = unread \ {request[b][t].mail}
  /\ Handles(b, t, [request[b][t] EXCEPT
                      !.at = "respond", !.shown = TRUE,
                      !.rows = {request[b][t].mail}])
  /\ UNCHANGED <<users, mails, arrived, walk, earned>>

MailDelete(b, t) ==
  /\ At(b, t, "delete", "query")
  /\ request[b][t].session # 0
  /\ Goes(request[b][t].mail)
  /\ request' = [Broken(request) EXCEPT ![b][t].at = "respond"]
  /\ walk' = Broken(walk)
  /\ UNCHANGED <<asks, users, arrived, cookie, left, earned>>

Matches(i, form) == users[i].password = form.password

(* Accounts whose password the browser has just given.                       *)
Earns(b, form) ==
  earned' = [earned EXCEPT ![b] = @ \cup
               {i \in Found(form.email) : Matches(i, form) /\ users[i].active}]

Login_AnyState(b, t) ==
  /\ At(b, t, "login", "query")
  /\ LET form == request[b][t].form IN
       /\ \/ \E i \in Found(form.email) :
               /\ Matches(i, form)
               /\ Handles(b, t, [request[b][t] EXCEPT !.at = "respond",
                                                      !.session = i])
          \/ Handles(b, t, [request[b][t] EXCEPT !.at = "respond"])
       /\ Earns(b, form)
  /\ UNCHANGED <<store, walk>>

(* The first account the data store finds under the address decides; the     *)
(* session stays as it is when there is none, when the password is wrong or  *)
(* the account is not active, and when the query fails.                      *)
Login(b, t) ==
  /\ At(b, t, "login", "query")
  /\ LET form == request[b][t].form IN
       /\ \/ \E i \in Found(form.email) :
               /\ Matches(i, form) /\ users[i].active
               /\ Handles(b, t, [request[b][t] EXCEPT !.at = "respond",
                                                      !.session = i])
          \/ Handles(b, t, [request[b][t] EXCEPT !.at = "respond"])
       /\ Earns(b, form)
  /\ UNCHANGED <<store, walk>>

RegisterLooks_GoesOn(b, t) ==
  /\ At(b, t, "register", "query")
  /\ Handles(b, t, [request[b][t] EXCEPT !.at = "change",
                                         !.form.since = Len(users)])
  /\ UNCHANGED <<store, walk, earned>>

(* Register: "User already exists!", or the account is new.  A query that    *)
(* fails counts as new too.  Somebody who is logged in gets a redirect, and  *)
(* is registered all the same.                                               *)
RegisterLooks(b, t) ==
  /\ At(b, t, "register", "query")
  /\ LET form == request[b][t].form IN
       \/ /\ Found(form.email) # {}
          /\ Handles(b, t, [request[b][t] EXCEPT !.at = "respond"])
       \/ /\ Found(form.email) = {}
          /\ Handles(b, t, [request[b][t] EXCEPT !.at = "change",
                                                 !.form.since = Len(users)])
       \/ Handles(b, t, [request[b][t] EXCEPT !.at = "change"])
  /\ UNCHANGED <<store, walk, earned>>

RegisterInserts(b, t) ==
  /\ At(b, t, "register", "change")
  /\ Len(users) < MaxUsers
  /\ users' = Append(users, request[b][t].form)
  /\ earned' = [earned EXCEPT ![b] = @ \cup {Len(users) + 1}]
  /\ Handles(b, t, [request[b][t] EXCEPT !.at = "respond",
                                         !.session = Len(users) + 1])
  /\ UNCHANGED <<mails, unread, arrived, walk>>

-----------------------------------------------------------------------------
(* The response.                                                             *)

(* The session that is saved.                                                *)
Saved_KeepsUser(r) == r.session

Saved(r) == IF r.kind = "logout" THEN 0 ELSE r.session

Others(b, t) == {u \in Tabs \ {t} : request[b][u].at # "idle"}

(* The walk w, after the list that r has got.                                *)
Walked(w, r) ==
  [page |-> Listed(r).page, next |-> HasNext(Listed(r)),
   first |-> IF r.follows THEN w.first ELSE r.rows,
   seen |-> IF r.follows THEN w.seen \cup r.rows ELSE r.rows,
   intact |-> r.intact]

(* A list that is shown goes on the walk, or begins a new one.               *)
Shows(b, t) ==
  LET r == request[b][t]
  IN  walk' = [walk EXCEPT ![b][t] =
                 IF r.kind = "list" /\ r.shown THEN Walked(@, r) ELSE NoWalk]

(* Session.Save and the response, which sets the browser's cookie.           *)
Responds(b, t) ==
  /\ request[b][t].at = "respond"
  /\ cookie' = [cookie EXCEPT ![b] = Saved(request[b][t])]
  /\ Shows(b, t)
  /\ left' = [left EXCEPT ![b] =
                @ \/ (request[b][t].kind = "logout" /\ Others(b, t) = {})]
  /\ request' = [request EXCEPT ![b][t] = Idle]
  /\ UNCHANGED <<asks, store, earned>>

(* A query fails and the handler returns its error, which saves no session;  *)
(* or the response does not arrive.                                          *)
Fails(b, t) ==
  /\ request[b][t].at # "idle"
  /\ request' = [request EXCEPT ![b][t] = Idle]
  /\ walk' = [walk EXCEPT ![b][t] = NoWalk]
  /\ UNCHANGED <<asks, store, cookie, earned, left>>

Serves(b, t) ==
  \/ NeedsLogin(b, t)
  \/ MailListTotals(b, t) \/ MailListLists(b, t)
  \/ MailViewLoads(b, t) \/ MailViewUpdates(b, t) \/ MailDelete(b, t)
  \/ Login(b, t) \/ RegisterLooks(b, t) \/ RegisterInserts(b, t)

Next ==
  \/ Arrive
  \/ \E m \in Mail : DeletedElsewhere(m)
  \/ \E b \in Browsers, t \in Tabs :
       \/ AsksList(b, t) \/ AsksMail(b, t) \/ AsksEntry(b, t) \/ AsksOther(b, t)
       \/ Serves(b, t)
       \/ Responds(b, t) \/ Fails(b, t)

Spec == Init /\ [][Next]_vars

-----------------------------------------------------------------------------
(* A browser's session is an account it has given the password of, or        *)
(* registered, and it is shown mail only after that, in whatever order its   *)
(* requests are answered (handlers.go:27, 182, 191, 267).                    *)
SessionIsEarned ==
  \A b \in Browsers :
    /\ cookie[b] \in earned[b] \cup {0}
    /\ \A t \in Tabs : request[b][t].shown => earned[b] # {}

(* A browser that has logged out stays so until it logs in again, unless a   *)
(* request was under way when it did: Session.Save writes back the session   *)
(* that request began with (handlers.go:214, server.go:160).                 *)
LogoutLasts == \A b \in Browsers : left[b] => cookie[b] = 0

(* Two accounts have the same address only when the second was looked for    *)
(* before the first was inserted, or the query failed (handlers.go:243).     *)
OneAccountUnlessTogether ==
  \A i, j \in 1..Len(users) :
    i < j /\ users[i].email = users[j].email => users[j].since < i

(* Who goes from page to page by Next misses no mail between one on the page *)
(* the walk began with and an older one seen since, although mail arrives    *)
(* between the pages and between the two queries of each; newer mail may     *)
(* push the next page back over it, and mail that is deleted makes a gap     *)
(* (handlers.go:124, 138, pagination.go:73).                                 *)
WalkHasNoGaps ==
  \A b \in Browsers, t \in Tabs :
    LET w == walk[b][t] IN
      w.intact =>
        \A m \in mails :
          (\E x \in w.seen, y \in w.first : x < m /\ m < y) => m \in w.seen

(* The page that Next leads to is there and has mail on it, unless mail was  *)
(* deleted since (handlers.go:133, pagination.go:141).                       *)
NextLeadsToMail ==
  \A b \in Browsers, t \in Tabs :
    LET r == request[b][t] IN
      r.kind = "list" /\ r.at = "respond" /\ r.follows /\ r.intact /\ r.session # 0
        => r.shown /\ r.rows # {}
===============================================================================
