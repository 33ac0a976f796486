---------------------------- MODULE Webmail_proofs ----------------------------
(***************************************************************************)
(* Theorems about Pagination and Webmail, for any browsers, tabs, accounts *)
(* and mail: the arithmetic of the pages; that sessions, log-outs and      *)
(* accounts are what the module's invariants say; and that a walk through  *)
(* the pages misses nothing while mail arrives.                            *)
(***************************************************************************)
EXTENDS Webmail, TLAPS, FiniteSetTheorems

(* The number of pages is a natural number.                                  *)
LEMMA PagesNat ==
  ASSUME NEW total \in Nat, NEW limit \in Nat \ {0}
  PROVE  PagesOf(total, limit) \in Nat
  BY DEF PagesOf

(* The pages hold all records, and the last page is not empty                *)
(* (pagination.go:42).                                                       *)
THEOREM PagesCoverTotal ==
  ASSUME NEW total \in Nat, NEW limit \in Nat \ {0}
  PROVE  /\ PagesOf(total, limit) * limit >= total
         /\ total > 0 => Offset(PagesOf(total, limit), limit) < total
<1>. DEFINE n == total + limit - 1
            q == n \div limit
            r == n % limit
<1>1. n \in Nat /\ q \in Int /\ r \in 0..limit - 1 /\ n = limit * q + r
  OBVIOUS
<1>2. q * limit = limit * q /\ (q - 1) * limit = limit * q - limit
  BY <1>1
<1>3. PagesOf(total, limit) = q
  BY DEF PagesOf
<1>4. q * limit >= total /\ (q - 1) * limit < total
  BY <1>1, <1>2
<1>. QED BY <1>3, <1>4 DEF Offset

(* Where there are pages, the page shown is one of them; style 3 links to    *)
(* the next and to the previous page exactly where there is one, although it *)
(* compares with the ends of a window of ten pages (pagination.go:35-71,     *)
(* 130-147).                                                                 *)
THEOREM LinksAreRight ==
  ASSUME NEW total \in Nat, NEW limit \in Int, NEW curpage \in Int,
         NEW p, p = Paginate(total, limit, curpage), p.pages > 0
  PROVE  /\ p.page \in 1..p.pages
         /\ HasNext(p) <=> p.page < p.pages
         /\ HasPrevious(p) <=> p.page > 1
<1>1. LimitOf(limit) \in Nat \ {0}
  BY DEF LimitOf
<1>2. p.pages \in Nat
  BY <1>1, PagesNat DEF Paginate
<1>3. p.page = PageOf(curpage, p.pages)
  BY DEF Paginate
<1>4. p.page \in 1..p.pages
  BY <1>2, <1>3 DEF PageOf, Least, Most
<1>5. /\ p.endnum = Endnum(p.page, p.pages)
      /\ p.beginnum = Beginnum(p.page, p.pages)
  BY DEF Paginate
<1>6. p.page < Endnum(p.page, p.pages) <=> p.page < p.pages
  BY <1>2, <1>4 DEF Endnum, Least
<1>7. p.page > Beginnum(p.page, p.pages) <=> p.page > 1
  BY <1>2, <1>4 DEF Beginnum, Most
<1>8. (p.page < p.pages => p.pages > 1) /\ (p.page > 1 => p.pages > 1)
  BY <1>2, <1>4
<1>. QED BY <1>4, <1>5, <1>6, <1>7, <1>8 DEF HasNext, HasPrevious

-----------------------------------------------------------------------------
(* The inductive invariant.                                                  *)

(* A request's session is the browser's at some moment, and it is somebody's *)
(* by the time mail is listed or loaded.                                     *)
SessionsInv ==
  \A b \in Browsers :
    /\ cookie[b] \in earned[b] \cup {0}
    /\ \A t \in Tabs :
         /\ request[b][t].session \in earned[b] \cup {0}
         /\ request[b][t].kind \in {"list", "view"} /\ request[b][t].at = "change"
              => request[b][t].session # 0
         /\ request[b][t].shown => earned[b] # {}

(* A browser that has logged out has no request under way that could log it  *)
(* in, or that began with a session.                                         *)
LeftInv ==
  \A b \in Browsers : left[b] =>
    /\ cookie[b] = 0
    /\ \A t \in Tabs : request[b][t].at # "idle" =>
         /\ request[b][t].session = 0
         /\ request[b][t].kind \notin {"login", "register"}

(* Whoever is being registered found nobody of that address among the first  *)
(* accounts, as many as it looked at.                                        *)
Looked(accounts, form) ==
  /\ form.since <= Len(accounts)
  /\ \A i \in 1..Len(accounts) :
       accounts[i].email = form.email => i > form.since

LookedInv ==
  \A b \in Browsers, t \in Tabs :
    request[b][t].kind = "register" /\ request[b][t].at # "idle" =>
      Looked(users, request[b][t].form)

IInv ==
  /\ TypeOK
  /\ SessionsInv
  /\ LeftInv
  /\ LookedInv
  /\ OneAccountUnlessTogether

-----------------------------------------------------------------------------
(* Types.                                                                    *)

(* What the invariant says of one tab.                                       *)
LEMMA TabTypes ==
  ASSUME TypeOK, NEW b \in Browsers, NEW t \in Tabs
  PROVE  /\ request[b][t] \in Request
         /\ walk[b][t] \in Walk
         /\ cookie[b] \in 0..Len(users)
         /\ earned[b] \subseteq 1..Len(users)
  BY DEF TypeOK

(* The form that is not filled in.                                           *)
LEMMA IdleTypes == Idle \in Request /\ NoWalk \in Walk /\ AnyForm \in User
<1>1. AnyForm \in User
  <2>1. (CHOOSE e \in Emails : TRUE) \in Emails
    BY WebmailAssumption
  <2>2. (CHOOSE p \in Passwords : TRUE) \in Passwords
    BY WebmailAssumption
  <2>. QED BY <2>1, <2>2 DEF AnyForm, User
<1>. QED BY <1>1 DEF Idle, NoWalk, Request, Walk

(* A tab's request is replaced, the others stay.                             *)
LEMMA RequestStep ==
  ASSUME TypeOK, NEW b \in Browsers, NEW t \in Tabs, NEW r \in Request,
         request' = [request EXCEPT ![b][t] = r]
  PROVE  /\ request' \in [Browsers -> [Tabs -> Request]]
         /\ request'[b][t] = r
         /\ \A c \in Browsers, u \in Tabs :
              (c # b \/ u # t) => request'[c][u] = request[c][u]
  BY DEF TypeOK

(* So is its walk.                                                           *)
LEMMA WalkStep ==
  ASSUME TypeOK, NEW b \in Browsers, NEW t \in Tabs, NEW w \in Walk,
         walk' = [walk EXCEPT ![b][t] = w]
  PROVE  walk' \in [Browsers -> [Tabs -> Walk]]
  BY DEF TypeOK

(* The mailbox is finite, and counting it gives a natural number.            *)
LEMMA Counts ==
  ASSUME TypeOK
  PROVE  Cardinality(mails) \in Nat
<1>1. IsFiniteSet(1..MaxMails)
  BY WebmailAssumption, FS_Interval
<1>2. IsFiniteSet(mails)
  BY <1>1, FS_Subset DEF TypeOK, Mail
<1>. QED BY <1>2, FS_CardinalityType

(* The page of a list is a natural number.                                   *)
LEMMA PageNat ==
  ASSUME NEW total \in Nat, NEW curpage \in Nat
  PROVE  Paginate(total, Limit, curpage).page \in Nat
<1>1. LimitOf(Limit) \in Nat \ {0}
  BY WebmailAssumption DEF LimitOf
<1>2. PagesOf(total, LimitOf(Limit)) \in Nat
  BY <1>1, PagesNat
<1>. QED BY <1>2 DEF Paginate, PageOf, Least, Most

(* Whether there is a next page is a truth value.                            *)
LEMMA NextBoolean == \A p : HasNext(p) \in BOOLEAN
  BY DEF HasNext

(* A walk goes on to a walk.                                                 *)
LEMMA WalkedTypes ==
  ASSUME NEW w \in Walk, NEW r \in Request
  PROVE  Walked(w, r) \in Walk
<1>1. /\ r.total \in Nat /\ r.page \in Nat /\ r.rows \in SUBSET Nat
      /\ r.intact \in BOOLEAN /\ w.first \in SUBSET Nat /\ w.seen \in SUBSET Nat
  BY DEF Request, Walk
<1>2. Listed(r).page \in Nat /\ HasNext(Listed(r)) \in BOOLEAN
  BY <1>1, PageNat, NextBoolean DEF Listed
<1>. QED BY <1>1, <1>2 DEF Walked, Walk

-----------------------------------------------------------------------------
(* A handler that goes on with its request: it keeps the session, shows mail *)
(* or gets ready to only for somebody, and does not begin to register.       *)
GoesOn(r, s) ==
  /\ s.session = r.session /\ s.kind = r.kind
  /\ s.at # "idle" => r.at # "idle"
  /\ s.kind \in {"list", "view"} /\ s.at = "change"
       => s.session # 0 \/ r.at = "change"
  /\ s.shown => r.shown \/ s.session # 0

(* Nobody begins to register, or looks again.                                *)
RegistersOn(r, s) ==
  s.kind = "register" /\ s.at # "idle"
    => r.kind = "register" /\ r.at # "idle" /\ s.form = r.form

(* While the requests go on, the invariant stays.                            *)
LEMMA GoingOn ==
  ASSUME IInv, UNCHANGED <<users, cookie, earned, left>>,
         \A b \in Browsers, t \in Tabs : GoesOn(request[b][t], request'[b][t])
  PROVE  SessionsInv' /\ LeftInv' /\ OneAccountUnlessTogether'
<1>1. SessionsInv'
  BY DEF IInv, SessionsInv, GoesOn
<1>2. LeftInv'
  BY DEF IInv, LeftInv, GoesOn
<1>3. OneAccountUnlessTogether'
  BY DEF IInv, OneAccountUnlessTogether
<1>. QED BY <1>1, <1>2, <1>3

(* So does the part about registration.                                      *)
LEMMA RegisteringOn ==
  ASSUME IInv, users' = users,
         \A b \in Browsers, t \in Tabs :
           RegistersOn(request[b][t], request'[b][t])
  PROVE  LookedInv'
  BY DEF IInv, LookedInv, Looked, RegistersOn

(* A request goes on as it is.                                               *)
LEMMA SameGoesOn ==
  \A r : GoesOn(r, r) /\ RegistersOn(r, r)
  BY DEF GoesOn, RegistersOn

(* One handler goes on, and nothing but the mailbox and walks change.        *)
LEMMA HandlerKeeps ==
  ASSUME IInv, NEW b \in Browsers, NEW t \in Tabs, NEW r \in Request,
         Handles(b, t, r), UNCHANGED <<users, earned>>,
         GoesOn(request[b][t], r), RegistersOn(request[b][t], r)
  PROVE  /\ SessionsInv' /\ LeftInv' /\ LookedInv'
         /\ OneAccountUnlessTogether'
         /\ request' \in [Browsers -> [Tabs -> Request]]
<1>1. /\ request'[b][t] = r
      /\ request' \in [Browsers -> [Tabs -> Request]]
      /\ \A c \in Browsers, u \in Tabs :
           (c # b \/ u # t) => request'[c][u] = request[c][u]
  BY RequestStep DEF IInv, Handles
<1>2. \A c \in Browsers, u \in Tabs :
        /\ GoesOn(request[c][u], request'[c][u])
        /\ RegistersOn(request[c][u], request'[c][u])
  BY <1>1, SameGoesOn
<1>. QED BY <1>1, <1>2, GoingOn, RegisteringOn DEF Handles

(* Lists that no longer fit the mailbox are the same otherwise.              *)
LEMMA BrokenStep ==
  ASSUME TypeOK
  PROVE  /\ Broken(request) \in [Browsers -> [Tabs -> Request]]
         /\ Broken(walk) \in [Browsers -> [Tabs -> Walk]]
         /\ \A b \in Browsers, t \in Tabs :
              /\ GoesOn(request[b][t], Broken(request)[b][t])
              /\ RegistersOn(request[b][t], Broken(request)[b][t])
              /\ Broken(request)[b][t] =
                   [request[b][t] EXCEPT !.intact = FALSE]
<1>1. \A r \in Request :
        /\ [r EXCEPT !.intact = FALSE] \in Request
        /\ GoesOn(r, [r EXCEPT !.intact = FALSE])
        /\ RegistersOn(r, [r EXCEPT !.intact = FALSE])
  BY DEF Request, GoesOn, RegistersOn
<1>2. \A w \in Walk : [w EXCEPT !.intact = FALSE] \in Walk
  BY DEF Walk
<1>3. \A b \in Browsers, t \in Tabs :
        /\ request[b][t] \in Request
        /\ walk[b][t] \in Walk
        /\ Broken(request)[b][t] = [request[b][t] EXCEPT !.intact = FALSE]
        /\ Broken(walk)[b][t] = [walk[b][t] EXCEPT !.intact = FALSE]
  BY TabTypes DEF Broken
<1>4. Broken(request) \in [Browsers -> [Tabs -> Request]]
  BY <1>1, <1>3 DEF Broken
<1>5. Broken(walk) \in [Browsers -> [Tabs -> Walk]]
  BY <1>2, <1>3 DEF Broken
<1>6. ASSUME NEW b \in Browsers, NEW t \in Tabs
      PROVE  /\ GoesOn(request[b][t], Broken(request)[b][t])
             /\ RegistersOn(request[b][t], Broken(request)[b][t])
  BY <1>1, <1>3
<1>. QED BY <1>3, <1>4, <1>5, <1>6

-----------------------------------------------------------------------------
(* The initial states.                                                       *)
LEMMA InitIInv == Init => IInv
<1>. SUFFICES ASSUME Init PROVE IInv
  OBVIOUS
<1>1. users \in Seq(User) /\ Len(users) <= 1
  <2>1. CASE users = <<>>
    BY <2>1
  <2>2. CASE users # <<>>
    <3>1. PICK u \in [email : Emails, password : Passwords, active : BOOLEAN,
                      since : {0}] : users = <<u>>
      BY <2>2 DEF Init
    <3>2. u \in User
      BY DEF User
    <3>. QED BY <3>1, <3>2
  <2>. QED BY <2>1, <2>2
<1>2. Len(users) \in 0..MaxUsers
  BY <1>1, WebmailAssumption DEF Init
<1>3. TypeOK
  <2>1. /\ request \in [Browsers -> [Tabs -> Request]]
        /\ walk \in [Browsers -> [Tabs -> Walk]]
    BY IdleTypes DEF Init
  <2>2. earned \in [Browsers -> SUBSET (1..Len(users))]
    BY <1>2 DEF Init
  <2>3. mails \in SUBSET Mail /\ unread \in SUBSET mails /\ arrived \in 0..MaxMails
    BY WebmailAssumption DEF Init, Mail
  <2>. QED BY <1>1, <1>2, <2>1, <2>2, <2>3 DEF Init, TypeOK
<1>4. \A b \in Browsers, t \in Tabs :
        /\ request[b][t].at = "idle" /\ request[b][t].session = 0
        /\ ~request[b][t].shown
  BY DEF Init, Idle
<1>5. SessionsInv
  BY <1>4 DEF Init, SessionsInv
<1>6. LeftInv
  BY DEF Init, LeftInv
<1>7. LookedInv
  BY <1>4 DEF LookedInv
<1>8. OneAccountUnlessTogether
  BY <1>1, <1>2 DEF OneAccountUnlessTogether
<1>. QED BY <1>3, <1>5, <1>6, <1>7, <1>8 DEF IInv

-----------------------------------------------------------------------------
(* The mailbox changes under the requests.                                   *)

(* A mail comes.                                                             *)
LEMMA ArriveIInv == IInv /\ Arrive => IInv'
<1>. SUFFICES ASSUME IInv, Arrive PROVE IInv'
  OBVIOUS
<1>1. \A b \in Browsers, t \in Tabs :
        /\ GoesOn(request[b][t], request'[b][t])
        /\ RegistersOn(request[b][t], request'[b][t])
  BY SameGoesOn DEF Arrive
<1>2. SessionsInv' /\ LeftInv' /\ LookedInv' /\ OneAccountUnlessTogether'
  BY <1>1, GoingOn, RegisteringOn DEF Arrive, browser
<1>3. TypeOK'
  BY WebmailAssumption DEF IInv, TypeOK, Arrive, browser, Mail
<1>. QED BY <1>2, <1>3 DEF IInv

(* A mail goes.                                                              *)
LEMMA GoesTypes ==
  ASSUME TypeOK, NEW m, Goes(m)
  PROVE  mails' \in SUBSET Mail /\ unread' \in SUBSET mails'
  BY DEF TypeOK, Goes

(* Somebody else deletes it.                                                 *)
LEMMA DeletedElsewhereIInv ==
  ASSUME IInv, NEW m \in Mail, DeletedElsewhere(m)
  PROVE  IInv'
<1>0. TypeOK
  BY DEF IInv
<1>1. /\ \A b \in Browsers, t \in Tabs :
           /\ GoesOn(request[b][t], request'[b][t])
           /\ RegistersOn(request[b][t], request'[b][t])
      /\ request' \in [Browsers -> [Tabs -> Request]]
      /\ walk' \in [Browsers -> [Tabs -> Walk]]
  BY <1>0, BrokenStep DEF DeletedElsewhere
<1>2. SessionsInv' /\ LeftInv' /\ LookedInv' /\ OneAccountUnlessTogether'
  BY <1>1, GoingOn, RegisteringOn DEF DeletedElsewhere
<1>3. mails' \in SUBSET Mail /\ unread' \in SUBSET mails'
  BY <1>0, GoesTypes DEF DeletedElsewhere
<1>4. TypeOK'
  BY <1>0, <1>1, <1>3 DEF TypeOK, DeletedElsewhere
<1>. QED BY <1>2, <1>4 DEF IInv

-----------------------------------------------------------------------------
(* A browser asks.                                                           *)

(* A request begins with the browser's session, shows nothing yet, and has   *)
(* looked at no accounts.                                                    *)
Fresh(r) ==
  /\ r \in Request
  /\ r.kind \in {"list", "view"} => r.at # "change"
  /\ ~r.shown
  /\ r.kind = "register" => r.form.since = 0

(* Whatever a browser asks for keeps the invariant; one that tries to log in *)
(* is no longer one that left.                                               *)
LEMMA SendsIInv ==
  ASSUME IInv, NEW b \in Browsers, NEW t \in Tabs, NEW r, Fresh(r),
         Sends(b, t, r),
         \/ left' = left /\ r.kind \notin {"login", "register"}
         \/ left' = [left EXCEPT ![b] = FALSE]
  PROVE  IInv'
<1>0. TypeOK
  BY DEF IInv
<1>. DEFINE s == [r EXCEPT !.session = cookie[b]]
<1>1. cookie[b] \in Nat
  BY <1>0 DEF TypeOK
<1>2. /\ s \in Request
      /\ s.session = cookie[b] /\ s.kind = r.kind /\ s.at = r.at
      /\ s.shown = r.shown /\ s.form = r.form
  BY <1>1 DEF Fresh, Request
<1>3. request' = [request EXCEPT ![b][t] = s]
  BY DEF Sends
<1>. HIDE DEF s
<1>4. /\ request' \in [Browsers -> [Tabs -> Request]]
      /\ request'[b][t] = s
      /\ \A c \in Browsers, u \in Tabs :
           (c # b \/ u # t) => request'[c][u] = request[c][u]
  BY <1>0, <1>2, <1>3, RequestStep
<1>5. SessionsInv'
  BY <1>2, <1>4 DEF Sends, Fresh, IInv, SessionsInv
<1>6. LeftInv'
  <2>1. \A c \in Browsers : left'[c] => left[c] /\ (c = b => left' = left /\ r.kind \notin {"login", "register"})
    BY <1>0 DEF TypeOK
  <2>2. \A c \in Browsers : left'[c] =>
          /\ cookie'[c] = 0
          /\ \A u \in Tabs : (c # b \/ u # t) /\ request'[c][u].at # "idle" =>
               /\ request'[c][u].session = 0
               /\ request'[c][u].kind \notin {"login", "register"}
    BY <2>1, <1>4 DEF Sends, IInv, LeftInv
  <2>. QED BY <1>2, <1>4, <2>1, <2>2 DEF LeftInv, Sends
<1>7. LookedInv'
  <2>1. r.kind = "register" => Looked(users', s.form)
    BY <1>0, <1>2 DEF Fresh, Looked, TypeOK, Sends, store
  <2>2. ASSUME NEW c \in Browsers, NEW u \in Tabs, c # b \/ u # t,
               request'[c][u].kind = "register", request'[c][u].at # "idle"
        PROVE  Looked(users', request'[c][u].form)
    BY <1>4, <2>2 DEF IInv, LookedInv, Looked, Sends, store
  <2>. QED BY <1>2, <1>4, <2>1, <2>2 DEF LookedInv
<1>8. OneAccountUnlessTogether'
  BY DEF IInv, OneAccountUnlessTogether, Sends, store
<1>9. TypeOK'
  BY <1>0, <1>4 DEF TypeOK, Sends, store
<1>. QED BY <1>5, <1>6, <1>7, <1>8, <1>9 DEF IInv

(* A new request's parts.                                                    *)
LEMMA NewTypes ==
  ASSUME NEW kind \in Kinds, NEW p \in Nat, NEW m \in Nat, NEW f \in User,
         NEW w \in BOOLEAN
  PROVE  LET n == New(kind) IN
           /\ n \in Request
           /\ [n EXCEPT !.page = p] \in Request
           /\ [n EXCEPT !.page = p, !.follows = TRUE, !.intact = w] \in Request
           /\ [n EXCEPT !.mail = m] \in Request
           /\ [n EXCEPT !.form = f] \in Request
           /\ [n EXCEPT !.at = "respond"] \in Request
           /\ n.kind = kind /\ n.at = "query" /\ ~n.shown
  BY IdleTypes DEF New, Idle, Request

(* A browser asks for a list.                                                *)
LEMMA AsksListIInv ==
  ASSUME IInv, NEW b \in Browsers, NEW t \in Tabs, AsksList(b, t)
  PROVE  IInv'
<1>. DEFINE n == New("list")
<1>1. "list" \in Kinds /\ 0 \in Nat /\ AnyForm \in User
  BY IdleTypes DEF Kinds
<1>2. n.kind = "list" /\ n.at = "query" /\ ~n.shown /\ n \in Request
  BY <1>1, NewTypes
<1>3. ASSUME NEW page \in 0..MaxMails + 1, Sends(b, t, [n EXCEPT !.page = page])
      PROVE  IInv'
  <2>1. page \in Nat
    BY WebmailAssumption
  <2>2. [n EXCEPT !.page = page] \in Request
    BY <1>1, <2>1, NewTypes
  <2>3. Fresh([n EXCEPT !.page = page]) /\ [n EXCEPT !.page = page].kind = "list"
    BY <1>2, <2>2 DEF Fresh, Request
  <2>. QED BY <1>3, <2>3, SendsIInv DEF AsksList
<1>4. ASSUME Sends(b, t, [n EXCEPT !.page = walk[b][t].page + 1,
                                   !.follows = TRUE,
                                   !.intact = walk[b][t].intact])
      PROVE  IInv'
  <2>. DEFINE r == [n EXCEPT !.page = walk[b][t].page + 1, !.follows = TRUE,
                             !.intact = walk[b][t].intact]
  <2>1. walk[b][t].page + 1 \in Nat /\ walk[b][t].intact \in BOOLEAN
    BY TabTypes DEF IInv, Walk
  <2>2. r \in Request
    BY <1>1, <2>1, NewTypes
  <2>3. Fresh(r) /\ r.kind = "list"
    BY <1>2, <2>2 DEF Fresh, Request
  <2>. QED BY <1>4, <2>3, SendsIInv DEF AsksList
<1>. QED BY <1>3, <1>4 DEF AsksList

(* A browser asks for a mail, or to delete it.                               *)
LEMMA AsksMailIInv ==
  ASSUME IInv, NEW b \in Browsers, NEW t \in Tabs, AsksMail(b, t)
  PROVE  IInv'
<1>1. PICK m \in 1..arrived, kind \in {"view", "delete"} :
        Sends(b, t, [New(kind) EXCEPT !.mail = m])
  BY DEF AsksMail
<1>. DEFINE n == New(kind)
            r == [n EXCEPT !.mail = m]
<1>2. kind \in Kinds /\ m \in Nat /\ AnyForm \in User
  BY IdleTypes DEF Kinds, IInv, TypeOK
<1>3. /\ n.kind = kind /\ n.at = "query" /\ ~n.shown /\ n \in Request
      /\ r \in Request
  BY <1>2, NewTypes
<1>4. Fresh(r) /\ r.kind = kind
  BY <1>3 DEF Fresh, Request
<1>. QED BY <1>1, <1>4, SendsIInv DEF AsksMail

(* A browser asks to be logged in, or registered.                            *)
LEMMA AsksEntryIInv ==
  ASSUME IInv, NEW b \in Browsers, NEW t \in Tabs, AsksEntry(b, t)
  PROVE  IInv'
<1>1. PICK kind \in {"login", "register"}, email \in Emails, password \in Passwords :
        Sends(b, t, [New(kind) EXCEPT
                       !.form = [email |-> email, password |-> password,
                                 active |-> TRUE, since |-> 0]])
  BY DEF AsksEntry
<1>. DEFINE n == New(kind)
            f == [email |-> email, password |-> password,
                  active |-> TRUE, since |-> 0]
            r == [n EXCEPT !.form = f]
<1>2. kind \in Kinds /\ 0 \in Nat /\ f \in User /\ f.since = 0
  BY DEF Kinds, User
<1>. HIDE DEF f
<1>3. /\ n.kind = kind /\ n.at = "query" /\ ~n.shown /\ n \in Request
      /\ r \in Request
  BY <1>2, NewTypes
<1>4. Fresh(r)
  BY <1>2, <1>3 DEF Fresh, Request
<1>5. Sends(b, t, r)
  BY <1>1 DEF f
<1>. QED BY <1>4, <1>5, SendsIInv DEF AsksEntry

(* A browser asks to be logged out, or for a page that is for everybody.     *)
LEMMA AsksOtherIInv ==
  ASSUME IInv, NEW b \in Browsers, NEW t \in Tabs, AsksOther(b, t)
  PROVE  IInv'
<1>1. PICK kind \in {"logout", "other"} :
        Sends(b, t, [New(kind) EXCEPT !.at = "respond"])
  BY DEF AsksOther
<1>. DEFINE n == New(kind)
            r == [n EXCEPT !.at = "respond"]
<1>2. kind \in Kinds /\ 0 \in Nat /\ AnyForm \in User
  BY IdleTypes DEF Kinds
<1>3. /\ n.kind = kind /\ n.at = "query" /\ ~n.shown /\ n \in Request
      /\ r \in Request
  BY <1>2, NewTypes
<1>4. Fresh(r) /\ r.kind = kind
  BY <1>3 DEF Fresh, Request
<1>. QED BY <1>1, <1>4, SendsIInv DEF AsksOther

-----------------------------------------------------------------------------
(* The handlers.                                                             *)

(* One handler goes on, with nothing new but unread mail.                    *)
LEMMA HandlerIInv ==
  ASSUME IInv, NEW b \in Browsers, NEW t \in Tabs, NEW r \in Request,
         Handles(b, t, r), UNCHANGED <<users, mails, arrived, walk, earned>>,
         unread' \in SUBSET unread,
         GoesOn(request[b][t], r), RegistersOn(request[b][t], r)
  PROVE  IInv'
<1>1. /\ SessionsInv' /\ LeftInv' /\ LookedInv' /\ OneAccountUnlessTogether'
      /\ request' \in [Browsers -> [Tabs -> Request]]
  BY HandlerKeeps
<1>2. TypeOK'
  BY <1>1 DEF IInv, TypeOK, Handles
<1>. QED BY <1>1, <1>2 DEF IInv

(* The answer is that a login is needed.                                     *)
LEMMA NeedsLoginIInv ==
  ASSUME IInv, NEW b \in Browsers, NEW t \in Tabs, NeedsLogin(b, t)
  PROVE  IInv'
<1>. DEFINE r == request[b][t]
            s == [r EXCEPT !.at = "respond"]
<1>1. r \in Request /\ r.at = "query" /\ r.kind # "register"
  BY TabTypes DEF IInv, NeedsLogin, At
<1>2. s \in Request /\ GoesOn(r, s) /\ RegistersOn(r, s)
  BY <1>1 DEF Request, GoesOn, RegistersOn
<1>3. Handles(b, t, s) /\ UNCHANGED <<store, walk, earned>>
  BY DEF NeedsLogin
<1>. QED BY <1>2, <1>3, HandlerIInv DEF store, IInv, TypeOK

(* MailList counts.                                                          *)
LEMMA MailListTotalsIInv ==
  ASSUME IInv, NEW b \in Browsers, NEW t \in Tabs, MailListTotals(b, t)
  PROVE  IInv'
<1>. DEFINE r == request[b][t]
            n == Cardinality(mails)
<1>1. PICK at \in {"respond", "change"} :
        Handles(b, t, [r EXCEPT !.total = n, !.at = at])
  <2>. DEFINE at == IF r.page > Paginate(n, Limit, r.page).pages
                    THEN "respond" ELSE "change"
  <2>1. Handles(b, t, [r EXCEPT !.total = n, !.at = at])
    BY DEF MailListTotals
  <2>2. at \in {"respond", "change"}
    OBVIOUS
  <2>. HIDE DEF at
  <2>. QED BY <2>1, <2>2
<1>2. n \in Nat
  BY Counts DEF IInv
<1>. HIDE DEF n
<1>. DEFINE s == [r EXCEPT !.total = n, !.at = at]
<1>3. r \in Request /\ r.at = "query" /\ r.kind = "list" /\ r.session # 0
  BY TabTypes DEF IInv, MailListTotals, At
<1>4. s \in Request /\ GoesOn(r, s) /\ RegistersOn(r, s)
  BY <1>2, <1>3 DEF Request, GoesOn, RegistersOn
<1>5. Handles(b, t, s) /\ UNCHANGED <<store, walk, earned>>
  BY <1>1 DEF MailListTotals
<1>. QED BY <1>4, <1>5, HandlerIInv DEF store, IInv, TypeOK

(* MailList lists.                                                           *)
LEMMA MailListListsIInv ==
  ASSUME IInv, NEW b \in Browsers, NEW t \in Tabs, MailListLists(b, t)
  PROVE  IInv'
<1>. DEFINE r == request[b][t]
<1>1. PICK rows \in SUBSET Nat :
        Handles(b, t, [r EXCEPT !.at = "respond", !.shown = TRUE,
                                !.rows = rows])
  <2>. DEFINE p == Listed(r)
  <2>1. mails \subseteq Nat
    BY DEF IInv, TypeOK, Mail
  <2>2. \A start, limit : List(start, limit) \in SUBSET Nat
    BY <2>1 DEF List
  <2>3. Handles(b, t, [r EXCEPT !.at = "respond", !.shown = TRUE,
                                !.rows = List(p.offset, p.limit)])
    BY DEF MailListLists
  <2>. HIDE DEF p
  <2>. QED BY <2>2, <2>3
<1>. DEFINE s == [r EXCEPT !.at = "respond", !.shown = TRUE, !.rows = rows]
<1>2. r \in Request /\ r.kind = "list" /\ r.at = "change" /\ r.session # 0
  BY TabTypes DEF IInv, SessionsInv, MailListLists, At
<1>3. s \in Request /\ GoesOn(r, s) /\ RegistersOn(r, s)
  BY <1>2 DEF Request, GoesOn, RegistersOn
<1>4. Handles(b, t, s) /\ UNCHANGED <<store, walk, earned>>
  BY <1>1 DEF MailListLists
<1>. QED BY <1>3, <1>4, HandlerIInv DEF store, IInv, TypeOK

(* MailView loads.                                                           *)
LEMMA MailViewLoadsIInv ==
  ASSUME IInv, NEW b \in Browsers, NEW t \in Tabs, MailViewLoads(b, t)
  PROVE  IInv'
<1>. DEFINE r == request[b][t]
            s == [r EXCEPT !.at = "change"]
<1>1. r \in Request /\ r.at = "query" /\ r.kind = "view" /\ r.session # 0
  BY TabTypes DEF IInv, MailViewLoads, At
<1>2. s \in Request /\ GoesOn(r, s) /\ RegistersOn(r, s)
  BY <1>1 DEF Request, GoesOn, RegistersOn
<1>3. Handles(b, t, s) /\ UNCHANGED <<store, walk, earned>>
  BY DEF MailViewLoads
<1>. QED BY <1>2, <1>3, HandlerIInv DEF store, IInv, TypeOK

(* MailView updates unread.  The mail may be gone, but is one that came.     *)
LEMMA MailViewUpdatesIInv ==
  ASSUME IInv, NEW b \in Browsers, NEW t \in Tabs, MailViewUpdates(b, t)
  PROVE  IInv'
<1>. DEFINE r == request[b][t]
            rows == {r.mail}
            s == [r EXCEPT !.at = "respond", !.shown = TRUE, !.rows = rows]
<1>1. r \in Request /\ r.kind = "view" /\ r.at = "change" /\ r.session # 0
  BY TabTypes DEF IInv, SessionsInv, MailViewUpdates, At
<1>2. rows \in SUBSET Nat
  BY <1>1 DEF Request
<1>3. s \in Request /\ GoesOn(r, s) /\ RegistersOn(r, s)
  BY <1>1, <1>2 DEF Request, GoesOn, RegistersOn
<1>4. /\ Handles(b, t, s) /\ UNCHANGED <<users, mails, arrived, walk, earned>>
      /\ unread' \in SUBSET unread
  BY DEF MailViewUpdates
<1>. QED BY <1>3, <1>4, HandlerIInv

(* MailDelete deletes.                                                       *)
LEMMA MailDeleteIInv ==
  ASSUME IInv, NEW b \in Browsers, NEW t \in Tabs, MailDelete(b, t)
  PROVE  IInv'
<1>0. TypeOK
  BY DEF IInv
<1>. DEFINE q == Broken(request)
            r == q[b][t]
            s == [r EXCEPT !.at = "respond"]
<1>1. /\ q \in [Browsers -> [Tabs -> Request]]
      /\ \A c \in Browsers, u \in Tabs :
           GoesOn(request[c][u], q[c][u]) /\ RegistersOn(request[c][u], q[c][u])
      /\ r = [request[b][t] EXCEPT !.intact = FALSE]
      /\ Broken(walk) \in [Browsers -> [Tabs -> Walk]]
  BY <1>0, BrokenStep
<1>2. r \in Request /\ r.kind = "delete" /\ r.at = "query"
  BY <1>0, <1>1, TabTypes DEF MailDelete, At, Request
<1>3. s \in Request /\ GoesOn(request[b][t], s) /\ RegistersOn(request[b][t], s)
  BY <1>0, <1>1, <1>2, TabTypes DEF Request, GoesOn, RegistersOn
<1>4. request' = [q EXCEPT ![b][t] = s]
  BY <1>1 DEF MailDelete
<1>. HIDE DEF q, s
<1>5. /\ request' \in [Browsers -> [Tabs -> Request]]
      /\ request'[b][t] = s
      /\ \A c \in Browsers, u \in Tabs :
           (c # b \/ u # t) => request'[c][u] = q[c][u]
  BY <1>1, <1>3, <1>4
<1>6. \A c \in Browsers, u \in Tabs :
        /\ GoesOn(request[c][u], request'[c][u])
        /\ RegistersOn(request[c][u], request'[c][u])
  BY <1>1, <1>3, <1>5
<1>7. SessionsInv' /\ LeftInv' /\ LookedInv' /\ OneAccountUnlessTogether'
  BY <1>6, GoingOn, RegisteringOn DEF MailDelete
<1>8. mails' \in SUBSET Mail /\ unread' \in SUBSET mails'
  BY <1>0, GoesTypes DEF MailDelete
<1>9. TypeOK'
  BY <1>0, <1>1, <1>5, <1>8 DEF TypeOK, MailDelete
<1>. QED BY <1>7, <1>9 DEF IInv

(* What a browser has earned only grows.                                     *)
LEMMA EarnsMore ==
  ASSUME TypeOK, NEW b \in Browsers, NEW S \in SUBSET (1..Len(users)),
         earned' = [earned EXCEPT ![b] = @ \cup S]
  PROVE  /\ earned' \in [Browsers -> SUBSET (1..Len(users))]
         /\ S \subseteq earned'[b]
         /\ \A c \in Browsers : earned[c] \subseteq earned'[c]
  BY DEF TypeOK

(* Login.                                                                    *)
LEMMA LoginIInv ==
  ASSUME IInv, NEW b \in Browsers, NEW t \in Tabs, Login(b, t)
  PROVE  IInv'
<1>0. TypeOK
  BY DEF IInv
<1>. DEFINE r == request[b][t]
            S == {i \in Found(r.form.email) : Matches(i, r.form) /\ users[i].active}
<1>1. r \in Request /\ r.kind = "login" /\ r.at = "query"
  BY <1>0, TabTypes DEF Login, At
<1>2. S \in SUBSET (1..Len(users)) /\ Len(users) \in Nat
  BY <1>0 DEF Found, TypeOK
<1>3. earned' = [earned EXCEPT ![b] = @ \cup S]
  BY DEF Login, Earns
<1>4. PICK i \in S \cup {r.session} :
        Handles(b, t, [r EXCEPT !.at = "respond", !.session = i])
  <2>1. ASSUME NEW i \in Found(r.form.email), Matches(i, r.form), users[i].active,
               Handles(b, t, [r EXCEPT !.at = "respond", !.session = i])
        PROVE  \E j \in S \cup {r.session} :
                 Handles(b, t, [r EXCEPT !.at = "respond", !.session = j])
    BY <2>1
  <2>2. ASSUME Handles(b, t, [r EXCEPT !.at = "respond"])
        PROVE  Handles(b, t, [r EXCEPT !.at = "respond", !.session = r.session])
    <3>1. [r EXCEPT !.at = "respond"] =
            [r EXCEPT !.at = "respond", !.session = r.session]
      BY <1>1 DEF Request
    <3>. QED BY <2>2, <3>1
  <2>. QED BY <2>1, <2>2 DEF Login
<1>. DEFINE s == [r EXCEPT !.at = "respond", !.session = i]
<1>5. i \in Nat
  BY <1>1, <1>2 DEF Request
<1>6. /\ s \in Request
      /\ s.at = "respond" /\ s.kind = "login" /\ s.session = i
      /\ s.shown = r.shown
  BY <1>1, <1>5 DEF Request
<1>7. request' = [request EXCEPT ![b][t] = s]
  BY <1>4 DEF Handles
<1>8. UNCHANGED <<asks, cookie, left, store, walk>>
  BY <1>4 DEF Handles, Login
<1>. HIDE DEF s, S
<1>9. /\ request' \in [Browsers -> [Tabs -> Request]]
      /\ request'[b][t] = s
      /\ \A c \in Browsers, u \in Tabs :
           (c # b \/ u # t) => request'[c][u] = request[c][u]
  BY <1>0, <1>6, <1>7, RequestStep
<1>10. /\ earned' \in [Browsers -> SUBSET (1..Len(users))]
       /\ S \subseteq earned'[b]
       /\ \A c \in Browsers : earned[c] \subseteq earned'[c]
  BY <1>0, <1>2, <1>3, EarnsMore
<1>11. SessionsInv'
  BY <1>4, <1>6, <1>8, <1>9, <1>10 DEF IInv, SessionsInv
<1>12. LeftInv'
  BY <1>1, <1>8, <1>9 DEF IInv, LeftInv
<1>13. LookedInv' /\ OneAccountUnlessTogether'
  BY <1>6, <1>8, <1>9 DEF IInv, LookedInv, OneAccountUnlessTogether, store
<1>14. TypeOK'
  BY <1>0, <1>8, <1>9, <1>10 DEF TypeOK, store
<1>. QED BY <1>11, <1>12, <1>13, <1>14 DEF IInv

(* Register looks for the address.                                           *)
LEMMA RegisterLooksIInv ==
  ASSUME IInv, NEW b \in Browsers, NEW t \in Tabs, RegisterLooks(b, t)
  PROVE  IInv'
<1>0. TypeOK
  BY DEF IInv
<1>. DEFINE r == request[b][t]
<1>1. /\ r \in Request /\ r.kind = "register" /\ r.at = "query"
      /\ Looked(users, r.form) /\ Len(users) \in Nat
  BY <1>0, TabTypes DEF IInv, LookedInv, TypeOK, RegisterLooks, At
<1>2. UNCHANGED <<store, walk, earned>>
  BY DEF RegisterLooks
<1>3. CASE Handles(b, t, [r EXCEPT !.at = "respond"])
  <2>. DEFINE s == [r EXCEPT !.at = "respond"]
  <2>1. s \in Request /\ GoesOn(r, s) /\ RegistersOn(r, s)
    BY <1>1 DEF Request, GoesOn, RegistersOn
  <2>. QED BY <1>2, <1>3, <2>1, HandlerIInv DEF store, IInv, TypeOK
<1>4. CASE Handles(b, t, [r EXCEPT !.at = "change"])
  <2>. DEFINE s == [r EXCEPT !.at = "change"]
  <2>1. s \in Request /\ GoesOn(r, s) /\ RegistersOn(r, s)
    BY <1>1 DEF Request, GoesOn, RegistersOn
  <2>. QED BY <1>2, <1>4, <2>1, HandlerIInv DEF store, IInv, TypeOK
<1>5. CASE /\ Found(r.form.email) = {}
           /\ Handles(b, t, [r EXCEPT !.at = "change", !.form.since = Len(users)])
  <2>. DEFINE f == [r.form EXCEPT !.since = Len(users)]
              s == [r EXCEPT !.at = "change", !.form = f]
  <2>1. f \in User /\ f.since = Len(users) /\ f.email = r.form.email
    BY <1>1 DEF User, Request
  <2>. HIDE DEF f
  <2>2. s \in Request /\ GoesOn(r, s) /\ s.form = f
    BY <1>1, <2>1 DEF Request, GoesOn
  <2>3. request' = [request EXCEPT ![b][t] = s]
    BY <1>5 DEF Handles, f
  <2>. HIDE DEF s
  <2>4. /\ request' \in [Browsers -> [Tabs -> Request]]
        /\ request'[b][t] = s
        /\ \A c \in Browsers, u \in Tabs :
             (c # b \/ u # t) => request'[c][u] = request[c][u]
    BY <1>0, <2>2, <2>3, RequestStep
  <2>5. UNCHANGED <<asks, users, cookie, earned, left>>
    BY <1>2, <1>5 DEF Handles, store
  <2>6. SessionsInv' /\ LeftInv' /\ OneAccountUnlessTogether'
    BY <2>2, <2>4, <2>5, SameGoesOn, GoingOn
  <2>7. Looked(users', s.form)
    BY <1>1, <1>5, <2>1, <2>2, <2>5 DEF Looked, Found
  <2>8. LookedInv'
    BY <2>4, <2>5, <2>7 DEF IInv, LookedInv
  <2>9. TypeOK'
    BY <1>0, <1>2, <2>4, <2>5 DEF TypeOK, store
  <2>. QED BY <2>6, <2>8, <2>9 DEF IInv
<1>. QED BY <1>3, <1>4, <1>5 DEF RegisterLooks

(* Register inserts the account.                                             *)
LEMMA RegisterInsertsIInv ==
  ASSUME IInv, NEW b \in Browsers, NEW t \in Tabs, RegisterInserts(b, t)
  PROVE  IInv'
<1>0. TypeOK
  BY DEF IInv
<1>. DEFINE r == request[b][t]
            n == Len(users) + 1
            s == [r EXCEPT !.at = "respond", !.session = n]
<1>1. /\ r \in Request /\ r.kind = "register" /\ r.at = "change"
      /\ Looked(users, r.form) /\ r.form \in User /\ r.form.since \in Nat
      /\ Len(users) \in Nat /\ users \in Seq(User) /\ n \in Nat /\ n <= MaxUsers
  BY <1>0, TabTypes, WebmailAssumption
     DEF IInv, LookedInv, TypeOK, RegisterInserts, At, Request, User
<1>2. /\ Len(users') = n /\ users' \in Seq(User)
      /\ \A i \in 1..Len(users) : users'[i] = users[i]
      /\ users'[n] = r.form
  BY <1>1 DEF RegisterInserts
<1>3. /\ s \in Request /\ s.at = "respond" /\ s.kind = "register"
      /\ s.session = n /\ s.shown = r.shown /\ s.form = r.form
  BY <1>1 DEF Request
<1>4. request' = [request EXCEPT ![b][t] = s]
  BY DEF RegisterInserts, Handles
<1>5. /\ UNCHANGED <<asks, cookie, left, mails, unread, arrived, walk>>
      /\ earned' = [earned EXCEPT ![b] = @ \cup {n}]
  BY DEF RegisterInserts, Handles
<1>. HIDE DEF s
<1>6. /\ request' \in [Browsers -> [Tabs -> Request]]
      /\ request'[b][t] = s
      /\ \A c \in Browsers, u \in Tabs :
           (c # b \/ u # t) => request'[c][u] = request[c][u]
  BY <1>0, <1>3, <1>4, RequestStep
<1>7. /\ earned' \in [Browsers -> SUBSET (1..n)]
      /\ n \in earned'[b]
      /\ \A c \in Browsers : earned[c] \subseteq earned'[c]
  BY <1>0, <1>1, <1>5 DEF TypeOK
<1>8. SessionsInv'
  BY <1>3, <1>5, <1>6, <1>7 DEF IInv, SessionsInv
<1>9. LeftInv'
  BY <1>1, <1>5, <1>6 DEF IInv, LeftInv
<1>10. OneAccountUnlessTogether'
  <2>1. ASSUME NEW i \in 1..n, NEW j \in 1..n, i < j,
               users'[i].email = users'[j].email
        PROVE  users'[j].since < i
    <3>1. CASE j = n
      BY <1>1, <1>2, <2>1, <3>1 DEF Looked
    <3>2. CASE j # n
      <4>1. i \in 1..Len(users) /\ j \in 1..Len(users)
        BY <1>1, <2>1, <3>2
      <4>2. users'[i] = users[i] /\ users'[j] = users[j]
        BY <1>2, <4>1
      <4>3. OneAccountUnlessTogether
        BY DEF IInv
      <4>. QED BY <2>1, <4>1, <4>2, <4>3 DEF OneAccountUnlessTogether
    <3>. QED BY <3>1, <3>2
  <2>. QED BY <1>2, <2>1 DEF OneAccountUnlessTogether
<1>11. LookedInv'
  <2>1. ASSUME NEW f \in User, Looked(users, f)
        PROVE  Looked(users', f)
    <3>1. f.since \in Nat /\ f.since <= Len(users)
      BY <2>1 DEF Looked, User
    <3>2. ASSUME NEW i \in 1..n, users'[i].email = f.email
          PROVE  i > f.since
      <4>1. CASE i = n
        BY <1>1, <3>1, <4>1
      <4>2. CASE i # n
        <5>1. i \in 1..Len(users)
          BY <1>1, <4>2
        <5>. QED BY <1>2, <2>1, <3>2, <5>1 DEF Looked
      <4>. QED BY <4>1, <4>2
    <3>. QED BY <1>1, <1>2, <3>1, <3>2 DEF Looked
  <2>2. ASSUME NEW c \in Browsers, NEW u \in Tabs,
               request'[c][u].kind = "register", request'[c][u].at # "idle"
        PROVE  Looked(users', request'[c][u].form)
    <3>1. request'[c][u].form = request[c][u].form
      BY <1>3, <1>6
    <3>2. Looked(users, request[c][u].form)
      BY <1>1, <1>6, <2>2 DEF IInv, LookedInv
    <3>3. request[c][u].form \in User
      BY <1>0, TabTypes DEF Request
    <3>. QED BY <2>1, <3>1, <3>2, <3>3
  <2>. QED BY <2>2 DEF LookedInv
<1>12. TypeOK'
  <2>1. cookie' \in [Browsers -> 0..n]
    BY <1>0, <1>1, <1>5 DEF TypeOK
  <2>. QED BY <1>0, <1>1, <1>2, <1>5, <1>6, <1>7, <2>1 DEF TypeOK
<1>. QED BY <1>8, <1>9, <1>10, <1>11, <1>12 DEF IInv

-----------------------------------------------------------------------------
(* The end of a request.                                                     *)

(* The response sets the cookie.                                             *)
LEMMA RespondsIInv ==
  ASSUME IInv, NEW b \in Browsers, NEW t \in Tabs, Responds(b, t)
  PROVE  IInv'
<1>0. TypeOK
  BY DEF IInv
<1>. DEFINE r == request[b][t]
            v == Saved(r)
<1>1. r \in Request /\ r.at = "respond"
  BY <1>0, TabTypes DEF Responds
<1>2. /\ v \in {0, r.session}
      /\ r.kind = "logout" => v = 0
  BY DEF Saved
<1>3. v \in earned[b] \cup {0} /\ v \in 0..Len(users)
  <2>1. r.session \in earned[b] \cup {0}
    BY DEF IInv, SessionsInv
  <2>2. earned[b] \subseteq 1..Len(users) /\ Len(users) \in Nat
    BY <1>0 DEF TypeOK
  <2>. QED BY <1>2, <2>1, <2>2
<1>4. /\ request' = [request EXCEPT ![b][t] = Idle]
      /\ cookie' = [cookie EXCEPT ![b] = v]
      /\ left' = [left EXCEPT ![b] =
                    @ \/ (r.kind = "logout" /\ Others(b, t) = {})]
      /\ UNCHANGED <<asks, store, earned>>
  BY DEF Responds
<1>5. /\ request' \in [Browsers -> [Tabs -> Request]]
      /\ request'[b][t] = Idle
      /\ \A c \in Browsers, u \in Tabs :
           (c # b \/ u # t) => request'[c][u] = request[c][u]
  BY <1>0, <1>4, IdleTypes, RequestStep
<1>. HIDE DEF v
<1>6. Idle.at = "idle" /\ Idle.session = 0 /\ ~Idle.shown /\ Idle.kind = "none"
  BY DEF Idle
<1>7. /\ cookie'[b] = v
      /\ \A c \in Browsers : c # b => cookie'[c] = cookie[c] /\ left'[c] = left[c]
  BY <1>0, <1>4 DEF TypeOK
<1>8. SessionsInv'
  BY <1>3, <1>4, <1>5, <1>6, <1>7 DEF IInv, SessionsInv
<1>9. LeftInv'
  <2>1. ASSUME left'[b]
        PROVE  v = 0
    BY <1>0, <1>1, <1>2, <1>4, <2>1 DEF IInv, LeftInv, TypeOK
  <2>2. ASSUME left'[b], NEW u \in Tabs, request'[b][u].at # "idle"
        PROVE  /\ request'[b][u].session = 0
               /\ request'[b][u].kind \notin {"login", "register"}
    <3>1. u # t /\ request'[b][u] = request[b][u]
      BY <1>5, <1>6, <2>2
    <3>2. CASE left[b]
      BY <2>2, <3>1, <3>2 DEF IInv, LeftInv
    <3>3. CASE Others(b, t) = {}
      BY <2>2, <3>1, <3>3 DEF Others
    <3>4. left[b] \/ Others(b, t) = {}
      BY <1>0, <1>4, <2>2 DEF TypeOK
    <3>. QED BY <3>2, <3>3, <3>4
  <2>3. ASSUME NEW c \in Browsers, c # b, left'[c]
        PROVE  /\ cookie'[c] = 0
               /\ \A u \in Tabs : request'[c][u].at # "idle" =>
                    /\ request'[c][u].session = 0
                    /\ request'[c][u].kind \notin {"login", "register"}
    BY <1>5, <1>7, <2>3 DEF IInv, LeftInv
  <2>. QED BY <1>7, <2>1, <2>2, <2>3 DEF LeftInv
<1>10. LookedInv' /\ OneAccountUnlessTogether'
  BY <1>4, <1>5, <1>6 DEF IInv, LookedInv, OneAccountUnlessTogether, store
<1>11. walk' \in [Browsers -> [Tabs -> Walk]]
  <2>. DEFINE w == IF r.kind = "list" /\ r.shown
                   THEN Walked(walk[b][t], r) ELSE NoWalk
  <2>1. walk' = [walk EXCEPT ![b][t] = w]
    BY <1>0 DEF Responds, Shows, TypeOK
  <2>2. w \in Walk
    BY <1>0, <1>1, TabTypes, WalkedTypes, IdleTypes
  <2>. QED BY <1>0, <2>1, <2>2, WalkStep
<1>12. TypeOK'
  <2>1. cookie' \in [Browsers -> 0..Len(users)] /\ left' \in [Browsers -> BOOLEAN]
    BY <1>0, <1>3, <1>4 DEF TypeOK
  <2>. QED BY <1>0, <1>4, <1>5, <1>11, <2>1 DEF TypeOK, store
<1>. QED BY <1>8, <1>9, <1>10, <1>12 DEF IInv

(* A request ends without one.                                               *)
LEMMA FailsIInv ==
  ASSUME IInv, NEW b \in Browsers, NEW t \in Tabs, Fails(b, t)
  PROVE  IInv'
<1>0. TypeOK
  BY DEF IInv
<1>1. /\ request' \in [Browsers -> [Tabs -> Request]]
      /\ request'[b][t] = Idle
      /\ \A c \in Browsers, u \in Tabs :
           (c # b \/ u # t) => request'[c][u] = request[c][u]
  BY <1>0, IdleTypes, RequestStep DEF Fails
<1>2. Idle.at = "idle" /\ Idle.session = 0 /\ ~Idle.shown /\ Idle.kind = "none"
  BY DEF Idle
<1>3. SessionsInv'
  BY <1>1, <1>2 DEF IInv, SessionsInv, Fails
<1>4. LeftInv'
  BY <1>1, <1>2 DEF IInv, LeftInv, Fails
<1>5. LookedInv' /\ OneAccountUnlessTogether'
  BY <1>1, <1>2 DEF IInv, LookedInv, OneAccountUnlessTogether, Fails, store
<1>6. walk' \in [Browsers -> [Tabs -> Walk]]
  BY <1>0, IdleTypes, WalkStep DEF Fails
<1>7. TypeOK'
  BY <1>0, <1>1, <1>6 DEF TypeOK, Fails, store
<1>. QED BY <1>3, <1>4, <1>5, <1>7 DEF IInv

-----------------------------------------------------------------------------
(* Every step keeps the invariant.                                           *)
LEMMA NextIInv == IInv /\ [Next]_vars => IInv'
<1>. SUFFICES ASSUME IInv, [Next]_vars PROVE IInv'
  OBVIOUS
<1>1. CASE UNCHANGED vars
  BY <1>1 DEF vars, store, browser, IInv, TypeOK, SessionsInv, LeftInv,
              LookedInv, OneAccountUnlessTogether
<1>2. CASE Arrive
  BY <1>2, ArriveIInv
<1>3. ASSUME NEW m \in Mail, DeletedElsewhere(m)
      PROVE  IInv'
  BY <1>3, DeletedElsewhereIInv
<1>4. ASSUME NEW b \in Browsers, NEW t \in Tabs,
             \/ AsksList(b, t) \/ AsksMail(b, t)
             \/ AsksEntry(b, t) \/ AsksOther(b, t)
      PROVE  IInv'
  BY <1>4, AsksListIInv, AsksMailIInv, AsksEntryIInv, AsksOtherIInv
<1>5. ASSUME NEW b \in Browsers, NEW t \in Tabs, Serves(b, t)
      PROVE  IInv'
  BY <1>5, NeedsLoginIInv, MailListTotalsIInv, MailListListsIInv,
     MailViewLoadsIInv, MailViewUpdatesIInv, MailDeleteIInv, LoginIInv,
     RegisterLooksIInv, RegisterInsertsIInv DEF Serves
<1>6. ASSUME NEW b \in Browsers, NEW t \in Tabs, Responds(b, t) \/ Fails(b, t)
      PROVE  IInv'
  BY <1>6, RespondsIInv, FailsIInv
<1>. QED BY <1>1, <1>2, <1>3, <1>4, <1>5, <1>6 DEF Next

(* The invariant holds in every state of the web mail.                       *)
THEOREM Inductive == Spec => []IInv
  BY InitIInv, NextIInv, PTL DEF Spec

(* The variables keep their types.                                           *)
THEOREM TypeCorrect == Spec => []TypeOK
<1>1. IInv => TypeOK
  BY DEF IInv
<1>. QED BY <1>1, Inductive, PTL

(* A session is always an account whose password the browser has given, for  *)
(* any number of browsers and tabs (handlers.go:182-200, 267).               *)
THEOREM SessionCorrect == Spec => []SessionIsEarned
<1>1. IInv => SessionIsEarned
  BY DEF IInv, SessionsInv, SessionIsEarned
<1>. QED BY <1>1, Inductive, PTL

(* A log-out with nothing else under way lasts (handlers.go:214).            *)
THEOREM LogoutCorrect == Spec => []LogoutLasts
<1>1. IInv => LogoutLasts
  BY DEF IInv, LeftInv, LogoutLasts
<1>. QED BY <1>1, Inductive, PTL

(* An address has two accounts only when they were registered together, or   *)
(* a query failed (handlers.go:243).                                         *)
THEOREM AccountsCorrect == Spec => []OneAccountUnlessTogether
<1>1. IInv => OneAccountUnlessTogether
  BY DEF IInv
<1>. QED BY <1>1, Inductive, PTL

-----------------------------------------------------------------------------
(* The order of the mails in a list.                                         *)

(* How many mails of the mailbox box are as new as m or newer.               *)
RankIn(box, m) == Cardinality({n \in box : n >= m})

(* A nonempty set of natural numbers has a least element: the intervals 0..x *)
(* for its members are finite sets, which strict inclusion orders well.      *)
LEMMA Smallest ==
  ASSUME NEW T \in SUBSET Nat, T # {}
  PROVE  \E x \in T : \A y \in T : x <= y
<1>. DEFINE D == {0 .. x : x \in T}
<1>1. IsWellFoundedOn(StrictSubsetOrdering(Nat), FiniteSubsetsOf(Nat))
  BY FS_StrictSubsetOrderingWellFounded
<1>2. D \subseteq FiniteSubsetsOf(Nat)
  <2>1. ASSUME NEW x \in T
        PROVE  IsFiniteSet(0 .. x) /\ 0 .. x \in SUBSET Nat
    BY FS_Interval
  <2>. QED BY <2>1 DEF FiniteSubsetsOf
<1>3. D # {}
  OBVIOUS
<1>. HIDE DEF D
<1>4. PICK d \in D : \A e \in D : <<e, d>> \notin StrictSubsetOrdering(Nat)
  BY <1>1, <1>2, <1>3, WFMin
<1>5. PICK x \in T : d = 0 .. x
  BY <1>4 DEF D
<1>6. ASSUME NEW y \in T, y < x
      PROVE  FALSE
  <2>1. 0 .. y \in D
    BY DEF D
  <2>2. x \in 0 .. x /\ x \notin 0 .. y
    BY <1>6
  <2>3. <<0 .. y, 0 .. x>> \in StrictSubsetOrdering(Nat)
    BY <1>6, <2>2 DEF StrictSubsetOrdering
  <2>. QED BY <2>1, <2>3, <1>4, <1>5
<1>. QED BY <1>6

(* Of a set of mails one is the newest.                                      *)
LEMMA Newest ==
  ASSUME NEW n \in Nat, NEW T \in SUBSET (1..n), T # {}
  PROVE  \E x \in T : \A y \in T : y <= x
<1>. DEFINE D == {n - x : x \in T}
<1>1. D \in SUBSET Nat /\ D # {}
  <2>1. \A x \in T : x \in Nat /\ n - x \in Nat
    OBVIOUS
  <2>. QED BY <2>1
<1>. HIDE DEF D
<1>2. PICK d \in D : \A e \in D : d <= e
  BY <1>1, Smallest
<1>3. PICK x \in T : d = n - x
  BY <1>2 DEF D
<1>4. ASSUME NEW y \in T
      PROVE  y <= x
  <2>1. n - y \in D
    BY DEF D
  <2>2. n - x <= n - y
    BY <1>2, <1>3, <2>1
  <2>. QED BY <2>2
<1>. QED BY <1>4

(* The mailbox and its parts are finite.                                     *)
LEMMA BoxFinite ==
  ASSUME NEW n \in Nat, NEW box \in SUBSET (1..n)
  PROVE  /\ IsFiniteSet(box) /\ Cardinality(box) \in Nat
         /\ \A m : /\ IsFiniteSet({k \in box : k >= m})
                   /\ RankIn(box, m) \in Nat
                   /\ RankIn(box, m) <= Cardinality(box)
<1>1. IsFiniteSet(1..n)
  BY FS_Interval
<1>2. IsFiniteSet(box)
  BY <1>1, FS_Subset
<1>3. Cardinality(box) \in Nat
  BY <1>2, FS_CardinalityType
<1>4. ASSUME NEW m
      PROVE  /\ IsFiniteSet({k \in box : k >= m})
             /\ RankIn(box, m) \in Nat
             /\ RankIn(box, m) <= Cardinality(box)
  <2>. DEFINE S == {k \in box : k >= m}
  <2>1. S \in SUBSET box
    OBVIOUS
  <2>. HIDE DEF S
  <2>2. IsFiniteSet(S) /\ Cardinality(S) <= Cardinality(box)
    BY <1>2, <2>1, FS_Subset
  <2>3. Cardinality(S) \in Nat
    BY <2>2, FS_CardinalityType
  <2>. QED BY <2>2, <2>3 DEF RankIn, S
<1>. QED BY <1>2, <1>3, <1>4

(* An older mail comes later in the list.                                    *)
LEMMA RankOrder ==
  ASSUME NEW n \in Nat, NEW box \in SUBSET (1..n), NEW x \in box, NEW m \in box,
         x < m
  PROVE  RankIn(box, x) > RankIn(box, m)
<1>. DEFINE S == {k \in box : k >= x}
            T == {k \in box : k >= m}
<1>0. \A k \in box : k \in Nat
  OBVIOUS
<1>1. T \in SUBSET S /\ x \in S /\ x \notin T
  <2>1. x \in Nat /\ m \in Nat /\ x >= x /\ ~(x >= m)
    BY <1>0
  <2>2. \A k \in box : k >= m => k >= x
    BY <1>0, <2>1
  <2>. QED BY <2>1, <2>2
<1>2. IsFiniteSet(S) /\ Cardinality(S) \in Nat /\ Cardinality(T) \in Nat
  BY BoxFinite DEF RankIn
<1>. HIDE DEF S, T
<1>3. Cardinality(T) <= Cardinality(S) /\ Cardinality(S) # Cardinality(T)
  BY <1>1, <1>2, FS_Subset
<1>. QED BY <1>2, <1>3 DEF RankIn, S, T

(* New mail comes first, and moves the others back.                          *)
LEMMA RankGrows ==
  ASSUME NEW n \in Nat, NEW box \in SUBSET (1..n)
  PROVE  /\ box \cup {n + 1} \in SUBSET (1..n + 1)
         /\ Cardinality(box \cup {n + 1}) = Cardinality(box) + 1
         /\ \A m : RankIn(box \cup {n + 1}, m) >= RankIn(box, m)
<1>1. n + 1 \notin box /\ box \cup {n + 1} \in SUBSET (1..n + 1) /\ n + 1 \in Nat
  OBVIOUS
<1>2. Cardinality(box \cup {n + 1}) = Cardinality(box) + 1
  BY <1>1, BoxFinite, FS_AddElement
<1>3. ASSUME NEW m
      PROVE  RankIn(box \cup {n + 1}, m) >= RankIn(box, m)
  <2>. DEFINE S == {k \in box \cup {n + 1} : k >= m}
              T == {k \in box : k >= m}
  <2>1. IsFiniteSet(S) /\ RankIn(box \cup {n + 1}, m) \in Nat /\ RankIn(box, m) \in Nat
    BY <1>1, BoxFinite
  <2>2. T \in SUBSET S
    OBVIOUS
  <2>3. Cardinality(T) <= Cardinality(S)
    BY <2>1, <2>2, FS_Subset
  <2>. QED BY <2>1, <2>3 DEF RankIn
<1>. QED BY <1>1, <1>2, <1>3

(* There is a mail in every place of the list.                               *)
LEMMA RankReached ==
  ASSUME NEW n \in Nat, NEW box \in SUBSET (1..n), NEW k \in 1..Cardinality(box)
  PROVE  \E m \in box : RankIn(box, m) = k
<1>. DEFINE G == {m \in box : RankIn(box, m) >= k}
<1>1. IsFiniteSet(box) /\ Cardinality(box) \in Nat /\ \A m : RankIn(box, m) \in Nat
  BY BoxFinite
<1>2. \A j \in box : j \in Nat
  OBVIOUS
<1>3. G # {}
  <2>1. box # {}
    BY <1>1, FS_EmptySet
  <2>2. PICK x \in box : \A y \in box : x <= y
    BY <2>1, Smallest
  <2>3. {j \in box : j >= x} = box
    BY <2>2
  <2>4. RankIn(box, x) = Cardinality(box)
    BY <2>3 DEF RankIn
  <2>. QED BY <1>1, <2>4
<1>4. PICK m \in G : \A y \in G : y <= m
  BY <1>3, Newest
<1>5. RankIn(box, m) > k => FALSE
  <2>1. SUFFICES ASSUME RankIn(box, m) > k PROVE FALSE
    OBVIOUS
  <2>. DEFINE S == {j \in box : j >= m}
              T == {j \in box : j > m}
  <2>2. m \in S /\ T = S \ {m}
    <3>1. m \in box /\ m \in Nat /\ m >= m
      BY <1>2
    <3>2. \A j \in box : j > m <=> j >= m /\ j # m
      BY <1>2, <3>1
    <3>. QED BY <3>1, <3>2
  <2>3. IsFiniteSet(S) /\ Cardinality(S) = RankIn(box, m)
    BY BoxFinite DEF RankIn
  <2>. HIDE DEF S
  <2>4. IsFiniteSet(T) /\ Cardinality(T) = RankIn(box, m) - 1
    BY <2>2, <2>3, FS_RemoveElement
  <2>5. T # {}
    BY <1>1, <2>1, <2>4, FS_EmptySet
  <2>6. T \in SUBSET Nat /\ m \in Nat
    BY <1>2
  <2>7. PICK x \in T : \A y \in T : x <= y
    BY <2>5, <2>6, Smallest
  <2>8. {j \in box : j >= x} = T
    <3>1. \A j \in box : j >= x <=> j > m
      BY <1>2, <2>6, <2>7
    <3>. QED BY <3>1
  <2>9. RankIn(box, x) = RankIn(box, m) - 1
    BY <2>4, <2>8 DEF RankIn
  <2>10. x \in G
    BY <1>1, <2>1, <2>9, <2>6
  <2>. QED BY <1>4, <2>6, <2>7, <2>10
<1>. QED BY <1>1, <1>4, <1>5

(* More mail does not take fewer pages.                                      *)
LEMMA PagesGrow ==
  ASSUME NEW few \in Nat, NEW many \in Nat, few <= many, NEW limit \in Nat \ {0}
  PROVE  PagesOf(few, limit) <= PagesOf(many, limit)
<1>. DEFINE p == PagesOf(few, limit)
            q == PagesOf(many, limit)
<1>1. p \in Nat /\ q \in Nat
  BY PagesNat
<1>2. q * limit >= many /\ (few > 0 => (p - 1) * limit < few)
  BY PagesCoverTotal DEF Offset
<1>3. CASE few = 0
  <2>1. 0 + limit - 1 \in 0..limit - 1
    OBVIOUS
  <2>2. p = 0
    BY <1>3, <2>1 DEF PagesOf
  <2>. QED BY <1>1, <2>2
<1>4. CASE few > 0
  <2>. HIDE DEF p, q
  <2>1. (p - 1) * limit < q * limit
    BY <1>1, <1>2, <1>4
  <2>2. p - 1 < q
    <3>1. SUFFICES ASSUME p - 1 >= q PROVE FALSE
      BY <1>1
    <3>2. p - 1 = q + (p - 1 - q) /\ p - 1 - q \in Nat
      BY <1>1, <3>1
    <3>3. (p - 1) * limit = q * limit + (p - 1 - q) * limit
      BY <1>1, <3>2
    <3>4. (p - 1 - q) * limit \in Nat
      BY <1>1, <3>2
    <3>5. q * limit \in Nat
      BY <1>1
    <3>. QED BY <2>1, <3>3, <3>4, <3>5
  <2>. QED BY <1>1, <2>2 DEF p, q
<1>. QED BY <1>3, <1>4

-----------------------------------------------------------------------------
(* Walks.                                                                    *)

(* What an intact walk w says of the mailbox box, of the first n mails: Next *)
(* is offered when there is a next page; a mail older than one on the first  *)
(* page that has not been seen is not yet on the pages up to the last one;   *)
(* and there is no gap.                                                      *)
WalkOk(w, box, n) ==
  w.intact =>
    /\ w.first \subseteq 1..n
    /\ w.next => w.page >= 1 /\ w.page < PagesOf(Cardinality(box), Limit)
    /\ \A m \in box \ w.seen :
         (\E y \in w.first : m < y) => RankIn(box, m) > w.page * Limit
    /\ \A m \in box :
         (\E x \in w.seen, y \in w.first : x < m /\ m < y) => m \in w.seen

(* What a request for a list knows of the walk w of its tab, as long as both *)
(* are intact; what it will have walked is in order.                         *)
ListOk(w, r, box, n) ==
  r.kind = "list" /\ r.at # "idle" /\ r.intact =>
    /\ r.follows => w.intact /\ w.next /\ r.page = w.page + 1
    /\ r.at = "query" => ~r.shown
    /\ r.at = "change" =>
         /\ r.total <= Cardinality(box)
         /\ r.page <= PagesOf(r.total, Limit)
    /\ r.at = "respond" =>
         /\ r.shown => WalkOk(Walked(w, r), box, n)
         /\ r.follows /\ r.session # 0 => r.shown /\ r.rows # {}

WalksInv ==
  /\ mails \subseteq 1..arrived
  /\ \A b \in Browsers, t \in Tabs :
       /\ WalkOk(walk[b][t], mails, arrived)
       /\ ListOk(walk[b][t], request[b][t], mails, arrived)

(* The limit of a page is one.                                               *)
LEMMA LimitIs == Limit \in Nat \ {0} /\ LimitOf(Limit) = Limit
  BY WebmailAssumption DEF LimitOf

(* Of a walk or a list that is no longer intact nothing is said, nor of one  *)
(* that has not begun.                                                       *)
LEMMA NothingSaid ==
  ASSUME NEW box, NEW n, NEW w, NEW r
  PROVE  /\ WalkOk(NoWalk, box, n)
         /\ ~w.intact => WalkOk(w, box, n)
         /\ r.kind # "list" \/ r.at = "idle" \/ ~r.intact => ListOk(w, r, box, n)
  BY DEF WalkOk, NoWalk, ListOk

(* A mail that comes does not disturb a walk.                                *)
LEMMA WalkGrows ==
  ASSUME NEW n \in Nat, NEW box \in SUBSET (1..n), NEW w \in Walk,
         WalkOk(w, box, n)
  PROVE  WalkOk(w, box \cup {n + 1}, n + 1)
<1>. SUFFICES ASSUME w.intact PROVE WalkOk(w, box \cup {n + 1}, n + 1)
  BY DEF WalkOk
<1>. DEFINE new == box \cup {n + 1}
<1>1. /\ Cardinality(new) = Cardinality(box) + 1 /\ Cardinality(box) \in Nat
      /\ new \in SUBSET (1..n + 1) /\ n + 1 \in Nat
      /\ \A m : RankIn(new, m) >= RankIn(box, m)
                /\ RankIn(new, m) \in Nat /\ RankIn(box, m) \in Nat
  <2>1. /\ new \in SUBSET (1..n + 1) /\ n + 1 \in Nat
        /\ Cardinality(new) = Cardinality(box) + 1
        /\ \A m : RankIn(new, m) >= RankIn(box, m)
    BY RankGrows
  <2>2. \A m : RankIn(new, m) \in Nat /\ RankIn(box, m) \in Nat
    BY <2>1, BoxFinite
  <2>. QED BY <2>1, <2>2, BoxFinite
<1>2. w.first \subseteq 1..n /\ w.page \in Nat
  BY DEF WalkOk, Walk
<1>3. \A y \in w.first : ~(n + 1 < y)
  BY <1>2
<1>4. w.first \subseteq 1..n + 1
  BY <1>2
<1>5. w.next => w.page >= 1 /\ w.page < PagesOf(Cardinality(new), Limit)
  <2>1. PagesOf(Cardinality(box), Limit) <= PagesOf(Cardinality(new), Limit)
    BY <1>1, PagesGrow, LimitIs
  <2>2. /\ PagesOf(Cardinality(box), Limit) \in Nat
        /\ PagesOf(Cardinality(new), Limit) \in Nat
    BY <1>1, PagesNat, LimitIs
  <2>. QED BY <1>2, <2>1, <2>2 DEF WalkOk
<1>6. ASSUME NEW m \in new \ w.seen, \E y \in w.first : m < y
      PROVE  RankIn(new, m) > w.page * Limit
  <2>1. m \in box \ w.seen
    BY <1>3, <1>6
  <2>2. RankIn(box, m) > w.page * Limit
    BY <1>6, <2>1 DEF WalkOk
  <2>3. w.page * Limit \in Nat
    BY <1>2, LimitIs
  <2>. HIDE DEF new
  <2>. QED BY <1>1, <2>2, <2>3
<1>7. ASSUME NEW m \in new, \E x \in w.seen, y \in w.first : x < m /\ m < y
      PROVE  m \in w.seen
  BY <1>3, <1>7 DEF WalkOk
<1>. HIDE DEF new
<1>8. WalkOk(w, new, n + 1)
  BY <1>4, <1>5, <1>6, <1>7 DEF WalkOk
<1>. QED BY <1>8 DEF new

(* Nor a list that is being made.                                            *)
LEMMA ListGrows ==
  ASSUME NEW n \in Nat, NEW box \in SUBSET (1..n), NEW w \in Walk,
         NEW r \in Request, ListOk(w, r, box, n)
  PROVE  ListOk(w, r, box \cup {n + 1}, n + 1)
<1>1. Cardinality(box \cup {n + 1}) = Cardinality(box) + 1 /\ Cardinality(box) \in Nat
  BY RankGrows, BoxFinite
<1>2. r.total \in Nat /\ Walked(w, r) \in Walk
  BY WalkedTypes DEF Request
<1>3. r.total <= Cardinality(box) => r.total <= Cardinality(box \cup {n + 1})
  BY <1>1, <1>2
<1>4. WalkOk(Walked(w, r), box, n) => WalkOk(Walked(w, r), box \cup {n + 1}, n + 1)
  BY <1>2, WalkGrows
<1>. QED BY <1>3, <1>4 DEF ListOk

-----------------------------------------------------------------------------
(* The two queries of a list.                                                *)

(* Total: a page that Next leads to is there.                                *)
LEMMA Totals ==
  ASSUME NEW n \in Nat, NEW box \in SUBSET (1..n), NEW w \in Walk,
         NEW r \in Request, r.kind = "list", r.at = "query",
         WalkOk(w, box, n), ListOk(w, r, box, n),
         NEW s \in Request,
         s = [r EXCEPT !.total = Cardinality(box),
                       !.at = IF r.page > PagesOf(Cardinality(box), Limit)
                              THEN "respond" ELSE "change"]
  PROVE  ListOk(w, s, box, n)
<1>1. Cardinality(box) \in Nat /\ PagesOf(Cardinality(box), Limit) \in Nat
  BY BoxFinite, PagesNat, LimitIs
<1>2. /\ s.kind = "list" /\ s.intact = r.intact /\ s.follows = r.follows
      /\ s.page = r.page /\ s.shown = r.shown /\ s.total = Cardinality(box)
      /\ s.at = IF r.page > PagesOf(Cardinality(box), Limit)
                THEN "respond" ELSE "change"
      /\ r.page \in Nat /\ w.page \in Nat
  BY DEF Request, Walk
<1>. SUFFICES ASSUME r.intact PROVE ListOk(w, s, box, n)
  BY <1>2 DEF ListOk
<1>3. ~r.shown /\ (r.follows => w.intact /\ w.next /\ r.page = w.page + 1)
  BY DEF ListOk
<1>4. r.follows => r.page <= PagesOf(Cardinality(box), Limit)
  BY <1>1, <1>2, <1>3 DEF WalkOk
<1>. QED BY <1>1, <1>2, <1>3, <1>4 DEF ListOk

(* The page that is listed.                                                  *)
LEMMA ListedIs ==
  ASSUME NEW r \in Request, r.page <= PagesOf(r.total, Limit),
         Listed(r).offset >= 0
  PROVE  /\ Listed(r).page \in Nat /\ Listed(r).page >= 1
         /\ Listed(r).page <= PagesOf(r.total, Limit)
         /\ r.page >= 1 => Listed(r).page = r.page
         /\ Listed(r).limit = Limit
         /\ Listed(r).offset = (Listed(r).page - 1) * Limit
         /\ Listed(r).offset + Limit = Listed(r).page * Limit
         /\ Listed(r).pages = PagesOf(r.total, Limit)
<1>. DEFINE p == Listed(r)
<1>1. /\ r.total \in Nat /\ r.page \in Nat
      /\ Limit \in Nat \ {0} /\ LimitOf(Limit) = Limit
      /\ PagesOf(r.total, Limit) \in Nat
  BY PagesNat, LimitIs DEF Request
<1>2. /\ p.page = PageOf(r.page, PagesOf(r.total, Limit))
      /\ p.limit = Limit /\ p.offset = (p.page - 1) * Limit
      /\ p.pages = PagesOf(r.total, Limit)
  BY <1>1 DEF Listed, Paginate, Offset
<1>. HIDE DEF p
<1>3. p.page \in Nat /\ p.page <= PagesOf(r.total, Limit)
      /\ (r.page >= 1 => p.page = r.page)
  BY <1>1, <1>2 DEF PageOf, Least, Most
<1>4. p.page >= 1
  <2>1. p.page = 0 => p.offset = -Limit
    BY <1>1, <1>2
  <2>. QED BY <1>1, <1>3, <2>1 DEF p
<1>5. p.offset + Limit = p.page * Limit
  <2>1. (p.page - 1) * Limit = p.page * Limit - Limit
    BY <1>1, <1>3
  <2>2. p.page * Limit \in Nat
    BY <1>1, <1>3
  <2>. QED BY <1>1, <1>2, <2>1, <2>2
<1>. QED BY <1>2, <1>3, <1>4, <1>5 DEF p

(* List: its rows lengthen the walk without a gap, and there are some.       *)
LEMMA Lists ==
  ASSUME NEW n \in Nat, NEW box \in SUBSET (1..n), NEW w \in Walk,
         NEW r \in Request, r.kind = "list", r.at = "change",
         WalkOk(w, box, n), ListOk(w, r, box, n), Listed(r).offset >= 0,
         NEW rows, NEW s \in Request,
         rows = {m \in box : RankIn(box, m) \in
                   Listed(r).offset + 1..Listed(r).offset + Listed(r).limit},
         s = [r EXCEPT !.at = "respond", !.shown = TRUE, !.rows = rows]
  PROVE  ListOk(w, s, box, n)
<1>. DEFINE p == Listed(r)
            v == Walked(w, s)
<1>1. /\ s.kind = "list" /\ s.at = "respond" /\ s.shown /\ s.rows = rows
      /\ s.intact = r.intact /\ s.follows = r.follows /\ s.page = r.page
      /\ s.total = r.total /\ Listed(s) = p
      /\ r.total \in Nat /\ r.page \in Nat /\ w.page \in Nat
  BY DEF Request, Walk, Listed
<1>. SUFFICES ASSUME r.intact PROVE ListOk(w, s, box, n)
  BY <1>1 DEF ListOk
<1>2. /\ r.total <= Cardinality(box) /\ r.page <= PagesOf(r.total, Limit)
      /\ r.follows => w.intact /\ w.next /\ r.page = w.page + 1 /\ w.page >= 1
  BY DEF ListOk, WalkOk
<1>3. /\ p.page \in Nat /\ p.page >= 1 /\ p.page <= PagesOf(r.total, Limit)
      /\ r.page >= 1 => p.page = r.page
      /\ p.limit = Limit /\ p.offset = (p.page - 1) * Limit
      /\ p.offset + Limit = p.page * Limit
      /\ p.pages = PagesOf(r.total, Limit)
  BY <1>2, ListedIs
<1>4. Cardinality(box) \in Nat /\ \A m : RankIn(box, m) \in Nat
  BY BoxFinite
<1>5. PagesOf(r.total, Limit) \in Nat /\ PagesOf(Cardinality(box), Limit) \in Nat
      /\ PagesOf(r.total, Limit) <= PagesOf(Cardinality(box), Limit)
      /\ Limit \in Nat \ {0}
  BY <1>1, <1>2, <1>4, PagesNat, PagesGrow, LimitIs
<1>6. r.follows => p.page = w.page + 1 /\ p.offset = w.page * Limit
  BY <1>1, <1>2, <1>3
<1>7. p.offset \in Nat
  BY <1>3, <1>5
<1>8. rows = {m \in box : p.offset < RankIn(box, m)
                           /\ RankIn(box, m) <= p.page * Limit}
  <2>. HIDE DEF p
  <2>1. \A k \in Nat : k \in p.offset + 1..p.offset + p.limit
                         <=> p.offset < k /\ k <= p.page * Limit
    BY <1>3, <1>5, <1>7
  <2>. QED BY <1>4, <2>1 DEF p
<1>9. rows # {}
  <2>1. p.offset < Cardinality(box)
    <3>1. r.total > 0
      <4>1. PagesOf(0, Limit) = 0
        <5>1. 0 + Limit - 1 \in 0..Limit - 1
          BY <1>5
        <5>. QED BY <1>5, <5>1 DEF PagesOf
      <4>. QED BY <1>1, <1>3, <4>1
    <3>2. (PagesOf(r.total, Limit) - 1) * Limit < r.total
      BY <1>1, <1>5, <3>1, PagesCoverTotal DEF Offset
    <3>3. (p.page - 1) * Limit <= (PagesOf(r.total, Limit) - 1) * Limit
      <4>. DEFINE q == PagesOf(r.total, Limit)
      <4>. HIDE DEF p, q
      <4>1. q - p.page \in Nat /\ (q - 1) * Limit = (p.page - 1) * Limit + (q - p.page) * Limit
        BY <1>3, <1>5 DEF q
      <4>2. (q - p.page) * Limit \in Nat /\ (p.page - 1) * Limit \in Int
        BY <1>3, <1>5, <4>1
      <4>. QED BY <4>1, <4>2 DEF q
    <3>4. (PagesOf(r.total, Limit) - 1) * Limit \in Int
      BY <1>5
    <3>. HIDE DEF p
    <3>. QED BY <1>1, <1>2, <1>3, <1>4, <1>7, <3>2, <3>3, <3>4 DEF p
  <2>2. PICK m \in box : RankIn(box, m) = p.offset + 1
    <3>1. p.offset + 1 \in 1..Cardinality(box)
      BY <1>4, <1>7, <2>1
    <3>. QED BY <3>1, RankReached
  <2>3. p.offset < p.offset + 1 /\ p.offset + 1 <= p.page * Limit
    BY <1>3, <1>5, <1>7
  <2>. QED BY <1>8, <2>2, <2>3
<1>10. /\ v.page = p.page /\ v.next = HasNext(p) /\ v.intact = r.intact
       /\ v.first = (IF r.follows THEN w.first ELSE rows)
       /\ v.seen = (IF r.follows THEN w.seen \cup rows ELSE rows)
  BY <1>1 DEF Walked
<1>. HIDE DEF p, v
<1>11. v.first \subseteq 1..n
  BY <1>2, <1>8, <1>10 DEF WalkOk
<1>12. v.next => v.page < PagesOf(Cardinality(box), Limit)
  <2>1. /\ p = Paginate(r.total, Limit, r.page) /\ p.pages > 0
        /\ Limit \in Int /\ r.page \in Int
    BY <1>1, <1>3, <1>5 DEF p, Listed
  <2>2. HasNext(p) <=> p.page < p.pages
    BY <1>1, <2>1, LinksAreRight
  <2>. QED BY <1>3, <1>5, <1>10, <2>2
<1>13. \A m \in box : m \in Nat
  OBVIOUS
<1>14. \A y \in v.first : y \in Nat
  BY <1>11
(* An older mail than a row is a row, or on a later page.                    *)
<1>15. ASSUME NEW m \in box \ rows, NEW y \in rows, m < y
       PROVE  RankIn(box, m) > p.page * Limit
  <2>1. y \in box /\ RankIn(box, y) > p.offset
    BY <1>8, <1>15
  <2>2. RankIn(box, m) > RankIn(box, y)
    BY <1>15, <2>1, RankOrder
  <2>3. RankIn(box, m) > p.offset
    BY <1>4, <1>7, <2>1, <2>2
  <2>4. p.page * Limit \in Nat
    BY <1>3, <1>5
  <2>. QED BY <1>4, <1>8, <2>3, <2>4
(* A mail that is older than one on the first page and not yet seen was on   *)
(* no page before this one.                                                  *)
<1>16. ASSUME NEW m \in box \ v.seen, NEW y \in v.first, m < y
       PROVE  RankIn(box, m) > v.page * Limit
  <2>1. m \in box \ rows
    BY <1>10
  <2>2. CASE r.follows
    <3>1. m \in box \ w.seen /\ y \in w.first
      BY <1>10, <2>2
    <3>2. RankIn(box, m) > w.page * Limit
      BY <1>2, <1>16, <2>2, <3>1 DEF WalkOk
    <3>3. RankIn(box, m) > p.offset
      BY <1>6, <2>2, <3>2
    <3>4. p.page * Limit \in Nat
      BY <1>3, <1>5
    <3>. QED BY <1>4, <1>8, <1>10, <2>1, <3>3, <3>4
  <2>3. CASE ~r.follows
    BY <1>10, <1>15, <1>16, <2>1, <2>3
  <2>. QED BY <2>2, <2>3
<1>17. ASSUME NEW m \in box, NEW x \in v.seen, NEW y \in v.first, x < m, m < y,
              m \notin v.seen
       PROVE  FALSE
  <2>1. RankIn(box, m) > p.page * Limit
    BY <1>10, <1>16, <1>17
  <2>2. CASE x \in rows
    <3>1. x \in box /\ RankIn(box, x) <= p.page * Limit
      BY <1>8, <2>2
    <3>2. RankIn(box, x) > RankIn(box, m)
      BY <1>17, <3>1, RankOrder
    <3>3. p.page * Limit \in Nat
      BY <1>3, <1>5
    <3>. QED BY <1>4, <2>1, <3>1, <3>2, <3>3
  <2>3. CASE x \notin rows
    <3>1. r.follows /\ x \in w.seen /\ y \in w.first /\ m \notin w.seen
      BY <1>10, <1>17, <2>3
    <3>. QED BY <1>2, <1>17, <3>1 DEF WalkOk
  <2>. QED BY <2>2, <2>3
<1>18. WalkOk(v, box, n)
  BY <1>3, <1>10, <1>11, <1>12, <1>16, <1>17 DEF WalkOk
<1>. QED BY <1>1, <1>2, <1>9, <1>18 DEF ListOk, v

-----------------------------------------------------------------------------
(* Every step keeps the walks in order.                                      *)

(* Requests go on, and neither the mailbox nor a walk changes.               *)
LEMMA WalksGoOn ==
  ASSUME WalksInv, UNCHANGED <<mails, arrived, walk>>,
         \A b \in Browsers, t \in Tabs :
           ListOk(walk[b][t], request'[b][t], mails, arrived)
  PROVE  WalksInv'
  BY DEF WalksInv

(* One request goes on.                                                      *)
LEMMA OneGoesOn ==
  ASSUME TypeOK, WalksInv, UNCHANGED <<mails, arrived, walk>>,
         NEW b \in Browsers, NEW t \in Tabs, NEW r \in Request,
         request' = [request EXCEPT ![b][t] = r],
         ListOk(walk[b][t], r, mails, arrived)
  PROVE  WalksInv'
<1>1. /\ request'[b][t] = r
      /\ \A c \in Browsers, u \in Tabs :
           (c # b \/ u # t) => request'[c][u] = request[c][u]
  BY RequestStep
<1>2. ASSUME NEW c \in Browsers, NEW u \in Tabs
      PROVE  ListOk(walk[c][u], request'[c][u], mails, arrived)
  BY <1>1 DEF WalksInv
<1>. QED BY <1>2, WalksGoOn

(* The walk of one tab changes, and its request ends.                        *)
LEMMA OneEnds ==
  ASSUME TypeOK, WalksInv, UNCHANGED <<mails, arrived>>,
         NEW b \in Browsers, NEW t \in Tabs, NEW w \in Walk,
         request' = [request EXCEPT ![b][t] = Idle],
         walk' = [walk EXCEPT ![b][t] = w],
         WalkOk(w, mails, arrived)
  PROVE  WalksInv'
<1>0. Idle.at = "idle"
  BY DEF Idle
<1>1. /\ request'[b][t] = Idle
      /\ \A c \in Browsers, u \in Tabs :
           (c # b \/ u # t) => request'[c][u] = request[c][u]
  BY IdleTypes, RequestStep
<1>2. /\ walk'[b][t] = w
      /\ \A c \in Browsers, u \in Tabs :
           (c # b \/ u # t) => walk'[c][u] = walk[c][u]
  BY DEF TypeOK
<1>3. ASSUME NEW c \in Browsers, NEW u \in Tabs
      PROVE  /\ WalkOk(walk'[c][u], mails, arrived)
             /\ ListOk(walk'[c][u], request'[c][u], mails, arrived)
  <2>1. CASE c = b /\ u = t
    BY <1>0, <1>1, <1>2, <2>1, NothingSaid
  <2>2. CASE c # b \/ u # t
    BY <1>1, <1>2, <2>2 DEF WalksInv
  <2>. QED BY <2>1, <2>2
<1>. QED BY <1>3 DEF WalksInv

(* A mail goes, and no list is intact any more.                              *)
LEMMA GoneIsBroken ==
  ASSUME TypeOK, WalksInv, NEW m, Goes(m), UNCHANGED arrived,
         walk' = Broken(walk),
         \A b \in Browsers, t \in Tabs :
           request'[b][t].kind # "list" \/ ~request'[b][t].intact
  PROVE  WalksInv'
<1>1. ASSUME NEW b \in Browsers, NEW t \in Tabs
      PROVE  ~walk'[b][t].intact
  <2>1. walk[b][t] \in Walk
    BY TabTypes
  <2>2. walk'[b][t] = [walk[b][t] EXCEPT !.intact = FALSE]
    BY DEF Broken
  <2>. QED BY <2>1, <2>2 DEF Walk
<1>2. mails' \subseteq 1..arrived'
  BY DEF Goes, WalksInv
<1>3. ASSUME NEW b \in Browsers, NEW t \in Tabs
      PROVE  /\ WalkOk(walk'[b][t], mails', arrived')
             /\ ListOk(walk'[b][t], request'[b][t], mails', arrived')
  BY <1>1, NothingSaid
<1>. QED BY <1>2, <1>3 DEF WalksInv

(* Mail comes and goes.                                                      *)
LEMMA MailboxWalks ==
  ASSUME IInv, WalksInv,
         \/ Arrive
         \/ \E m \in Mail : DeletedElsewhere(m)
         \/ \E b \in Browsers, t \in Tabs : MailDelete(b, t)
  PROVE  WalksInv'
<1>0. TypeOK
  BY DEF IInv
<1>1. CASE Arrive
  <2>1. /\ arrived \in Nat /\ mails \in SUBSET (1..arrived)
        /\ arrived' = arrived + 1 /\ mails' = mails \cup {arrived + 1}
        /\ UNCHANGED <<request, walk>>
    BY <1>0, <1>1 DEF TypeOK, WalksInv, Arrive, browser
  <2>2. mails' \subseteq 1..arrived'
    BY <2>1, RankGrows
  <2>3. ASSUME NEW b \in Browsers, NEW t \in Tabs
        PROVE  /\ WalkOk(walk'[b][t], mails', arrived')
               /\ ListOk(walk'[b][t], request'[b][t], mails', arrived')
    <3>1. walk[b][t] \in Walk /\ request[b][t] \in Request
      BY <1>0, TabTypes
    <3>2. /\ WalkOk(walk[b][t], mails, arrived)
          /\ ListOk(walk[b][t], request[b][t], mails, arrived)
      BY DEF WalksInv
    <3>. QED BY <2>1, <3>1, <3>2, WalkGrows, ListGrows
  <2>. QED BY <2>2, <2>3 DEF WalksInv
<1>2. \A b \in Browsers, t \in Tabs : ~Broken(request)[b][t].intact
  <2>1. ASSUME NEW b \in Browsers, NEW t \in Tabs
        PROVE  ~Broken(request)[b][t].intact
    <3>1. request[b][t] \in Request
      BY <1>0, TabTypes
    <3>2. Broken(request)[b][t] = [request[b][t] EXCEPT !.intact = FALSE]
      BY <1>0, BrokenStep
    <3>. QED BY <3>1, <3>2 DEF Request
  <2>. QED BY <2>1
<1>3. ASSUME NEW m \in Mail, DeletedElsewhere(m)
      PROVE  WalksInv'
  BY <1>0, <1>2, <1>3, GoneIsBroken DEF DeletedElsewhere
<1>4. ASSUME NEW b \in Browsers, NEW t \in Tabs, MailDelete(b, t)
      PROVE  WalksInv'
  <2>1. /\ request[b][t].kind = "delete" /\ Goes(request[b][t].mail)
        /\ request' = [Broken(request) EXCEPT ![b][t].at = "respond"]
        /\ walk' = Broken(walk) /\ UNCHANGED arrived
    BY <1>4 DEF MailDelete, At
  <2>2. Broken(request) \in [Browsers -> [Tabs -> Request]]
    BY <1>0, BrokenStep
  <2>3. ASSUME NEW c \in Browsers, NEW u \in Tabs
        PROVE  request'[c][u].kind # "list" \/ ~request'[c][u].intact
    <3>1. /\ Broken(request)[c][u] \in Request
          /\ request'[c][u] \in {Broken(request)[c][u],
                                 [Broken(request)[c][u] EXCEPT !.at = "respond"]}
      BY <2>1, <2>2
    <3>2. request'[c][u].intact = Broken(request)[c][u].intact
      BY <3>1 DEF Request
    <3>. QED BY <1>2, <3>2
  <2>. QED BY <1>0, <2>1, <2>3, GoneIsBroken
<1>. QED BY <1>1, <1>3, <1>4

(* A request that is sent.                                                   *)
LEMMA SendsWalks ==
  ASSUME IInv, WalksInv, NEW b \in Browsers, NEW t \in Tabs, NEW r \in Request,
         Sends(b, t, r), ~r.shown,
         r.kind = "list" =>
           /\ r.at = "query"
           /\ r.follows => /\ r.page = walk[b][t].page + 1 /\ walk[b][t].next
                           /\ r.intact = walk[b][t].intact
  PROVE  WalksInv'
<1>. DEFINE s == [r EXCEPT !.session = cookie[b]]
<1>0. TypeOK
  BY DEF IInv
<1>1. cookie[b] \in Nat
  BY <1>0 DEF TypeOK
<1>2. /\ s \in Request
      /\ s.kind = r.kind /\ s.at = r.at /\ s.shown = r.shown
      /\ s.follows = r.follows /\ s.page = r.page /\ s.intact = r.intact
  BY <1>1 DEF Request
<1>3. request' = [request EXCEPT ![b][t] = s] /\ UNCHANGED <<mails, arrived, walk>>
  BY DEF Sends, store
<1>. HIDE DEF s
<1>4. ListOk(walk[b][t], s, mails, arrived)
  BY <1>2 DEF ListOk
<1>. QED BY <1>0, <1>2, <1>3, <1>4, OneGoesOn

(* A browser asks.                                                           *)
LEMMA AsksWalks ==
  ASSUME IInv, WalksInv, NEW b \in Browsers, NEW t \in Tabs,
         \/ AsksList(b, t) \/ AsksMail(b, t)
         \/ AsksEntry(b, t) \/ AsksOther(b, t)
  PROVE  WalksInv'
<1>0. TypeOK /\ AnyForm \in User /\ 0 \in Nat /\ TRUE \in BOOLEAN
  BY IdleTypes DEF IInv
<1>1. \A kind \in Kinds : New(kind) \in Request
  BY <1>0, NewTypes
<1>2. \A kind : /\ New(kind).kind = kind /\ New(kind).at = "query"
                /\ ~New(kind).shown /\ ~New(kind).follows
  BY DEF New, Idle
<1>3. ASSUME NEW page \in 0..MaxMails + 1,
             Sends(b, t, [New("list") EXCEPT !.page = page])
      PROVE  WalksInv'
  <2>. DEFINE r == [New("list") EXCEPT !.page = page]
  <2>1. page \in Nat /\ New("list") \in Request
    BY <1>1, WebmailAssumption DEF Kinds
  <2>2. r \in Request /\ r.at = "query" /\ ~r.shown /\ ~r.follows
    BY <1>2, <2>1 DEF Request
  <2>. QED BY <1>3, <2>2, SendsWalks
<1>4. ASSUME walk[b][t].next,
             Sends(b, t, [New("list") EXCEPT
                            !.page = walk[b][t].page + 1, !.follows = TRUE,
                            !.intact = walk[b][t].intact])
      PROVE  WalksInv'
  <2>. DEFINE r == [New("list") EXCEPT
                      !.page = walk[b][t].page + 1, !.follows = TRUE,
                      !.intact = walk[b][t].intact]
  <2>1. /\ walk[b][t].page + 1 \in Nat /\ walk[b][t].intact \in BOOLEAN
        /\ New("list") \in Request
    BY <1>0, <1>1, TabTypes DEF Walk, Kinds
  <2>2. /\ r \in Request /\ r.at = "query" /\ ~r.shown
        /\ r.page = walk[b][t].page + 1 /\ r.intact = walk[b][t].intact
    BY <1>2, <2>1 DEF Request
  <2>. QED BY <1>4, <2>2, SendsWalks
<1>5. ASSUME NEW kind \in {"view", "delete"}, NEW m \in 1..arrived,
             Sends(b, t, [New(kind) EXCEPT !.mail = m])
      PROVE  WalksInv'
  <2>. DEFINE r == [New(kind) EXCEPT !.mail = m]
  <2>1. m \in Nat /\ New(kind) \in Request
    BY <1>0, <1>1 DEF TypeOK, Kinds
  <2>2. r \in Request /\ r.kind = kind /\ ~r.shown
    BY <1>2, <2>1 DEF Request
  <2>. QED BY <1>5, <2>2, SendsWalks
<1>6. ASSUME NEW kind \in {"login", "register"}, NEW f \in User,
             Sends(b, t, [New(kind) EXCEPT !.form = f])
      PROVE  WalksInv'
  <2>. DEFINE r == [New(kind) EXCEPT !.form = f]
  <2>1. New(kind) \in Request
    BY <1>1 DEF Kinds
  <2>2. r \in Request /\ r.kind = kind /\ ~r.shown
    BY <1>2, <2>1 DEF Request
  <2>. QED BY <1>6, <2>2, SendsWalks
<1>7. ASSUME NEW kind \in {"logout", "other"},
             Sends(b, t, [New(kind) EXCEPT !.at = "respond"])
      PROVE  WalksInv'
  <2>. DEFINE r == [New(kind) EXCEPT !.at = "respond"]
  <2>1. New(kind) \in Request
    BY <1>1 DEF Kinds
  <2>2. r \in Request /\ r.kind = kind /\ ~r.shown
    BY <1>2, <2>1 DEF Request
  <2>. QED BY <1>7, <2>2, SendsWalks
<1>8. \A e \in Emails, p \in Passwords :
        [email |-> e, password |-> p, active |-> TRUE, since |-> 0] \in User
  BY DEF User
<1>9. AsksList(b, t) => WalksInv'
  BY <1>3, <1>4 DEF AsksList
<1>10. AsksMail(b, t) => WalksInv'
  BY <1>5 DEF AsksMail
<1>11. AsksEntry(b, t) => WalksInv'
  BY <1>6, <1>8 DEF AsksEntry
<1>12. AsksOther(b, t) => WalksInv'
  BY <1>7 DEF AsksOther
<1>. QED BY <1>9, <1>10, <1>11, <1>12

(* A handler goes on.                                                        *)
LEMMA ServesWalks ==
  ASSUME IInv, IInv', WalksInv, NEW b \in Browsers, NEW t \in Tabs, Serves(b, t)
  PROVE  WalksInv'
<1>. DEFINE r == request[b][t]
            w == walk[b][t]
            s == request'[b][t]
<1>0. /\ TypeOK /\ r \in Request /\ w \in Walk
      /\ arrived \in Nat /\ mails \in SUBSET (1..arrived)
      /\ WalkOk(w, mails, arrived) /\ ListOk(w, r, mails, arrived)
  BY TabTypes DEF IInv, TypeOK, WalksInv
<1>1. s \in Request
  <2>1. TypeOK'
    BY DEF IInv
  <2>. QED BY <2>1 DEF TypeOK
<1>2. CASE MailDelete(b, t)
  BY <1>2, MailboxWalks
<1>3. ASSUME NEW q, request' = [request EXCEPT ![b][t] = q],
             UNCHANGED <<mails, arrived, walk>>,
             ListOk(w, q, mails, arrived)
      PROVE  WalksInv'
  <2>1. request'[b][t] = q
    BY <1>0, <1>3 DEF TypeOK
  <2>2. q \in Request
    BY <1>1, <2>1
  <2>. HIDE DEF r, w, s
  <2>. QED BY <1>0, <1>3, <2>2, OneGoesOn DEF w
<1>4. CASE NeedsLogin(b, t)
  <2>1. /\ request' = [request EXCEPT ![b][t] = [r EXCEPT !.at = "respond"]]
        /\ UNCHANGED <<mails, arrived, walk>>
        /\ r.session = 0 /\ r.at = "query"
    BY <1>4 DEF NeedsLogin, Handles, store, At
  <2>2. ListOk(w, [r EXCEPT !.at = "respond"], mails, arrived)
    BY <1>0, <2>1 DEF ListOk, Request
  <2>. QED BY <1>3, <2>1, <2>2
<1>5. CASE MailListTotals(b, t)
  <2>. DEFINE q == [r EXCEPT !.total = Cardinality(mails),
                             !.at = IF r.page > PagesOf(Cardinality(mails), Limit)
                                    THEN "respond" ELSE "change"]
  <2>1. /\ request' = [request EXCEPT ![b][t] = q]
        /\ UNCHANGED <<mails, arrived, walk>>
        /\ r.kind = "list" /\ r.at = "query"
    BY <1>5, LimitIs DEF MailListTotals, Handles, store, At, Paginate
  <2>2. s = q
    BY <1>0, <2>1 DEF TypeOK
  <2>3. q \in Request
    BY <1>1, <2>2
  <2>4. ListOk(w, q, mails, arrived)
    <3>. HIDE DEF r, w, s
    <3>. QED BY <1>0, <2>1, <2>3, Totals
  <2>. QED BY <1>3, <2>1, <2>4
<1>6. CASE MailListLists(b, t)
  <2>. DEFINE p == Listed(r)
              rows == List(p.offset, p.limit)
              q == [r EXCEPT !.at = "respond", !.shown = TRUE, !.rows = rows]
  <2>1. /\ request' = [request EXCEPT ![b][t] = q]
        /\ UNCHANGED <<mails, arrived, walk>>
        /\ r.kind = "list" /\ r.at = "change" /\ p.offset >= 0
    BY <1>6 DEF MailListLists, Handles, store, At
  <2>2. s = q
    BY <1>0, <2>1 DEF TypeOK
  <2>3. q \in Request
    BY <1>1, <2>2
  <2>4. rows = {m \in mails : RankIn(mails, m) \in p.offset + 1..p.offset + p.limit}
    BY DEF List, Rank, RankIn
  <2>5. ListOk(w, q, mails, arrived)
    <3>. HIDE DEF r, w, s, rows
    <3>. QED BY <1>0, <2>1, <2>3, <2>4, Lists
  <2>. QED BY <1>3, <2>1, <2>5
<1>7. CASE \/ MailViewLoads(b, t) \/ MailViewUpdates(b, t)
           \/ Login(b, t) \/ RegisterLooks(b, t) \/ RegisterInserts(b, t)
  <2>1. UNCHANGED <<mails, arrived, walk>> /\ r.kind # "list"
    BY <1>7 DEF MailViewLoads, MailViewUpdates, Login, RegisterLooks,
                RegisterInserts, Handles, store, At
  <2>2. ASSUME NEW q, Handles(b, t, q), q.kind = r.kind
        PROVE  WalksInv'
    <3>1. ListOk(w, q, mails, arrived)
      BY <2>1, <2>2, NothingSaid
    <3>. QED BY <1>3, <2>1, <2>2, <3>1 DEF Handles
  <2>3. /\ [r EXCEPT !.at = "change"].kind = r.kind
        /\ [r EXCEPT !.at = "respond"].kind = r.kind
        /\ [r EXCEPT !.at = "respond", !.shown = TRUE, !.rows = {r.mail}].kind = r.kind
        /\ [r EXCEPT !.at = "change", !.form.since = Len(users)].kind = r.kind
        /\ \A k : [r EXCEPT !.at = "respond", !.session = k].kind = r.kind
    BY <1>0 DEF Request
  <2>4. CASE MailViewLoads(b, t) \/ MailViewUpdates(b, t)
    BY <2>2, <2>3, <2>4 DEF MailViewLoads, MailViewUpdates
  <2>5. CASE Login(b, t)
    BY <2>2, <2>3, <2>5 DEF Login
  <2>6. CASE RegisterLooks(b, t) \/ RegisterInserts(b, t)
    BY <2>2, <2>3, <2>6 DEF RegisterLooks, RegisterInserts
  <2>. QED BY <1>7, <2>4, <2>5, <2>6
<1>. QED BY <1>2, <1>4, <1>5, <1>6, <1>7 DEF Serves

(* A request ends.                                                           *)
LEMMA EndsWalks ==
  ASSUME IInv, WalksInv, NEW b \in Browsers, NEW t \in Tabs,
         Responds(b, t) \/ Fails(b, t)
  PROVE  WalksInv'
<1>. DEFINE r == request[b][t]
            w == walk[b][t]
<1>0. /\ TypeOK /\ r \in Request /\ w \in Walk
      /\ ListOk(w, r, mails, arrived)
  BY TabTypes DEF IInv, WalksInv
<1>1. CASE Responds(b, t)
  <2>. DEFINE v == IF r.kind = "list" /\ r.shown THEN Walked(w, r) ELSE NoWalk
  <2>1. /\ request' = [request EXCEPT ![b][t] = Idle] /\ r.at = "respond"
        /\ UNCHANGED <<mails, arrived>>
        /\ walk' = [walk EXCEPT ![b][t] = v]
    BY <1>0, <1>1 DEF Responds, Shows, TypeOK, store
  <2>2. v \in Walk
    BY <1>0, WalkedTypes, IdleTypes
  <2>3. Walked(w, r).intact = r.intact
    BY DEF Walked
  <2>. HIDE DEF r, w
  <2>4. WalkOk(v, mails, arrived)
    BY <1>0, <2>1, <2>3, NothingSaid DEF ListOk
  <2>. HIDE DEF v
  <2>. QED BY <1>0, <2>1, <2>2, <2>4, OneEnds
<1>2. CASE Fails(b, t)
  <2>1. WalkOk(NoWalk, mails, arrived) /\ NoWalk \in Walk
    BY NothingSaid, IdleTypes
  <2>. QED BY <1>0, <1>2, <2>1, OneEnds DEF Fails, store
<1>. QED BY <1>1, <1>2

(* Every step.                                                               *)
LEMMA NextWalks == IInv /\ IInv' /\ WalksInv /\ [Next]_vars => WalksInv'
<1>. SUFFICES ASSUME IInv, IInv', WalksInv, [Next]_vars
              PROVE  WalksInv'
  OBVIOUS
<1>1. CASE UNCHANGED vars
  BY <1>1 DEF vars, store, browser, WalksInv
<1>2. CASE Arrive \/ \E m \in Mail : DeletedElsewhere(m)
  BY <1>2, MailboxWalks
<1>3. ASSUME NEW b \in Browsers, NEW t \in Tabs,
             \/ AsksList(b, t) \/ AsksMail(b, t) \/ AsksEntry(b, t) \/ AsksOther(b, t)
             \/ Serves(b, t)
             \/ Responds(b, t) \/ Fails(b, t)
      PROVE  WalksInv'
  BY <1>3, AsksWalks, ServesWalks, EndsWalks
<1>. QED BY <1>1, <1>2, <1>3 DEF Next

(* And the initial states.                                                   *)
LEMMA InitWalks == Init => WalksInv
<1>. SUFFICES ASSUME Init PROVE WalksInv
  OBVIOUS
<1>1. mails \subseteq 1..arrived
  BY DEF Init
<1>2. \A b \in Browsers, t \in Tabs :
        walk[b][t] = NoWalk /\ request[b][t] = Idle /\ Idle.at = "idle"
  BY DEF Init, Idle
<1>. QED BY <1>1, <1>2, NothingSaid DEF WalksInv

(* The walks are in order in every state.                                    *)
THEOREM WalksInductive == Spec => []WalksInv
  BY Inductive, InitWalks, NextWalks, PTL DEF Spec

(* Who goes from page to page by Next misses no mail older than one on the   *)
(* page the walk began with that is not older than all it has seen, for      *)
(* pages of any length, however much mail arrives in between (handlers.go:   *)
(* 124, 138, pagination.go:73).                                              *)
THEOREM WalkCorrect == Spec => []WalkHasNoGaps
<1>1. WalksInv => WalkHasNoGaps
  BY DEF WalksInv, WalkOk, WalkHasNoGaps
<1>. QED BY <1>1, WalksInductive, PTL

(* Next leads to a page that is there and has mail on it, unless mail was    *)
(* deleted since (handlers.go:133, pagination.go:141).                       *)
THEOREM NextCorrect == Spec => []NextLeadsToMail
<1>1. WalksInv => NextLeadsToMail
  BY DEF WalksInv, ListOk, NextLeadsToMail
<1>. QED BY <1>1, WalksInductive, PTL
===============================================================================
