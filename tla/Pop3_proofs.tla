------------------------------ MODULE Pop3_proofs ------------------------------
(***************************************************************************)
(* Theorems about Pop3, for any number of sessions, mailboxes and messages:*)
(* a session sees the mail of its own mailbox only, and numbers and Uids   *)
(* mean what the client was told.                                          *)
(***************************************************************************)
EXTENDS Pop3, TLAPS, FiniteSetTheorems

-----------------------------------------------------------------------------
(* The inductive invariant.                                                  *)

(* What is in the collection: places are given once, and two messages have   *)
(* the same Id only when it was saved again.                                 *)
MailsInv ==
  /\ IsFiniteSet(mails)
  /\ \A m \in mails : m.place <= inserted /\ m.id <= last.id
  /\ \A m, n \in mails : m.place = n.place => m = n
  /\ \A m, n \in mails : m # n /\ m.id = n.id => m.id \in resaved

(* Whoever is not logged in was told and shown nothing; whoever is fetches   *)
(* by the mailbox it gave the password of.                                   *)
LoginInv ==
  \A s \in Sessions :
    IF at[s] = "greet" \/ state[s] = "UNAUTHORIZED"
    THEN told[s] = {} /\ shown[s].mail = NoMail
    ELSE email[s] = owner[s]

(* What was told is still there, under the same number, unless something     *)
(* was deleted.                                                              *)
ToldInv == deleted = {} => \A s \in Sessions : told[s] \subseteq Fetch(email[s])

IInv ==
  /\ TypeOK
  /\ MailsInv
  /\ LoginInv
  /\ OwnMailOnly
  /\ UidsDistinguish
  /\ ToldInv
  /\ ToldNumbersAreSafe

-----------------------------------------------------------------------------
(* Fetch.                                                                    *)

(* A mailbox' messages not newer than m.                                     *)
Upto(who, m) == {n \in MailOf(who) : n.place <= m.place}

(* What Fetch returns is a message of the mailbox with its number.           *)
LEMMA FetchEntries ==
  ASSUME NEW who, NEW entry
  PROVE  entry \in Fetch(who) <=>
           \E m \in MailOf(who) :
             entry = [number |-> Cardinality(Upto(who, m)), mail |-> m]
  BY DEF Fetch, Upto

(* The messages of a mailbox up to one of them can be counted.               *)
LEMMA UptoFinite ==
  ASSUME MailsInv, NEW who, NEW m
  PROVE  IsFiniteSet(Upto(who, m)) /\ Cardinality(Upto(who, m)) \in Nat
<1>1. Upto(who, m) \subseteq mails
  BY DEF Upto, MailOf
<1>2. IsFiniteSet(Upto(who, m))
  BY <1>1, FS_Subset DEF MailsInv
<1>. QED BY <1>2, FS_CardinalityType

(* The entries have their type, and are of the mailbox.                      *)
LEMMA FetchTypes ==
  ASSUME TypeOK, MailsInv, NEW who, NEW entry \in Fetch(who)
  PROVE  /\ entry \in Numbered /\ entry.mail \in mails
         /\ who \in entry.mail.to
<1>1. PICK m \in MailOf(who) :
        entry = [number |-> Cardinality(Upto(who, m)), mail |-> m]
  BY FetchEntries
<1>2. m \in mails /\ m \in Mail /\ who \in m.to
  BY DEF MailOf, TypeOK
<1>3. Cardinality(Upto(who, m)) \in Nat
  BY UptoFinite
<1>. QED BY <1>1, <1>2, <1>3 DEF Numbered

(* A newer message has a larger number.                                      *)
LEMMA NumbersGrow ==
  ASSUME TypeOK, MailsInv, NEW who, NEW m \in MailOf(who), NEW n \in MailOf(who),
         m.place < n.place
  PROVE  Cardinality(Upto(who, m)) < Cardinality(Upto(who, n))
<1>1. m \in Mail /\ n \in Mail /\ \A k \in MailOf(who) : k \in Mail
  BY DEF MailOf, TypeOK
<1>2. Upto(who, m) \subseteq Upto(who, n)
  BY <1>1 DEF Upto, Mail
<1>3. n \in Upto(who, n) /\ n \notin Upto(who, m)
  BY <1>1 DEF Upto, Mail
<1>4. IsFiniteSet(Upto(who, n))
  BY UptoFinite
<1>5. /\ Cardinality(Upto(who, m)) <= Cardinality(Upto(who, n))
      /\ Cardinality(Upto(who, m)) = Cardinality(Upto(who, n))
           => Upto(who, m) = Upto(who, n)
  BY <1>2, <1>4, FS_Subset
<1>6. /\ Cardinality(Upto(who, m)) \in Nat
      /\ Cardinality(Upto(who, n)) \in Nat
  BY UptoFinite
<1>. QED BY <1>3, <1>5, <1>6

(* A number stands for one message (storage.go:151, 182).                    *)
LEMMA NumbersDistinguish ==
  ASSUME TypeOK, MailsInv, NEW who, NEW x \in Fetch(who), NEW y \in Fetch(who)
  PROVE  /\ x.number = y.number => x = y
         /\ x.mail = y.mail => x = y
<1>1. PICK m \in MailOf(who) :
        x = [number |-> Cardinality(Upto(who, m)), mail |-> m]
  BY FetchEntries
<1>2. PICK n \in MailOf(who) :
        y = [number |-> Cardinality(Upto(who, n)), mail |-> n]
  BY FetchEntries
<1>3. /\ m \in mails /\ n \in mails
      /\ m.place \in Nat /\ n.place \in Nat
  BY DEF MailOf, TypeOK, Mail
<1>4. /\ Cardinality(Upto(who, m)) \in Nat
      /\ Cardinality(Upto(who, n)) \in Nat
  BY UptoFinite
<1>5. CASE m.place < n.place
  BY <1>1, <1>2, <1>4, <1>5, NumbersGrow
<1>6. CASE n.place < m.place
  BY <1>1, <1>2, <1>4, <1>6, NumbersGrow
<1>7. CASE m.place = n.place
  BY <1>1, <1>2, <1>3, <1>7 DEF MailsInv
<1>. QED BY <1>3, <1>5, <1>6, <1>7

(* Nothing that is inserted changes the number of what is there              *)
(* (mongostore.go:168).                                                      *)
LEMMA InsertsKeepNumbers ==
  ASSUME TypeOK, MailsInv, NEW m, m \in Mail \cup {NoMail}, Inserts(m), NEW who
  PROVE  Fetch(who) \subseteq Fetch(who)'
<1>. DEFINE new == [m EXCEPT !.place = inserted + 1]
<1>1. mails' = mails \cup {new} /\ new.place = inserted + 1
  BY DEF Inserts, Mail, NoMail
<1>. HIDE DEF new
<1>2. MailOf(who) \subseteq MailOf(who)'
  BY <1>1 DEF MailOf
<1>3. ASSUME NEW k \in MailOf(who)
      PROVE  Upto(who, k)' = Upto(who, k)
  <2>1. k.place \in Nat /\ k.place <= inserted /\ inserted \in Nat
    BY DEF MailOf, TypeOK, Mail, MailsInv
  <2>2. ~(new.place <= k.place)
    BY <1>1, <2>1
  <2>3. {n \in MailOf(who)' : n.place <= k.place}
          = {n \in MailOf(who) : n.place <= k.place}
    BY <1>1, <2>2 DEF MailOf
  <2>. QED BY <2>3 DEF Upto
<1>4. ASSUME NEW entry \in Fetch(who)
      PROVE  entry \in Fetch(who)'
  <2>1. PICK k \in MailOf(who) :
          entry = [number |-> Cardinality(Upto(who, k)), mail |-> k]
    BY FetchEntries
  <2>2. k \in MailOf(who)' /\ Upto(who, k)' = Upto(who, k)
    BY <1>2, <1>3
  <2>. QED BY <2>1, <2>2 DEF Fetch, Upto
<1>. QED BY <1>4

-----------------------------------------------------------------------------
(* The initial state.                                                        *)
LEMMA InitIInv == Init => IInv
<1>. SUFFICES ASSUME Init PROVE IInv
  OBVIOUS
<1>1. TypeOK
  BY DEF Init, TypeOK, Words
<1>2. MailsInv
  BY FS_EmptySet DEF Init, MailsInv
<1>3. LoginInv /\ OwnMailOnly /\ UidsDistinguish /\ ToldInv
  BY DEF Init, LoginInv, OwnMailOnly, UidsDistinguish, ToldInv
<1>4. ToldNumbersAreSafe
  BY DEF Init, ToldNumbersAreSafe
<1>. QED BY <1>1, <1>2, <1>3, <1>4 DEF IInv

-----------------------------------------------------------------------------
(* Steps of a session.  The collection stays, and with it what Fetch finds.  *)

(* A session that is told and shown nothing new.                             *)
LEMMA QuietIInv ==
  ASSUME IInv, UNCHANGED <<collection, told, shown>>, TypeOK', LoginInv',
         \A s \in Sessions : told[s] # {} \/ shown[s].mail # NoMail =>
           email'[s] = email[s] /\ owner'[s] = owner[s],
         crash' = crash \/ crash' # "told number"
  PROVE  IInv'
<1>1. MailsInv'
  BY DEF IInv, MailsInv, collection
<1>2. OwnMailOnly'
  BY DEF IInv, OwnMailOnly
<1>3. UidsDistinguish'
  BY DEF IInv, UidsDistinguish, collection
<1>4. ToldInv'
  <2>1. \A who : Fetch(who)' = Fetch(who)
    BY DEF Fetch, MailOf, collection
  <2>2. ASSUME deleted = {}, NEW s \in Sessions
        PROVE  told'[s] \subseteq Fetch(email'[s])
    BY <2>2 DEF IInv, ToldInv
  <2>3. \A s \in Sessions : Fetch(email'[s]) = Fetch(email[s])'
    BY <2>1 DEF Fetch, MailOf, collection
  <2>. QED BY <2>2, <2>3 DEF ToldInv, collection
<1>5. ToldNumbersAreSafe'
  BY DEF IInv, ToldNumbersAreSafe, collection
<1>. QED BY <1>1, <1>2, <1>3, <1>4, <1>5 DEF IInv

(* A reply is a reply.                                                       *)
LEMMA SayTypes ==
  ASSUME TypeOK, NEW s \in Sessions, NEW cmd \in Words, NEW ok \in BOOLEAN,
         Say(s, cmd, ok)
  PROVE  reply' \in [Sessions -> [cmd : Words \cup {"greet"}, ok : BOOLEAN]]
<1>1. [cmd |-> cmd, ok |-> ok] \in [cmd : Words \cup {"greet"}, ok : BOOLEAN]
  OBVIOUS
<1>. QED BY <1>1 DEF TypeOK, Say

(* The session is welcomed.                                                  *)
LEMMA greetIInv ==
  ASSUME IInv, NEW s \in Sessions, greet(s)
  PROVE  IInv'
<1>1. TypeOK'
  BY DEF IInv, TypeOK, greet, collection
<1>2. LoginInv'
  BY DEF IInv, TypeOK, LoginInv, greet
<1>. QED BY <1>1, <1>2, QuietIInv DEF greet

(* A word is too short.                                                      *)
LEMMA shortWordIInv ==
  ASSUME IInv, NEW s \in Sessions, shortWord(s)
  PROVE  IInv'
<1>1. TypeOK'
  BY DEF IInv, TypeOK, shortWord, collection, session
<1>2. LoginInv'
  BY DEF IInv, LoginInv, shortWord, session
<1>. QED BY <1>1, <1>2, QuietIInv DEF shortWord, session

(* USER.                                                                     *)
LEMMA userIInv ==
  ASSUME IInv, NEW s \in Sessions, user(s)
  PROVE  IInv'
<1>1. PICK name \in Users \cup Strangers, answered \in Answers :
        /\ email' = [email EXCEPT ![s] = name]
        /\ Say(s, "USER", CheckUserExists(name, answered))
  BY DEF user
<1>2. CheckUserExists(name, answered) \in BOOLEAN
  BY DEF CheckUserExists
<1>3. TypeOK'
  BY <1>1, <1>2 DEF IInv, TypeOK, user, collection, Say, Words
<1>4. LoginInv'
  BY <1>1 DEF IInv, TypeOK, LoginInv, user, Alive
<1>5. \A r \in Sessions : told[r] # {} \/ shown[r].mail # NoMail => email'[r] = email[r]
  BY <1>1 DEF IInv, TypeOK, LoginInv, user, Alive
<1>. QED BY <1>3, <1>4, <1>5, QuietIInv DEF user

(* PASS.                                                                     *)
LEMMA passIInv ==
  ASSUME IInv, NEW s \in Sessions, pass(s)
  PROVE  IInv'
<1>1. PICK right \in BOOLEAN, answered \in Answers :
        LET ok == LoginUser(email[s], right, answered)
        IN /\ Say(s, "PASS", ok)
           /\ state' = IF ok THEN [state EXCEPT ![s] = "TRANSACTION"] ELSE state
           /\ owner' = IF ok THEN [owner EXCEPT ![s] = email[s]] ELSE owner
  BY DEF pass
<1>. DEFINE ok == LoginUser(email[s], right, answered)
<1>2. ok \in BOOLEAN /\ (ok => email[s] \in Users)
  BY DEF LoginUser, Login, Answers
<1>. HIDE DEF ok
<1>3. /\ Say(s, "PASS", ok)
      /\ \/ /\ ok /\ state' = [state EXCEPT ![s] = "TRANSACTION"]
            /\ owner' = [owner EXCEPT ![s] = email[s]]
         \/ state' = state /\ owner' = owner
  BY <1>1 DEF ok
<1>4. UNCHANGED <<collection, at, email, told, shown, crash>>
  BY DEF pass
<1>5. TypeOK'
  BY <1>2, <1>3, <1>4 DEF IInv, TypeOK, collection, Say, Words
<1>6. /\ state[s] = "UNAUTHORIZED" /\ at[s] = "command"
      /\ told[s] = {} /\ shown[s].mail = NoMail
  BY DEF pass, Alive, IInv, LoginInv
<1>7. LoginInv'
  <2>1. CASE state' = state /\ owner' = owner
    BY <1>4, <2>1 DEF IInv, LoginInv
  <2>2. CASE /\ state' = [state EXCEPT ![s] = "TRANSACTION"]
             /\ owner' = [owner EXCEPT ![s] = email[s]]
    <3>1. /\ state'[s] = "TRANSACTION" /\ owner'[s] = email[s]
          /\ \A r \in Sessions : r # s => state'[r] = state[r] /\ owner'[r] = owner[r]
      BY <2>2 DEF IInv, TypeOK
    <3>. QED BY <1>4, <1>6, <3>1 DEF IInv, LoginInv
  <2>. QED BY <1>3, <2>1, <2>2
<1>8. \A r \in Sessions : told[r] # {} \/ shown[r].mail # NoMail => owner'[r] = owner[r]
  BY <1>3, <1>6 DEF IInv, TypeOK
<1>. QED BY <1>4, <1>5, <1>7, <1>8, QuietIInv

(* What only answers, or ends the session.                                   *)
LEMMA otherIInv ==
  ASSUME IInv, NEW s \in Sessions,
         \/ stat(s) \/ retrFails(s) \/ DELE(s) \/ capa(s) \/ notImplemented(s)
         \/ quit(s) \/ readLineFails(s)
  PROVE  IInv'
<1>. USE DEF stat, retrFails, DELE, capa, notImplemented, quit, readLineFails
<1>1. UNCHANGED <<collection, state, email, told, shown, owner>>
  OBVIOUS
<1>2. crash' = crash \/ crash' = "query"
  OBVIOUS
<1>3. reply' = reply \/ \E cmd \in Words, ok \in BOOLEAN : Say(s, cmd, ok)
  BY DEF Words
<1>4. \/ at' = at
      \/ at[s] = "command" /\ \E a \in {"quit", "closed"} : at' = [at EXCEPT ![s] = a]
  BY DEF Alive
<1>5. TypeOK'
  <2>1. reply' \in [Sessions -> [cmd : Words \cup {"greet"}, ok : BOOLEAN]]
    BY <1>3, SayTypes DEF IInv, TypeOK
  <2>2. at' \in [Sessions -> {"greet", "command", "quit", "closed"}]
    BY <1>4 DEF IInv, TypeOK
  <2>. QED BY <1>1, <1>2, <2>1, <2>2 DEF IInv, TypeOK, collection
<1>6. LoginInv'
  BY <1>1, <1>4 DEF IInv, TypeOK, LoginInv
<1>. QED BY <1>1, <1>2, <1>5, <1>6, QuietIInv

(* LIST and UIDL.                                                            *)
LEMMA listIInv ==
  ASSUME IInv, NEW s \in Sessions, list(s)
  PROVE  IInv'
<1>. DEFINE who == email[s]
<1>0. TypeOK /\ MailsInv
  BY DEF IInv
<1>1. PICK answered \in Answers :
        told' = [told EXCEPT ![s] = ListMails(who, answered)]
  BY DEF list
<1>2. ListMails(who, answered) \subseteq Fetch(who)
  BY DEF ListMails
<1>. DEFINE new == ListMails(who, answered)
<1>. HIDE DEF new
<1>3. /\ told' = [told EXCEPT ![s] = new] /\ new \subseteq Fetch(who)
      /\ UNCHANGED <<collection, at, state, email, shown, owner, crash>>
  BY <1>1, <1>2 DEF new, list
<1>4. /\ told'[s] = new
      /\ \A r \in Sessions : r # s => told'[r] = told[r]
  BY <1>0, <1>3 DEF TypeOK
<1>5. TypeOK'
  <2>1. new \subseteq Numbered
    BY <1>0, <1>3, FetchTypes
  <2>2. told' \in [Sessions -> SUBSET Numbered]
    BY <1>0, <1>3, <2>1 DEF TypeOK
  <2>3. reply' \in [Sessions -> [cmd : Words \cup {"greet"}, ok : BOOLEAN]]
    <3>1. "LIST" \in Words /\ "UIDL" \in Words
      BY DEF Words
    <3>. QED BY <1>0, <3>1, SayTypes DEF list
  <2>. QED BY <1>0, <1>3, <2>2, <2>3 DEF TypeOK, collection
<1>6. at[s] = "command" /\ state[s] = "TRANSACTION" /\ email[s] = owner[s]
  BY DEF list, Alive, IInv, LoginInv
<1>7. LoginInv'
  BY <1>3, <1>4, <1>6 DEF IInv, LoginInv
<1>8. OwnMailOnly'
  <2>1. \A entry \in new : who \in entry.mail.to
    BY <1>0, <1>3, FetchTypes
  <2>. QED BY <1>3, <1>4, <1>6, <2>1 DEF IInv, OwnMailOnly
<1>9. UidsDistinguish'
  <2>1. ASSUME NEW x \in new, NEW y \in new, x # y, x.mail.id = y.mail.id
        PROVE  x.mail.id \in resaved
    <3>1. x \in Fetch(who) /\ y \in Fetch(who)
      BY <1>3
    <3>2. x.mail \in mails /\ y.mail \in mails
      BY <1>0, <3>1, FetchTypes
    <3>3. x.mail # y.mail
      BY <1>0, <2>1, <3>1, NumbersDistinguish
    <3>. QED BY <1>0, <2>1, <3>2, <3>3 DEF MailsInv
  <2>. QED BY <1>3, <1>4, <2>1 DEF IInv, UidsDistinguish, collection
<1>10. MailsInv' /\ ToldNumbersAreSafe'
  BY <1>3 DEF IInv, MailsInv, ToldNumbersAreSafe, collection
<1>11. ToldInv'
  <2>1. \A r \in Sessions : Fetch(email[r])' = Fetch(email[r])
    BY <1>3 DEF Fetch, MailOf, collection
  <2>. QED BY <1>3, <1>4, <2>1 DEF IInv, ToldInv, collection
<1>. QED BY <1>5, <1>7, <1>8, <1>9, <1>10, <1>11 DEF IInv

(* RETR.                                                                     *)
LEMMA retrIInv ==
  ASSUME IInv, NEW s \in Sessions, NEW n \in 0..MaxNumber, retr(s, n)
  PROVE  IInv'
<1>. DEFINE who == email[s]
<1>0. TypeOK /\ MailsInv
  BY DEF IInv
<1>1. UNCHANGED <<collection, at, state, email, told, owner>>
  BY DEF retr
<1>2. /\ at[s] = "command" /\ state[s] = "TRANSACTION" /\ email[s] = owner[s]
      /\ crash = "no"
  BY DEF retr, Alive, IInv, LoginInv
<1>3. /\ MailsInv' /\ UidsDistinguish'
      /\ \A r \in Sessions : Fetch(email[r])' = Fetch(email[r])
  BY <1>1 DEF IInv, MailsInv, UidsDistinguish, Fetch, MailOf, collection
<1>4. ToldInv'
  BY <1>1, <1>3 DEF IInv, ToldInv, collection
<1>5. CASE \E entry \in GetMail(who, n) :
             /\ shown' = [shown EXCEPT ![s] = [number |-> n, mail |-> entry.mail]]
             /\ Say(s, "RETR", TRUE)
             /\ crash' = crash
  <2>1. PICK entry \in Fetch(who) :
          /\ shown' = [shown EXCEPT ![s] = [number |-> n, mail |-> entry.mail]]
          /\ Say(s, "RETR", TRUE)
          /\ crash' = crash
    BY <1>5 DEF GetMail
  <2>2. entry.mail \in mails /\ entry.mail \in Mail /\ who \in entry.mail.to
    BY <1>0, FetchTypes DEF TypeOK
  <2>3. /\ shown'[s].mail = entry.mail
        /\ \A r \in Sessions : r # s => shown'[r] = shown[r]
    BY <1>0, <2>1 DEF TypeOK
  <2>4. TypeOK'
    <3>1. reply' \in [Sessions -> [cmd : Words \cup {"greet"}, ok : BOOLEAN]]
      <4>1. "RETR" \in Words
        BY DEF Words
      <4>. QED BY <1>0, <2>1, <4>1, SayTypes
    <3>2. shown' \in [Sessions -> [number : Nat, mail : Mail \cup {NoMail}]]
      <4>1. n \in Nat
        BY Pop3Assumption
      <4>2. [number |-> n, mail |-> entry.mail]
              \in [number : Nat, mail : Mail \cup {NoMail}]
        BY <2>2, <4>1
      <4>. QED BY <1>0, <2>1, <4>2 DEF TypeOK
    <3>. QED BY <1>0, <1>1, <2>1, <3>1, <3>2 DEF TypeOK, collection
  <2>5. LoginInv'
    BY <1>1, <1>2, <2>3 DEF IInv, LoginInv
  <2>6. OwnMailOnly'
    BY <1>1, <1>2, <2>2, <2>3 DEF IInv, OwnMailOnly
  <2>7. ToldNumbersAreSafe'
    BY <1>1, <2>1 DEF IInv, ToldNumbersAreSafe, collection
  <2>. QED BY <1>3, <1>4, <2>4, <2>5, <2>6, <2>7 DEF IInv
<1>6. CASE /\ GetMail(who, n) = {}
           /\ crash' = IF \E entry \in told[s] : entry.number = n
                       THEN "told number" ELSE "other number"
           /\ UNCHANGED <<shown, reply>>
  <2>1. TypeOK'
    BY <1>0, <1>1, <1>6 DEF TypeOK, collection
  <2>2. LoginInv' /\ OwnMailOnly'
    BY <1>1, <1>6 DEF IInv, LoginInv, OwnMailOnly
  <2>3. ToldNumbersAreSafe'
    <3>1. ASSUME deleted = {}, NEW entry \in told[s], entry.number = n
          PROVE  FALSE
      <4>1. entry \in Fetch(who)
        BY <3>1 DEF IInv, ToldInv
      <4>. QED BY <1>6, <3>1, <4>1 DEF GetMail
    <3>. QED BY <1>1, <1>6, <3>1 DEF ToldNumbersAreSafe, collection
  <2>. QED BY <1>3, <1>4, <2>1, <2>2, <2>3 DEF IInv
<1>. QED BY <1>5, <1>6 DEF retr

-----------------------------------------------------------------------------
(* Steps of the rest of the process.                                         *)

(* An Id is a natural number.                                                *)
LEMMA IdNat == Id \subseteq Nat
  BY Pop3Assumption DEF Id

(* The sessions stay as they are while a message is inserted: a new one, or  *)
(* the last one again.                                                       *)
LEMMA InsertsIInv ==
  ASSUME IInv, NEW m \in Mail \cup {NoMail}, Inserts(m), m.id \in Id,
         UNCHANGED <<deleted, session, crash>>,
         last' \in Mail \cup {NoMail}, last'.id \in Nat,
         m.id = last'.id, last.id <= last'.id,
         resaved' \subseteq Id, resaved \subseteq resaved',
         m.id = last.id => m.id \in resaved'
  PROVE  IInv'
<1>0. TypeOK /\ MailsInv
  BY DEF IInv
<1>. DEFINE new == [m EXCEPT !.place = inserted + 1]
<1>1. /\ new \in Mail /\ new.place = inserted + 1 /\ new.id = m.id
      /\ inserted \in Nat /\ inserted' = inserted + 1
      /\ mails' = mails \cup {new}
  <2>1. inserted \in Nat
    BY <1>0 DEF TypeOK
  <2>2. m.id \in Id /\ m.to \in SUBSET Users
    BY DEF Mail, NoMail
  <2>3. new \in Mail /\ new.place = inserted + 1 /\ new.id = m.id
    BY <2>1, <2>2 DEF Mail, NoMail
  <2>. QED BY <2>1, <2>3 DEF Inserts
<1>. HIDE DEF new
<1>2. \A k \in mails : /\ k.place \in Nat /\ k.id \in Nat /\ k.id <= last.id
                       /\ k.place <= inserted
  <2>1. \A k \in mails : k.place \in Nat /\ k.id \in Id
    BY <1>0 DEF TypeOK, Mail
  <2>. QED BY <1>0, <2>1, IdNat DEF MailsInv
<1>3. last.id \in Nat
  <2>1. last \in Mail => last.id \in Nat
    <3>1. last \in Mail => last.id \in Id
      BY DEF Mail
    <3>. QED BY <3>1, IdNat
  <2>2. last = NoMail => last.id \in Nat
    BY DEF NoMail
  <2>3. last \in Mail \/ last = NoMail
    BY <1>0 DEF TypeOK
  <2>. QED BY <2>1, <2>2, <2>3
<1>4. MailsInv'
  <2>1. IsFiniteSet(mails')
    BY <1>0, <1>1, FS_AddElement DEF MailsInv
  <2>2. \A k \in mails' : k.place <= inserted' /\ k.id <= last'.id
    BY <1>1, <1>2, <1>3
  <2>3. \A k, n \in mails' : k.place = n.place => k = n
    BY <1>0, <1>1, <1>2 DEF MailsInv
  <2>4. \A k \in mails : k.id = m.id => m.id \in resaved'
    BY <1>2, <1>3
  <2>5. \A k, n \in mails' : k # n /\ k.id = n.id => k.id \in resaved'
    BY <1>0, <1>1, <2>4 DEF MailsInv
  <2>. QED BY <2>1, <2>2, <2>3, <2>5 DEF MailsInv
<1>5. TypeOK'
  <2>1. mails' \in SUBSET Mail /\ inserted' \in Nat
    <3>1. mails \subseteq Mail
      BY <1>0 DEF TypeOK
    <3>. QED BY <1>1, <3>1
  <2>2. deleted' \subseteq Id
    BY <1>0 DEF TypeOK
  <2>3. UNCHANGED <<at, state, email, reply, told, shown, owner, crash>>
    BY DEF session
  <2>. QED BY <1>0, <2>1, <2>2, <2>3 DEF TypeOK
<1>6. LoginInv' /\ OwnMailOnly' /\ UidsDistinguish' /\ ToldNumbersAreSafe'
  BY DEF IInv, LoginInv, OwnMailOnly, UidsDistinguish, ToldNumbersAreSafe, session
<1>7. ToldInv'
  <2>1. \A who : Fetch(who) \subseteq Fetch(who)'
    BY <1>0, InsertsKeepNumbers
  <2>2. ASSUME deleted = {}, NEW s \in Sessions
        PROVE  told'[s] \subseteq Fetch(email[s])'
    <3>1. told'[s] \subseteq Fetch(email[s])
      BY <2>2 DEF IInv, ToldInv, session
    <3>2. \A who : who = email[s] => told'[s] \subseteq Fetch(who)'
      BY <2>1, <3>1
    <3>3. email'[s] = email[s]
      BY DEF session
    <3>. QED BY <3>2, <3>3 DEF Fetch, MailOf
  <2>. QED BY <2>2 DEF ToldInv
<1>. QED BY <1>4, <1>5, <1>6, <1>7 DEF IInv

(* A saver saves.                                                            *)
LEMMA SaveIInv ==
  ASSUME IInv, NEW to \in Arriving, Save(to)
  PROVE  IInv'
<1>. DEFINE m == [place |-> 0, id |-> last.id + 1, to |-> to]
<1>1. last.id \in Nat /\ last.id < MaxSaves /\ MaxSaves \in Nat
  BY Pop3Assumption DEF IInv, TypeOK, Mail, NoMail, Id, Save
<1>2. m.id = last.id + 1 /\ m.id \in Id /\ to \in SUBSET Users
  BY <1>1 DEF Id, Arriving
<1>3. m \in Mail
  BY <1>2 DEF Mail
<1>4. last' = m /\ Inserts(m) /\ UNCHANGED <<resaved, deleted, session, crash>>
  BY DEF Save
<1>. HIDE DEF m
<1>5. m.id # last.id /\ last.id <= m.id /\ m.id \in Nat
  BY <1>1, <1>2
<1>6. resaved \subseteq Id
  BY DEF IInv, TypeOK
<1>. QED BY <1>2, <1>3, <1>4, <1>5, <1>6, InsertsIInv

(* A saver saves again.                                                      *)
LEMMA ResaveIInv == IInv /\ Resave => IInv'
<1>. SUFFICES ASSUME IInv, Resave PROVE IInv'
  OBVIOUS
<1>1. last \in Mail /\ last.id \in Id /\ last.id \in Nat
  BY DEF IInv, TypeOK, Mail, Id, Resave
<1>2. /\ last' = last /\ Inserts(last) /\ resaved' = resaved \cup {last.id}
      /\ UNCHANGED <<deleted, session, crash>>
  BY DEF Resave
<1>3. resaved \subseteq Id
  BY DEF IInv, TypeOK
<1>. QED BY <1>1, <1>2, <1>3, InsertsIInv

(* The web mail deletes.                                                     *)
LEMMA DeleteOneIInv ==
  ASSUME IInv, NEW id \in Id, DeleteOne(id)
  PROVE  IInv'
<1>1. /\ mails' \subseteq mails /\ deleted' # {} /\ deleted' \subseteq Id
      /\ UNCHANGED <<inserted, last, resaved, session, crash>>
  BY DEF IInv, TypeOK, DeleteOne
<1>2. TypeOK'
  BY <1>1 DEF IInv, TypeOK, session
<1>3. MailsInv'
  BY <1>1, FS_Subset DEF IInv, MailsInv
<1>4. LoginInv' /\ OwnMailOnly' /\ UidsDistinguish'
  BY <1>1 DEF IInv, LoginInv, OwnMailOnly, UidsDistinguish, session
<1>5. ToldInv' /\ ToldNumbersAreSafe'
  BY <1>1 DEF ToldInv, ToldNumbersAreSafe
<1>. QED BY <1>2, <1>3, <1>4, <1>5 DEF IInv

-----------------------------------------------------------------------------
(* Every step keeps the invariant.                                           *)
LEMMA NextIInv == IInv /\ [Next]_vars => IInv'
<1>. SUFFICES ASSUME IInv, [Next]_vars PROVE IInv'
  OBVIOUS
<1>1. CASE UNCHANGED vars
  <2>1. TypeOK' /\ MailsInv' /\ LoginInv'
    BY <1>1 DEF vars, collection, session, IInv, TypeOK, MailsInv, LoginInv
  <2>. QED BY <1>1, <2>1, QuietIInv DEF vars, session
<1>2. ASSUME NEW s \in Sessions, greet(s) \/ readLineFails(s)
      PROVE  IInv'
  BY <1>2, greetIInv, otherIInv
<1>3. ASSUME NEW s \in Sessions, handle(s)
      PROVE  IInv'
  BY <1>3, shortWordIInv, userIInv, passIInv, otherIInv, listIInv, retrIInv
     DEF handle
<1>4. ASSUME NEW to \in Arriving, Save(to)
      PROVE  IInv'
  BY <1>4, SaveIInv
<1>5. CASE Resave
  BY <1>5, ResaveIInv
<1>6. ASSUME NEW id \in Id, DeleteOne(id)
      PROVE  IInv'
  BY <1>6, DeleteOneIInv
<1>. QED BY <1>1, <1>2, <1>3, <1>4, <1>5, <1>6 DEF Next

(* The invariant holds in every state.                                       *)
THEOREM Inductive == Spec => []IInv
  BY InitIInv, NextIInv, PTL DEF Spec

(* The variables keep their types.                                           *)
THEOREM TypeCorrect == Spec => []TypeOK
<1>1. IInv => TypeOK
  BY DEF IInv
<1>. QED BY <1>1, Inductive, PTL

(* However many sessions are open, each sees the mail of its own mailbox     *)
(* only (client.go:44-103).                                                  *)
THEOREM OwnMailCorrect == Spec => []OwnMailOnly
<1>1. IInv => OwnMailOnly
  BY DEF IInv
<1>. QED BY <1>1, Inductive, PTL

(* Uids tell messages apart, but for those saved twice (message.go:94).      *)
THEOREM UidsCorrect == Spec => []UidsDistinguish
<1>1. IInv => UidsDistinguish
  BY DEF IInv
<1>. QED BY <1>1, Inductive, PTL

(* A number a client was told is in range, however much mail has come since  *)
(* (storage.go:183).                                                         *)
THEOREM ToldNumbersCorrect == Spec => []ToldNumbersAreSafe
<1>1. IInv => ToldNumbersAreSafe
  BY DEF IInv
<1>. QED BY <1>1, Inductive, PTL

(* And it is the number of the message it was told for (storage.go:151,      *)
(* 176).                                                                     *)
THEOREM NumbersCorrect == Spec => NumbersMeanWhatWasTold
<1>. DEFINE Means ==
       \A s \in Sessions : \A entry \in told[s] :
         shown'[s] # shown[s] /\ deleted = {} /\ shown'[s].number = entry.number
           => shown'[s].mail = entry.mail
<1>1. ASSUME IInv, Next
      PROVE  Means
  <2>0. TypeOK /\ MailsInv
    BY <1>1 DEF IInv
  <2>. SUFFICES ASSUME NEW s \in Sessions, NEW entry \in told[s],
                       shown'[s] # shown[s], deleted = {},
                       shown'[s].number = entry.number
                PROVE  shown'[s].mail = entry.mail
    OBVIOUS
  <2>1. PICK r \in Sessions, n \in 0..MaxNumber : retr(r, n)
    BY <1>1 DEF Next, greet, handle, readLineFails, shortWord, user, pass, stat,
                list, retrFails, DELE, capa, notImplemented, quit, Save, Resave,
                DeleteOne, session
  <2>2. PICK found \in Fetch(email[r]) :
          /\ found.number = n
          /\ shown' = [shown EXCEPT ![r] = [number |-> n, mail |-> found.mail]]
    BY <2>1 DEF retr, GetMail
  <2>3. r = s
    BY <2>0, <2>2 DEF TypeOK
  <2>4. shown'[s].number = n /\ shown'[s].mail = found.mail
    BY <2>0, <2>2, <2>3 DEF TypeOK
  <2>5. entry \in Fetch(email[s])
    BY <1>1 DEF IInv, ToldInv
  <2>6. entry = found
    BY <2>0, <2>2, <2>3, <2>4, <2>5, NumbersDistinguish
  <2>. QED BY <2>4, <2>6
<1>2. IInv /\ [Next]_vars => [Means]_vars
  BY <1>1
<1>. QED BY <1>2, Inductive, PTL DEF Spec, NumbersMeanWhatWasTold
===============================================================================
