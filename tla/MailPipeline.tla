----------------------------- MODULE MailPipeline -----------------------------
(***************************************************************************)
(* What happens to a message between processData and its reply: the        *)
(* session queues it on Mailer.SendMailChan and waits on the message's own *)
(* Notify channel (smtpd/client.go), mailer goroutines take it, relay it   *)
(* to remote recipients and queue it on DataStore.SaveMailChan once per    *)
(* local recipient (smtpd/mailer.go), and saver goroutines insert it into  *)
(* MongoDB (data/storage.go).  Notify is unbuffered: a worker that has     *)
(* something to report blocks until the session receives it.               *)
(*                                                                         *)
(* A message stands for one outstanding transaction of one session.  A     *)
(* queued save is the pair of the message and the position of the          *)
(* recipient it was queued for; the code queues the message only, and the  *)
(* position is there for the properties.                                   *)
(***************************************************************************)
EXTENDS Integers, Sequences, FiniteSets

CONSTANTS
  Msgs,        (* the messages sessions may submit                           *)
  Mailers,     (* the goroutines of Mailer.Start                             *)
  Savers,      (* the goroutines of StorageConnect                           *)
  SendCap,     (* capacity of SendMailChan, 256 in NewMailer                 *)
  SaveCap,     (* capacity of SaveMailChan, 256 in NewDataStore              *)
  MaxRcpts,    (* how many recipients a message has at most                  *)
  Failures,    (* what may go wrong in a history in which anything does      *)
  NoMsg

Failure == {"timeout",     (* a session waits 60 seconds in vain             *)
            "relay",       (* a lookup, a connection or an exchange fails    *)
            "insert",      (* MongoDB refuses an insert                      *)
            "link",        (* the connection to MongoDB breaks               *)
            "redial"}      (* MongoDB cannot be reached again                *)

ASSUME PipelineAssumption ==
  /\ NoMsg \notin Msgs
  /\ SendCap \in Nat \ {0}
  /\ SaveCap \in Nat \ {0}
  /\ MaxRcpts \in Nat \ {0}
  /\ Failures \subseteq Failure

VARIABLES
  failures,  (* what may go wrong in this history: all of Failures, or       *)
             (* nothing                                                      *)
  to,        (* to[m]: mc.To, with what strings.Contains(To, Domain) tells   *)
  sess,      (* sess[m]: where the session that submits m is                 *)
  sendQ,     (* Mailer.SendMailChan                                          *)
  mailer,    (* mailer[d]: the loop of SendMail                              *)
  saveQ,     (* DataStore.SaveMailChan                                       *)
  saver,     (* saver[v]: the loop of SaveMail                               *)
  recon,     (* recon[v]: the local variable of that name in SaveMail        *)
  mongo,     (* the connection in DataStore.Storage: "up" or "broken"        *)
  up,        (* the process has not panicked                                 *)
  copies,    (* copies[j]: how often the save j has been inserted            *)
  relayed,   (* the recipients a remote server has taken the message for     *)
  redialed   (* the saves a saver has reconnected for (a history variable)   *)

vars == <<failures, to, sess, sendQ, mailer, saveQ, saver, recon, mongo, up,
          copies, relayed, redialed>>

workers == <<mailer, saver, recon>>
queues == <<sendQ, saveQ>>
store == <<mongo, copies, redialed>>

Jobs == Msgs \X (1..MaxRcpts)
Address == {"local", "remote"}
NoJob == <<NoMsg, 0>>

MailerState == [at : {"idle", "loop", "notify", "dead"},
                job : Jobs \cup {NoJob}]
SaverState == [at : {"idle", "store", "redial", "again", "notify"},
               job : Jobs \cup {NoJob}, status : {-1, 0, 1}]

TypeOK ==
  /\ failures \in {{}, Failures}
  /\ to \in [Msgs -> UNION {[1..n -> Address] : n \in 1..MaxRcpts}]
  /\ sess \in [Msgs -> {"idle", "sending", "waiting", "accepted", "refused",
                        "timedout"}]
  /\ sendQ \in Seq(Msgs) /\ Len(sendQ) <= SendCap
  /\ mailer \in [Mailers -> MailerState]
  /\ saveQ \in Seq(Jobs) /\ Len(saveQ) <= SaveCap
  /\ saver \in [Savers -> SaverState]
  /\ recon \in [Savers -> BOOLEAN]
  /\ mongo \in {"up", "broken"}
  /\ up \in BOOLEAN
  /\ copies \in [Jobs -> Nat]
  /\ relayed \subseteq Jobs
  /\ redialed \subseteq Jobs

Init ==
  /\ failures \in {{}, Failures}
  /\ to \in [Msgs -> UNION {[1..n -> Address] : n \in 1..MaxRcpts}]
  /\ sess = [m \in Msgs |-> "idle"]
  /\ sendQ = <<>>
  /\ mailer = [d \in Mailers |-> [at |-> "idle", job |-> NoJob]]
  /\ saveQ = <<>>
  /\ saver = [v \in Savers |-> [at |-> "idle", job |-> NoJob, status |-> 0]]
  /\ recon = [v \in Savers |-> FALSE]
  /\ mongo = "up"
  /\ up = TRUE
  /\ copies = [j \in Jobs |-> 0]
  /\ relayed = {}
  /\ redialed = {}

-----------------------------------------------------------------------------
(* The session: the end of processData.  As in SmtpSession, a definition     *)
(* whose name has a suffix after an underscore is a faulty variant of the    *)
(* one that follows it, for checking that the properties notice the fault.   *)

(* processData has built the message and sends it to SendMailChan, which may *)
(* block for as long as the channel is full.                                 *)
Submit(m) ==
  /\ up
  /\ sess[m] = "idle"
  /\ sess' = [sess EXCEPT ![m] = "sending"]
  /\ UNCHANGED <<to, failures, queues, workers, store, up, relayed>>

Enqueue(m) ==
  /\ up
  /\ sess[m] = "sending"
  /\ Len(sendQ) < SendCap
  /\ sendQ' = Append(sendQ, m)
  /\ sess' = [sess EXCEPT ![m] = "waiting"]
  /\ UNCHANGED <<to, failures, saveQ, workers, store, up, relayed>>

Receive_Always(m, status) ==
  sess' = [sess EXCEPT ![m] = IF status = 1 THEN "accepted" ELSE "refused"]

(* The reply for a status received from Notify: 250 for 1, 554 for another.  *)
Receive(m, status) ==
  /\ sess[m] = "waiting"
  /\ sess' = [sess EXCEPT ![m] = IF status = 1 THEN "accepted" ELSE "refused"]

TimeOut_WhileQueued(m) ==
  /\ up
  /\ "timeout" \in failures
  /\ sess[m] = "waiting"
  /\ \E i \in DOMAIN sendQ : sendQ[i] = m
  /\ sess' = [sess EXCEPT ![m] = "timedout"]
  /\ UNCHANGED <<to, failures, queues, workers, store, up, relayed>>

(* time.After: 554, and nobody will receive from this Notify any more.       *)
TimeOut(m) ==
  /\ up
  /\ "timeout" \in failures
  /\ sess[m] = "waiting"
  /\ sess' = [sess EXCEPT ![m] = "timedout"]
  /\ UNCHANGED <<to, failures, queues, workers, store, up, relayed>>

-----------------------------------------------------------------------------
(* The mailer goroutine d: SendMail.                                         *)

MailerGoes(d, at, job) ==
  mailer' = [mailer EXCEPT ![d] = [at |-> at, job |-> job]]

MailerTakes(d) ==
  /\ up
  /\ mailer[d].at = "idle"
  /\ sendQ # <<>>
  /\ MailerGoes(d, "loop", <<Head(sendQ), 1>>)
  /\ sendQ' = Tail(sendQ)
  /\ UNCHANGED <<to, failures, sess, saveQ, saver, recon, store, up, relayed>>

AtRecipient(d, kind) ==
  /\ mailer[d].at = "loop"
  /\ to[mailer[d].job[1]][mailer[d].job[2]] = kind

NextRecipient_ThenReturns(d) ==
  LET j == mailer[d].job
  IN IF j[2] < Len(to[j[1]]) THEN MailerGoes(d, "loop", <<j[1], j[2] + 1>>)
     ELSE MailerGoes(d, "dead", NoJob)

(* The next turn of "for i := range mc.To", or of the outer loop.            *)
NextRecipient(d) ==
  LET j == mailer[d].job
  IN IF j[2] < Len(to[j[1]]) THEN MailerGoes(d, "loop", <<j[1], j[2] + 1>>)
     ELSE MailerGoes(d, "idle", NoJob)

QueueLocal(d) ==
  /\ up
  /\ AtRecipient(d, "local")
  /\ Len(saveQ) < SaveCap
  /\ saveQ' = Append(saveQ, mailer[d].job)
  /\ NextRecipient(d)
  /\ UNCHANGED <<to, failures, sess, sendQ, saver, recon, store, up, relayed>>

Relay(d) ==
  /\ up
  /\ AtRecipient(d, "remote")
  /\ relayed' = relayed \cup {mailer[d].job}
  /\ MailerGoes(d, "notify", mailer[d].job)
  /\ UNCHANGED <<to, failures, sess, queues, saver, recon, store, up>>

(* Any error of the relay makes SendMail return: the goroutine is gone, with *)
(* nothing reported.  QUIT may fail when the message has been taken already. *)
RelayFails(d) ==
  /\ up
  /\ "relay" \in failures
  /\ AtRecipient(d, "remote")
  /\ relayed' \in {relayed, relayed \cup {mailer[d].job}}
  /\ MailerGoes(d, "dead", NoJob)
  /\ UNCHANGED <<to, failures, sess, queues, saver, recon, store, up>>

NotifyRelayed(d) ==
  /\ up
  /\ mailer[d].at = "notify"
  /\ Receive(mailer[d].job[1], 1)
  /\ NextRecipient(d)
  /\ UNCHANGED <<to, failures, queues, saver, recon, store, up, relayed>>

-----------------------------------------------------------------------------
(* The saver goroutine v: SaveMail.                                          *)

SaverGoes(v, at, job, status) ==
  saver' = [saver EXCEPT ![v] = [at |-> at, job |-> job, status |-> status]]

SaverTakes(v) ==
  /\ up
  /\ saver[v].at = "idle"
  /\ saveQ # <<>>
  /\ SaverGoes(v, "store", Head(saveQ), 0)
  /\ saveQ' = Tail(saveQ)
  /\ UNCHANGED <<to, failures, sess, sendQ, mailer, recon, store, up,
                 relayed>>

Report(v, status) == SaverGoes(v, "notify", saver[v].job, status)

Insert(v) == copies' = [copies EXCEPT ![saver[v].job] = @ + 1]

StoreSucceeds(v) ==
  /\ up
  /\ saver[v].at \in {"store", "again"}
  /\ mongo = "up"
  /\ Insert(v)
  /\ recon' = [recon EXCEPT ![v] = FALSE]
  /\ Report(v, 1)
  /\ UNCHANGED <<to, failures, sess, queues, mailer, mongo, up, relayed,
                 redialed>>

StoreRefused_ReportsOne(v) ==
  /\ up
  /\ "insert" \in failures
  /\ saver[v].at \in {"store", "again"}
  /\ mongo = "up"
  /\ Report(v, 1)
  /\ UNCHANGED <<to, failures, sess, queues, mailer, recon, store, up,
                 relayed>>

StoreRefused(v) ==
  /\ up
  /\ "insert" \in failures
  /\ saver[v].at \in {"store", "again"}
  /\ mongo = "up"
  /\ Report(v, -1)
  /\ UNCHANGED <<to, failures, sess, queues, mailer, recon, store, up,
                 relayed>>

StoreEOF_RetriesForever(v) ==
  /\ up
  /\ saver[v].at \in {"store", "again"}
  /\ \/ mongo = "broken" /\ UNCHANGED copies
     \/ "link" \in failures /\ mongo = "up" /\ (UNCHANGED copies \/ Insert(v))
  /\ mongo' = "broken"
  /\ SaverGoes(v, "redial", saver[v].job, 0)
  /\ UNCHANGED <<to, failures, sess, queues, mailer, recon, up, relayed,
                 redialed>>

(* Store returns io.EOF: the connection was broken, or breaks before or      *)
(* after the insert.  Only the first attempt, and only a saver whose last    *)
(* reconnection was followed by a successful save, goes on to reconnect.     *)
StoreEOF(v) ==
  /\ up
  /\ saver[v].at \in {"store", "again"}
  /\ \/ mongo = "broken" /\ UNCHANGED copies
     \/ "link" \in failures /\ mongo = "up" /\ (UNCHANGED copies \/ Insert(v))
  /\ mongo' = "broken"
  /\ IF saver[v].at = "store" /\ ~recon[v]
     THEN SaverGoes(v, "redial", saver[v].job, 0)
     ELSE Report(v, -1)
  /\ UNCHANGED <<to, failures, sess, queues, mailer, recon, up, relayed,
                 redialed>>

Redial(v) ==
  /\ up
  /\ saver[v].at = "redial"
  /\ mongo' = "up"
  /\ recon' = [recon EXCEPT ![v] = TRUE]
  /\ redialed' = redialed \cup {saver[v].job}
  /\ SaverGoes(v, "again", saver[v].job, 0)
  /\ UNCHANGED <<to, failures, sess, queues, mailer, up, copies, relayed>>

(* CreateMongoDB returns nil and Store is called on it: the process panics.  *)
RedialFails(v) ==
  /\ up
  /\ "redial" \in failures
  /\ saver[v].at = "redial"
  /\ up' = FALSE
  /\ UNCHANGED <<to, failures, sess, queues, workers, store, relayed>>

NotifySaved_Twice(v) ==
  /\ up
  /\ saver[v].at = "notify"
  /\ Receive(saver[v].job[1], saver[v].status)
  /\ UNCHANGED <<to, failures, queues, workers, store, up, relayed>>

NotifySaved(v) ==
  /\ up
  /\ saver[v].at = "notify"
  /\ Receive(saver[v].job[1], saver[v].status)
  /\ SaverGoes(v, "idle", NoJob, 0)
  /\ UNCHANGED <<to, failures, queues, mailer, recon, store, up,
                 relayed>>

-----------------------------------------------------------------------------
SessionStep(m) == Submit(m) \/ Enqueue(m) \/ TimeOut(m)

SendMail(d) ==
  \/ MailerTakes(d) \/ QueueLocal(d) \/ Relay(d) \/ RelayFails(d)
  \/ NotifyRelayed(d)

SaveMail(v) ==
  \/ SaverTakes(v) \/ StoreSucceeds(v) \/ StoreRefused(v) \/ StoreEOF(v)
  \/ Redial(v) \/ RedialFails(v) \/ NotifySaved(v)

Next ==
  \/ \E m \in Msgs : SessionStep(m)
  \/ \E d \in Mailers : SendMail(d)
  \/ \E v \in Savers : SaveMail(v)

Spec == Init /\ [][Next]_vars

(* The workers run, MongoDB and the remote servers answer in the end, one    *)
(* way or another, and a timer that is running expires.  Nothing obliges a   *)
(* session to submit a message.                                              *)
Fairness ==
  /\ \A m \in Msgs : WF_vars(Enqueue(m)) /\ WF_vars(TimeOut(m))
  /\ \A d \in Mailers : WF_vars(SendMail(d))
  /\ \A v \in Savers : WF_vars(SaveMail(v))

FairSpec == Spec /\ Fairness

-----------------------------------------------------------------------------
(* Safety.                                                                   *)

Recipients(m) == {<<m, i>> : i \in 1..Len(to[m])}
Delivered(j) == copies[j] > 0 \/ j \in relayed

(* A client that reads 250 has handed its message to somebody: it has been   *)
(* inserted for a recipient or taken by a remote server, although the status *)
(* travels through two queues and comes from any of several workers          *)
(* (client.go:431, mailer.go:76, storage.go:107).                            *)
AckedIsDelivered ==
  \A m \in Msgs :
    sess[m] = "accepted" => \E j \in Recipients(m) : Delivered(j)

(* A queued save is inserted once, and twice only when a saver reconnected   *)
(* for it after an insert whose outcome was unknown (storage.go:92-102).     *)
InsertedOnce ==
  \A j \in Jobs : copies[j] <= (IF j \in redialed THEN 2 ELSE 1)

Stuck(m, at) == at = "notify" /\ sess[m] # "waiting"

(* What can cost the server a worker: one is left blocked on Notify only by  *)
(* a message that has timed out or that has several recipients; a message    *)
(* for one recipient whose session is patient never does                     *)
(* (client.go:429-441, mailer.go:76, storage.go:107-109).                    *)
WorkersStuckOnlyBy ==
  \A m \in Msgs :
    \/ Len(to[m]) > 1
    \/ sess[m] = "timedout"
    \/ /\ \A d \in Mailers : mailer[d].job[1] = m => ~Stuck(m, mailer[d].at)
       /\ \A v \in Savers : saver[v].job[1] = m => ~Stuck(m, saver[v].at)

(* The promise of the pipeline as a whole, stated in Delivery.               *)
verdict ==
  [m \in Msgs |->
     CASE sess[m] \in {"idle", "sending"} -> "none"
       [] sess[m] = "waiting" -> "pending"
       [] sess[m] = "accepted" -> "accepted"
       [] OTHER -> "refused"]

Promise == INSTANCE Delivery WITH
  Submissions <- Msgs, Places <- 1..MaxRcpts,
  verdict <- verdict, served <- {j \in Jobs : Delivered(j)}

(* The queues and workers deliver and answer as Delivery says: one verdict   *)
(* for a message, 250 only after a delivery, no delivery without submission. *)
KeepsPromise == Promise!Spec

(* Liveness.                                                                 *)

(* A session that waits for its verdict stops waiting, whatever has become   *)
(* of the workers, since its timer expires (client.go:438).                  *)
WaitEnds ==
  "timeout" \in failures =>
    \A m \in Msgs : sess[m] = "waiting" ~> (sess[m] # "waiting" \/ ~up)

(* Where nothing goes wrong and every message has one recipient, the         *)
(* recipient of a message that a session has begun to submit gets it, however*)
(* the queues fill and block: "I'll make sure <%v> gets this"                *)
(* (client.go:239).                                                          *)
EveryRecipientServed ==
  (failures = {} /\ \A m \in Msgs : Len(to[m]) = 1)
    => \A m \in Msgs : sess[m] # "idle" ~> Delivered(<<m, 1>>)

-----------------------------------------------------------------------------
(* What the repository says of the pipeline and its code does not do.        *)

(* "Wait for the save to complete" (client.go:429): a client that reads 250  *)
(* has its message saved for every local recipient.                          *)
AckMeansSaved ==
  \A m \in Msgs : sess[m] = "accepted" =>
    \A j \in Recipients(m) : to[m][j[2]] = "local" => copies[j] > 0
=============================================================================
