------------------------- MODULE MailPipeline_proofs -------------------------
(***************************************************************************)
(* Theorems about MailPipeline, for any messages, recipients, numbers of   *)
(* workers, capacities and failures: its type invariant, that a message    *)
(* acknowledged with 250 has been delivered to somebody, that the pipeline *)
(* implements Delivery, that a queued save is inserted once, or twice if a *)
(* saver reconnected for it, and what can leave a worker blocked on        *)
(* Notify.                                                                 *)
(***************************************************************************)
EXTENDS MailPipeline, TLAPS

Submitted(m) == sess[m] \notin {"idle", "sending"}
AtRecipientOf(j) ==
  j \in Jobs /\ Submitted(j[1]) /\ j[2] <= Len(to[j[1]])

(* Whatever is in a queue or in the hands of a worker has been submitted and *)
(* is for a recipient of its message.                                        *)
OnlySubmitted ==
  /\ \A i \in 1..Len(sendQ) : Submitted(sendQ[i])
  /\ \A i \in 1..Len(saveQ) : AtRecipientOf(saveQ[i])
  /\ \A d \in Mailers :
       mailer[d].at \in {"loop", "notify"} => AtRecipientOf(mailer[d].job)
  /\ \A v \in Savers : saver[v].at # "idle" => AtRecipientOf(saver[v].job)

(* A worker that is about to report success has something to show for it.    *)
ReportsAreTrue ==
  /\ \A d \in Mailers : mailer[d].at = "notify" => mailer[d].job \in relayed
  /\ \A v \in Savers :
       saver[v].at = "notify" /\ saver[v].status = 1 => copies[saver[v].job] > 0

(* What is delivered has been submitted.                                     *)
DeliveredWereSubmitted == \A j \in Jobs : Delivered(j) => Submitted(j[1])

IInv ==
  /\ TypeOK
  /\ OnlySubmitted
  /\ ReportsAreTrue
  /\ DeliveredWereSubmitted
  /\ AckedIsDelivered

-----------------------------------------------------------------------------
(* A message's list of recipients is a sequence of 1 to MaxRcpts addresses.  *)
LEMMA Lists ==
  ASSUME TypeOK, NEW m \in Msgs
  PROVE  to[m] \in Seq(Address) /\ Len(to[m]) \in 1..MaxRcpts
<1>1. to[m] \in UNION {[1..n -> Address] : n \in 1..MaxRcpts}
  BY DEF TypeOK
<1>2. PICK n \in 1..MaxRcpts : to[m] \in [1..n -> Address]
  BY <1>1
<1>. QED BY <1>2, PipelineAssumption

(* What a step of one mailer does to the mailers.                            *)
LEMMA MailerStep ==
  ASSUME TypeOK, NEW d \in Mailers,
         NEW at \in {"idle", "loop", "notify", "dead"},
         NEW job \in Jobs \cup {NoJob},
         MailerGoes(d, at, job)
  PROVE  /\ mailer' \in [Mailers -> MailerState]
         /\ mailer'[d].at = at /\ mailer'[d].job = job
         /\ \A e \in Mailers : e # d => mailer'[e] = mailer[e]
<1>1. [at |-> at, job |-> job] \in MailerState
  BY DEF MailerState
<1>. QED BY <1>1 DEF TypeOK, MailerGoes

(* What a step of one saver does to the savers.                              *)
LEMMA SaverStep ==
  ASSUME TypeOK, NEW v \in Savers,
         NEW at \in {"idle", "store", "redial", "again", "notify"},
         NEW job \in Jobs \cup {NoJob}, NEW status \in {-1, 0, 1},
         SaverGoes(v, at, job, status)
  PROVE  /\ saver' \in [Savers -> SaverState]
         /\ saver'[v].at = at /\ saver'[v].job = job
         /\ saver'[v].status = status
         /\ \A w \in Savers : w # v => saver'[w] = saver[w]
<1>1. [at |-> at, job |-> job, status |-> status] \in SaverState
  BY DEF SaverState
<1>. QED BY <1>1 DEF TypeOK, SaverGoes

(* A mailer at a recipient goes to the next one or back to its channel.      *)
LEMMA NextRecipientStep ==
  ASSUME TypeOK, NEW d \in Mailers, AtRecipientOf(mailer[d].job),
         NextRecipient(d)
  PROVE  /\ mailer' \in [Mailers -> MailerState]
         /\ mailer'[d].at \in {"idle", "loop"}
         /\ mailer'[d].at = "loop" =>
              /\ mailer'[d].job \in Jobs
              /\ mailer'[d].job[1] = mailer[d].job[1]
              /\ mailer'[d].job[2] <= Len(to[mailer[d].job[1]])
         /\ \A e \in Mailers : e # d => mailer'[e] = mailer[e]
<1>. DEFINE j == mailer[d].job
<1>1. /\ j \in Jobs /\ j[1] \in Msgs /\ j[2] \in 1..MaxRcpts
      /\ j[2] <= Len(to[j[1]])
  BY DEF AtRecipientOf, Jobs
<1>2. Len(to[j[1]]) \in 1..MaxRcpts
  BY <1>1, Lists
<1>3. CASE j[2] < Len(to[j[1]])
  <2>1. MailerGoes(d, "loop", <<j[1], j[2] + 1>>)
    BY <1>3 DEF NextRecipient
  <2>2. /\ <<j[1], j[2] + 1>> \in Jobs
        /\ j[2] + 1 <= Len(to[j[1]])
    BY <1>1, <1>2, <1>3, PipelineAssumption DEF Jobs
  <2>. QED BY <2>1, <2>2, MailerStep
<1>4. CASE ~(j[2] < Len(to[j[1]]))
  <2>1. MailerGoes(d, "idle", NoJob)
    BY <1>4 DEF NextRecipient
  <2>. QED BY <2>1, MailerStep
<1>. QED BY <1>3, <1>4

(* A status received changes the sessions' types nowhere, unsubmits nothing  *)
(* and accepts only the message it is for.                                   *)
LEMMA ReceiveStep ==
  ASSUME TypeOK, NEW m \in Msgs, NEW status \in {-1, 0, 1}, Receive(m, status)
  PROVE  /\ sess' \in [Msgs -> {"idle", "sending", "waiting", "accepted",
                                "refused", "timedout"}]
         /\ \A k \in Msgs : Submitted(k) => Submitted(k)'
         /\ sess'[m] \in {"accepted", "refused"}
         /\ sess'[m] = "accepted" => status = 1
         /\ \A k \in Msgs : k # m => sess'[k] = sess[k]
  BY DEF TypeOK, Receive, Submitted

(* The initial states.                                                       *)
LEMMA InitIInv == Init => IInv
<1>. SUFFICES ASSUME Init
              PROVE  IInv
  OBVIOUS
<1>1. TypeOK
  <2>1. mailer \in [Mailers -> MailerState] /\ saver \in [Savers -> SaverState]
    BY DEF Init, MailerState, SaverState
  <2>2. sendQ \in Seq(Msgs) /\ Len(sendQ) <= SendCap
    BY PipelineAssumption DEF Init
  <2>3. saveQ \in Seq(Jobs) /\ Len(saveQ) <= SaveCap
    BY PipelineAssumption DEF Init
  <2>4. /\ to \in [Msgs -> UNION {[1..n -> Address] : n \in 1..MaxRcpts}]
        /\ recon \in [Savers -> BOOLEAN]
        /\ up \in BOOLEAN
        /\ relayed \subseteq Jobs /\ redialed \subseteq Jobs
        /\ failures \in {{}, Failures}
    BY DEF Init
  <2>5. /\ copies \in [Jobs -> Nat]
        /\ mongo \in {"up", "broken"}
        /\ sess \in [Msgs -> {"idle", "sending", "waiting", "accepted",
                              "refused", "timedout"}]
    BY DEF Init
  <2>. QED BY <2>1, <2>2, <2>3, <2>4, <2>5 DEF TypeOK
<1>2. OnlySubmitted /\ ReportsAreTrue
  BY DEF Init, OnlySubmitted, ReportsAreTrue
<1>3. DeliveredWereSubmitted /\ AckedIsDelivered
  BY DEF Init, DeliveredWereSubmitted, AckedIsDelivered, Delivered
<1>. QED BY <1>1, <1>2, <1>3 DEF IInv
-----------------------------------------------------------------------------
(* The steps of a session keep the invariant.                                *)
LEMMA SubmitKeeps ==
  ASSUME IInv, NEW m \in Msgs, Submit(m)
  PROVE  IInv'
<1>. USE DEF Submit, IInv, queues, workers, store
<1>1. TypeOK'
  BY DEF TypeOK
<1>2. \A k \in Msgs : Submitted(k) => Submitted(k)'
  BY DEF TypeOK, Submitted
<1>3. OnlySubmitted'
  <2>1. UNCHANGED <<to, sendQ, saveQ, mailer, saver>>
    OBVIOUS
  <2>2. \A i \in 1..Len(sendQ) : Submitted(sendQ[i])'
    BY <1>2, <2>1 DEF TypeOK, OnlySubmitted
  <2>3. \A j \in Jobs : AtRecipientOf(j) => AtRecipientOf(j)'
    BY <1>2, <2>1 DEF AtRecipientOf, Jobs
  <2>4. \A j : AtRecipientOf(j) => j \in Jobs
    BY DEF AtRecipientOf
  <2>. QED BY <2>1, <2>2, <2>3, <2>4 DEF OnlySubmitted
<1>4. ReportsAreTrue'
  BY DEF ReportsAreTrue
<1>5. DeliveredWereSubmitted'
  BY <1>2 DEF DeliveredWereSubmitted, Delivered, Jobs
<1>6. AckedIsDelivered'
  BY DEF TypeOK, AckedIsDelivered, Delivered, Recipients
<1>. QED BY <1>1, <1>3, <1>4, <1>5, <1>6

(* So does queueing a message for the mailers, within SendCap.               *)
LEMMA EnqueueKeeps ==
  ASSUME IInv, NEW m \in Msgs, Enqueue(m)
  PROVE  IInv'
<1>. USE DEF Enqueue, IInv, workers, store
<1>1. sendQ' \in Seq(Msgs) /\ Len(sendQ') = Len(sendQ) + 1
  BY DEF TypeOK
<1>2. TypeOK'
  BY <1>1, PipelineAssumption DEF TypeOK
<1>3. \A k \in Msgs : Submitted(k) => Submitted(k)'
  BY DEF TypeOK, Submitted
<1>4. OnlySubmitted'
  <2>1. ASSUME NEW i \in 1..Len(sendQ')
        PROVE  Submitted(sendQ[i])'
    <3>1. CASE i = Len(sendQ')
      BY <1>1, <3>1 DEF TypeOK, Submitted
    <3>2. CASE i # Len(sendQ')
      <4>1. i \in 1..Len(sendQ) /\ sendQ'[i] = sendQ[i] /\ sendQ[i] \in Msgs
        BY <1>1, <3>2 DEF TypeOK
      <4>. QED BY <4>1, <1>3 DEF OnlySubmitted, Submitted
    <3>. QED BY <3>1, <3>2
  <2>. QED BY <2>1, <1>3 DEF TypeOK, OnlySubmitted, AtRecipientOf, Jobs
<1>5. ReportsAreTrue'
  BY DEF ReportsAreTrue
<1>6. DeliveredWereSubmitted'
  BY <1>3 DEF DeliveredWereSubmitted, Delivered, Jobs
<1>7. AckedIsDelivered'
  BY DEF TypeOK, AckedIsDelivered, Delivered, Recipients
<1>. QED BY <1>2, <1>4, <1>5, <1>6, <1>7

(* So does a session that gives up: its message is refused.                  *)
LEMMA TimeOutKeeps ==
  ASSUME IInv, NEW m \in Msgs, TimeOut(m)
  PROVE  IInv'
<1>. USE DEF TimeOut, IInv, queues, workers, store
<1>1. TypeOK'
  BY DEF TypeOK
<1>2. \A k \in Msgs : Submitted(k) => Submitted(k)'
  BY DEF TypeOK, Submitted
<1>3. OnlySubmitted'
  BY <1>2 DEF TypeOK, OnlySubmitted, AtRecipientOf, Jobs
<1>4. ReportsAreTrue'
  BY DEF ReportsAreTrue
<1>5. DeliveredWereSubmitted'
  BY <1>2 DEF DeliveredWereSubmitted, Delivered, Jobs
<1>6. AckedIsDelivered'
  BY DEF TypeOK, AckedIsDelivered, Delivered, Recipients
<1>. QED BY <1>1, <1>3, <1>4, <1>5, <1>6

-----------------------------------------------------------------------------
(* The steps of a mailer keep the invariant.                                 *)
LEMMA MailerTakesKeeps ==
  ASSUME IInv, NEW d \in Mailers, MailerTakes(d)
  PROVE  IInv'
<1>. USE DEF MailerTakes, IInv, store
<1>. DEFINE j == <<Head(sendQ), 1>>
<1>1. /\ sendQ \in Seq(Msgs) /\ sendQ # <<>>
      /\ Head(sendQ) \in Msgs /\ Head(sendQ) = sendQ[1]
      /\ sendQ' \in Seq(Msgs) /\ Len(sendQ') = Len(sendQ) - 1
      /\ \A i \in 1..Len(sendQ') : sendQ'[i] = sendQ[i + 1]
  BY DEF TypeOK
<1>2. j \in Jobs
  BY <1>1, PipelineAssumption DEF Jobs
<1>3. AtRecipientOf(j)
  <2>1. Submitted(sendQ[1])
    BY <1>1 DEF OnlySubmitted
  <2>2. Len(to[j[1]]) \in 1..MaxRcpts
    BY <1>1, Lists
  <2>. QED BY <1>1, <1>2, <2>1, <2>2 DEF AtRecipientOf
<1>4. /\ mailer' \in [Mailers -> MailerState]
      /\ mailer'[d].at = "loop" /\ mailer'[d].job = j
      /\ \A e \in Mailers : e # d => mailer'[e] = mailer[e]
  BY <1>2, MailerStep
<1>5. TypeOK'
  BY <1>1, <1>4, PipelineAssumption DEF TypeOK
<1>6. OnlySubmitted'
  <2>1. \A i \in 1..Len(sendQ') : Submitted(sendQ[i])'
    <3>1. ASSUME NEW i \in 1..Len(sendQ')
          PROVE  Submitted(sendQ[i + 1])
      BY <1>1 DEF OnlySubmitted
    <3>. QED BY <1>1, <3>1 DEF Submitted
  <2>2. \A e \in Mailers :
          mailer'[e].at \in {"loop", "notify"} => AtRecipientOf(mailer[e].job)'
    BY <1>3, <1>4 DEF OnlySubmitted, AtRecipientOf, Submitted
  <2>3. /\ \A i \in 1..Len(saveQ') : AtRecipientOf(saveQ[i])'
        /\ \A v \in Savers : saver'[v].at # "idle" => AtRecipientOf(saver[v].job)'
    BY DEF OnlySubmitted, AtRecipientOf, Submitted
  <2>. QED BY <2>1, <2>2, <2>3 DEF OnlySubmitted
<1>7. ReportsAreTrue'
  BY <1>4 DEF ReportsAreTrue
<1>8. DeliveredWereSubmitted' /\ AckedIsDelivered'
  BY DEF DeliveredWereSubmitted, AckedIsDelivered, Delivered, Recipients, Submitted
<1>. QED BY <1>5, <1>6, <1>7, <1>8

(* Queueing a save, within SaveCap, keeps the invariant.                     *)
LEMMA QueueLocalKeeps ==
  ASSUME IInv, NEW d \in Mailers, QueueLocal(d)
  PROVE  IInv'
<1>. USE DEF QueueLocal, IInv, store
<1>. DEFINE j == mailer[d].job
<1>1. AtRecipientOf(j) /\ j \in Jobs
  BY DEF AtRecipient, OnlySubmitted, AtRecipientOf
<1>2. /\ mailer' \in [Mailers -> MailerState]
      /\ mailer'[d].at \in {"idle", "loop"}
      /\ mailer'[d].at = "loop" =>
           /\ mailer'[d].job \in Jobs
           /\ mailer'[d].job[1] = j[1]
           /\ mailer'[d].job[2] <= Len(to[j[1]])
      /\ \A e \in Mailers : e # d => mailer'[e] = mailer[e]
  BY <1>1, NextRecipientStep
<1>3. /\ saveQ \in Seq(Jobs) /\ saveQ' \in Seq(Jobs)
      /\ Len(saveQ') = Len(saveQ) + 1 /\ Len(saveQ) \in Nat
      /\ saveQ'[Len(saveQ')] = j
      /\ \A i \in 1..Len(saveQ) : saveQ'[i] = saveQ[i]
  BY <1>1 DEF TypeOK
<1>4. TypeOK'
  BY <1>2, <1>3, PipelineAssumption DEF TypeOK
<1>5. OnlySubmitted'
  <2>1. \A i \in 1..Len(saveQ') : AtRecipientOf(saveQ[i])'
    <3>1. ASSUME NEW i \in 1..Len(saveQ')
          PROVE  AtRecipientOf(saveQ'[i])
      <4>1. CASE i = Len(saveQ')
        BY <1>1, <1>3, <4>1
      <4>2. CASE i # Len(saveQ')
        <5>1. i \in 1..Len(saveQ)
          BY <1>3, <4>2
        <5>. QED BY <1>3, <5>1 DEF OnlySubmitted
      <4>. QED BY <4>1, <4>2
    <3>. QED BY <3>1 DEF AtRecipientOf, Submitted
  <2>2. \A e \in Mailers :
          mailer'[e].at \in {"loop", "notify"} => AtRecipientOf(mailer[e].job)'
    BY <1>1, <1>2 DEF OnlySubmitted, AtRecipientOf, Submitted
  <2>3. /\ \A i \in 1..Len(sendQ') : Submitted(sendQ[i])'
        /\ \A v \in Savers : saver'[v].at # "idle" => AtRecipientOf(saver[v].job)'
    BY DEF OnlySubmitted, AtRecipientOf, Submitted
  <2>. QED BY <2>1, <2>2, <2>3 DEF OnlySubmitted
<1>6. ReportsAreTrue'
  BY <1>2 DEF ReportsAreTrue
<1>7. DeliveredWereSubmitted' /\ AckedIsDelivered'
  BY DEF DeliveredWereSubmitted, AckedIsDelivered, Delivered, Recipients, Submitted
<1>. QED BY <1>4, <1>5, <1>6, <1>7

(* A recipient a remote server has taken keeps the invariant.                *)
LEMMA RelayKeeps ==
  ASSUME IInv, NEW d \in Mailers, Relay(d)
  PROVE  IInv'
<1>. USE DEF Relay, IInv, queues, store
<1>. DEFINE j == mailer[d].job
<1>1. AtRecipientOf(j) /\ j \in Jobs
  BY DEF AtRecipient, OnlySubmitted, AtRecipientOf
<1>2. /\ mailer' \in [Mailers -> MailerState]
      /\ mailer'[d].at = "notify" /\ mailer'[d].job = j
      /\ \A e \in Mailers : e # d => mailer'[e] = mailer[e]
  BY <1>1, MailerStep
<1>3. TypeOK'
  BY <1>1, <1>2 DEF TypeOK
<1>4. OnlySubmitted'
  <2>1. \A e \in Mailers :
          mailer'[e].at \in {"loop", "notify"} => AtRecipientOf(mailer[e].job)'
    BY <1>1, <1>2 DEF OnlySubmitted, AtRecipientOf, Submitted
  <2>2. /\ \A i \in 1..Len(sendQ') : Submitted(sendQ[i])'
        /\ \A i \in 1..Len(saveQ') : AtRecipientOf(saveQ[i])'
        /\ \A v \in Savers : saver'[v].at # "idle" => AtRecipientOf(saver[v].job)'
    BY DEF OnlySubmitted, AtRecipientOf, Submitted
  <2>. QED BY <2>1, <2>2 DEF OnlySubmitted
<1>5. ReportsAreTrue'
  BY <1>1, <1>2 DEF ReportsAreTrue
<1>6. DeliveredWereSubmitted' /\ AckedIsDelivered'
  BY <1>1 DEF DeliveredWereSubmitted, AckedIsDelivered, Delivered, Recipients,
              Submitted, AtRecipientOf
<1>. QED BY <1>3, <1>4, <1>5, <1>6

(* A mailer that returns keeps the invariant.                                *)
LEMMA RelayFailsKeeps ==
  ASSUME IInv, NEW d \in Mailers, RelayFails(d)
  PROVE  IInv'
<1>. USE DEF RelayFails, IInv, queues, store
<1>. DEFINE j == mailer[d].job
<1>1. AtRecipientOf(j) /\ j \in Jobs
  BY DEF AtRecipient, OnlySubmitted, AtRecipientOf
<1>2. /\ mailer' \in [Mailers -> MailerState]
      /\ mailer'[d].at = "dead"
      /\ \A e \in Mailers : e # d => mailer'[e] = mailer[e]
  BY MailerStep
<1>3. TypeOK'
  BY <1>1, <1>2 DEF TypeOK
<1>4. OnlySubmitted'
  BY <1>2 DEF OnlySubmitted, AtRecipientOf, Submitted
<1>5. ReportsAreTrue'
  BY <1>2 DEF ReportsAreTrue
<1>6. DeliveredWereSubmitted' /\ AckedIsDelivered'
  BY <1>1 DEF DeliveredWereSubmitted, AckedIsDelivered, Delivered, Recipients,
              Submitted, AtRecipientOf
<1>. QED BY <1>3, <1>4, <1>5, <1>6

(* The mailer reports a recipient that has been relayed.                     *)
LEMMA NotifyRelayedKeeps ==
  ASSUME IInv, NEW d \in Mailers, NotifyRelayed(d)
  PROVE  IInv'
<1>. USE DEF NotifyRelayed, IInv, queues, store
<1>. DEFINE j == mailer[d].job
            m == j[1]
<1>1. /\ AtRecipientOf(j) /\ j \in Jobs /\ m \in Msgs
      /\ j = <<m, j[2]>> /\ j[2] \in 1..Len(to[m])
  BY Lists DEF OnlySubmitted, AtRecipientOf, Jobs
<1>2. /\ mailer' \in [Mailers -> MailerState]
      /\ mailer'[d].at \in {"idle", "loop"}
      /\ mailer'[d].at = "loop" =>
           /\ mailer'[d].job \in Jobs
           /\ mailer'[d].job[1] = m
           /\ mailer'[d].job[2] <= Len(to[m])
      /\ \A e \in Mailers : e # d => mailer'[e] = mailer[e]
  BY <1>1, NextRecipientStep
<1>3. /\ sess' \in [Msgs -> {"idle", "sending", "waiting", "accepted",
                             "refused", "timedout"}]
      /\ \A k \in Msgs : Submitted(k) => Submitted(k)'
      /\ \A k \in Msgs : k # m => sess'[k] = sess[k]
  BY <1>1, ReceiveStep
<1>4. TypeOK'
  BY <1>2, <1>3 DEF TypeOK
<1>5. OnlySubmitted'
  <2>1. ASSUME NEW e \in Mailers, mailer'[e].at \in {"loop", "notify"}
        PROVE  AtRecipientOf(mailer[e].job)'
    BY <1>1, <1>2, <1>3, <2>1 DEF OnlySubmitted, AtRecipientOf, Jobs, Submitted
  <2>2. \A i \in 1..Len(sendQ') : Submitted(sendQ[i])'
    <3>1. \A i \in 1..Len(sendQ) : sendQ[i] \in Msgs
      BY DEF TypeOK
    <3>. QED BY <1>3, <3>1 DEF OnlySubmitted, Submitted
  <2>3. \A i \in 1..Len(saveQ') : AtRecipientOf(saveQ[i])'
    <3>1. ASSUME NEW i \in 1..Len(saveQ)
          PROVE  saveQ[i] \in Jobs /\ AtRecipientOf(saveQ[i])
      BY DEF OnlySubmitted, AtRecipientOf
    <3>. QED BY <1>3, <3>1 DEF AtRecipientOf, Jobs, Submitted
  <2>4. \A v \in Savers : saver'[v].at # "idle" => AtRecipientOf(saver[v].job)'
    BY <1>3 DEF OnlySubmitted, AtRecipientOf, Jobs, Submitted
  <2>. QED BY <2>1, <2>2, <2>3, <2>4 DEF OnlySubmitted
<1>6. ReportsAreTrue'
  BY <1>2 DEF ReportsAreTrue
<1>7. DeliveredWereSubmitted'
  BY <1>3 DEF DeliveredWereSubmitted, Delivered, Jobs
<1>8. AckedIsDelivered'
  <2>1. j \in Recipients(m) /\ Delivered(j)
    BY <1>1 DEF ReportsAreTrue, Recipients, Delivered
  <2>. QED BY <1>3, <2>1 DEF AckedIsDelivered, Delivered, Recipients
<1>. QED BY <1>4, <1>5, <1>6, <1>7, <1>8

-----------------------------------------------------------------------------
(* The steps of a saver keep the invariant.                                  *)
LEMMA SaverTakesKeeps ==
  ASSUME IInv, NEW v \in Savers, SaverTakes(v)
  PROVE  IInv'
<1>. USE DEF SaverTakes, IInv, store
<1>. DEFINE j == Head(saveQ)
<1>1. /\ saveQ \in Seq(Jobs) /\ saveQ # <<>>
      /\ j \in Jobs /\ j = saveQ[1]
      /\ saveQ' \in Seq(Jobs) /\ Len(saveQ') = Len(saveQ) - 1
      /\ \A i \in 1..Len(saveQ') : saveQ'[i] = saveQ[i + 1]
  BY DEF TypeOK
<1>2. AtRecipientOf(j)
  BY <1>1 DEF OnlySubmitted
<1>3. /\ saver' \in [Savers -> SaverState]
      /\ saver'[v].at = "store" /\ saver'[v].job = j
      /\ \A w \in Savers : w # v => saver'[w] = saver[w]
  BY <1>1, SaverStep
<1>4. TypeOK'
  BY <1>1, <1>3, PipelineAssumption DEF TypeOK
<1>5. OnlySubmitted'
  <2>1. \A i \in 1..Len(saveQ') : AtRecipientOf(saveQ[i])'
    <3>1. ASSUME NEW i \in 1..Len(saveQ')
          PROVE  AtRecipientOf(saveQ[i + 1])
      BY <1>1 DEF OnlySubmitted
    <3>. QED BY <1>1, <3>1 DEF AtRecipientOf, Submitted
  <2>2. \A w \in Savers : saver'[w].at # "idle" => AtRecipientOf(saver[w].job)'
    BY <1>2, <1>3 DEF OnlySubmitted, AtRecipientOf, Submitted
  <2>3. /\ \A i \in 1..Len(sendQ') : Submitted(sendQ[i])'
        /\ \A d \in Mailers :
             mailer'[d].at \in {"loop", "notify"} => AtRecipientOf(mailer[d].job)'
    BY DEF OnlySubmitted, AtRecipientOf, Submitted
  <2>. QED BY <2>1, <2>2, <2>3 DEF OnlySubmitted
<1>6. ReportsAreTrue'
  BY <1>3 DEF ReportsAreTrue
<1>7. DeliveredWereSubmitted' /\ AckedIsDelivered'
  BY DEF DeliveredWereSubmitted, AckedIsDelivered, Delivered, Recipients, Submitted
<1>. QED BY <1>4, <1>5, <1>6, <1>7

(* The saver goes from one stage of a save to another, the sessions and the  *)
(* queues stay as they are and copies do not disappear.                      *)
LEMMA SaverGoesOn ==
  ASSUME IInv, NEW v \in Savers, saver[v].at # "idle",
         NEW at \in {"store", "redial", "again", "notify"},
         NEW status \in {-1, 0, 1},
         SaverGoes(v, at, saver[v].job, status),
         UNCHANGED <<to, failures, sess, queues, mailer, up, relayed>>,
         mongo' \in {"up", "broken"}, recon' \in [Savers -> BOOLEAN],
         redialed' \subseteq Jobs,
         copies' \in [Jobs -> Nat],
         \A j \in Jobs : copies[j] > 0 => copies'[j] > 0,
         \A j \in Jobs : j # saver[v].job => copies'[j] = copies[j],
         at = "notify" /\ status = 1 => copies'[saver[v].job] > 0
  PROVE  IInv'
<1>. USE DEF IInv, queues
<1>. DEFINE j == saver[v].job
<1>1. AtRecipientOf(j) /\ j \in Jobs /\ j[1] \in Msgs
  BY DEF OnlySubmitted, AtRecipientOf, Jobs
<1>2. /\ saver' \in [Savers -> SaverState]
      /\ saver'[v].at = at /\ saver'[v].job = j /\ saver'[v].status = status
      /\ \A w \in Savers : w # v => saver'[w] = saver[w]
  BY <1>1, SaverStep
<1>3. TypeOK'
  BY <1>2 DEF TypeOK
<1>4. OnlySubmitted'
  BY <1>1, <1>2 DEF OnlySubmitted, AtRecipientOf, Submitted
<1>5. ReportsAreTrue'
  <2>1. ASSUME NEW w \in Savers, saver'[w].at = "notify", saver'[w].status = 1
        PROVE  copies'[saver'[w].job] > 0
    <3>1. CASE w = v
      BY <1>2, <2>1, <3>1
    <3>2. CASE w # v
      <4>1. saver'[w] = saver[w] /\ saver[w].job \in Jobs
        BY <1>2, <2>1, <3>2 DEF OnlySubmitted, AtRecipientOf
      <4>. QED BY <2>1, <4>1 DEF ReportsAreTrue
    <3>. QED BY <3>1, <3>2
  <2>. QED BY <2>1 DEF ReportsAreTrue
<1>6. DeliveredWereSubmitted'
  BY <1>1 DEF DeliveredWereSubmitted, Delivered, Submitted, AtRecipientOf
<1>7. AckedIsDelivered'
  <2>1. ASSUME NEW m \in Msgs, NEW k \in Recipients(m), Delivered(k)
        PROVE  Delivered(k)'
    <3>1. Len(to[m]) \in 1..MaxRcpts
      BY Lists
    <3>2. k \in Jobs
      BY <3>1, PipelineAssumption DEF Recipients, Jobs
    <3>. QED BY <2>1, <3>2 DEF Delivered
  <2>. QED BY <2>1 DEF AckedIsDelivered, Recipients
<1>. QED BY <1>3, <1>4, <1>5, <1>6, <1>7

(* An insert adds one copy for the save in hand.                             *)
LEMMA InsertStep ==
  ASSUME IInv, NEW v \in Savers, saver[v].at # "idle", Insert(v)
  PROVE  /\ copies' \in [Jobs -> Nat]
         /\ copies'[saver[v].job] > 0
         /\ \A j \in Jobs : copies[j] > 0 => copies'[j] > 0
         /\ \A j \in Jobs : j # saver[v].job => copies'[j] = copies[j]
<1>1. saver[v].job \in Jobs /\ copies \in [Jobs -> Nat]
  BY DEF IInv, TypeOK, OnlySubmitted, AtRecipientOf
<1>. QED BY <1>1 DEF Insert

(* A save that is reported as done has been inserted.                        *)
LEMMA StoreSucceedsKeeps ==
  ASSUME IInv, NEW v \in Savers, StoreSucceeds(v)
  PROVE  IInv'
<1>1. saver[v].at # "idle" /\ Insert(v)
  BY DEF StoreSucceeds
<1>2. recon' \in [Savers -> BOOLEAN] /\ redialed' \subseteq Jobs
  BY DEF StoreSucceeds, IInv, TypeOK
<1>. QED BY <1>1, <1>2, InsertStep, SaverGoesOn DEF StoreSucceeds, Report

(* A save that MongoDB refuses is reported as such.                          *)
LEMMA StoreRefusedKeeps ==
  ASSUME IInv, NEW v \in Savers, StoreRefused(v)
  PROVE  IInv'
<1>1. saver[v].at # "idle" /\ mongo' \in {"up", "broken"}
  BY DEF StoreRefused, store, IInv, TypeOK
<1>2. /\ recon' \in [Savers -> BOOLEAN] /\ redialed' \subseteq Jobs
      /\ copies' = copies /\ copies \in [Jobs -> Nat]
  BY DEF StoreRefused, store, IInv, TypeOK
<1>. QED BY <1>1, <1>2, SaverGoesOn DEF StoreRefused, Report

(* A broken connection is reported, or leads to a reconnection.              *)
LEMMA StoreEOFKeeps ==
  ASSUME IInv, NEW v \in Savers, StoreEOF(v)
  PROVE  IInv'
<1>1. saver[v].at # "idle"
  BY DEF StoreEOF
<1>2. /\ recon' \in [Savers -> BOOLEAN] /\ redialed' \subseteq Jobs
      /\ mongo' \in {"up", "broken"} /\ copies \in [Jobs -> Nat]
  BY DEF StoreEOF, IInv, TypeOK
<1>3. /\ copies' \in [Jobs -> Nat]
      /\ \A j \in Jobs : copies[j] > 0 => copies'[j] > 0
      /\ \A j \in Jobs : j # saver[v].job => copies'[j] = copies[j]
  <2>1. CASE copies' = copies
    BY <1>2, <2>1
  <2>2. CASE Insert(v)
    BY <1>1, <2>2, InsertStep
  <2>. QED BY <2>1, <2>2 DEF StoreEOF
<1>4. CASE SaverGoes(v, "redial", saver[v].job, 0)
  BY <1>1, <1>2, <1>3, <1>4, SaverGoesOn DEF StoreEOF
<1>5. CASE Report(v, -1)
  BY <1>1, <1>2, <1>3, <1>5, SaverGoesOn DEF StoreEOF, Report
<1>. QED BY <1>4, <1>5 DEF StoreEOF

(* Reconnecting keeps the invariant.                                         *)
LEMMA RedialKeeps ==
  ASSUME IInv, NEW v \in Savers, Redial(v)
  PROVE  IInv'
<1>1. saver[v].at # "idle" /\ saver[v].job \in Jobs
  BY DEF Redial, IInv, OnlySubmitted, AtRecipientOf
<1>2. /\ recon' \in [Savers -> BOOLEAN] /\ redialed' \subseteq Jobs
      /\ mongo' \in {"up", "broken"}
      /\ copies' = copies /\ copies \in [Jobs -> Nat]
  BY <1>1 DEF Redial, IInv, TypeOK
<1>. QED BY <1>1, <1>2, SaverGoesOn DEF Redial

(* So does failing to, which ends the process.                               *)
LEMMA RedialFailsKeeps ==
  ASSUME IInv, NEW v \in Savers, RedialFails(v)
  PROVE  IInv'
  BY DEF RedialFails, queues, workers, store, IInv, TypeOK, OnlySubmitted,
         AtRecipientOf, Submitted, ReportsAreTrue, DeliveredWereSubmitted,
         AckedIsDelivered, Delivered, Recipients

(* A status of 1 reaches a session only after an insert.                     *)
LEMMA NotifySavedKeeps ==
  ASSUME IInv, NEW v \in Savers, NotifySaved(v)
  PROVE  IInv'
<1>. USE DEF NotifySaved, IInv, queues, store
<1>. DEFINE j == saver[v].job
            m == j[1]
<1>1. /\ AtRecipientOf(j) /\ j \in Jobs /\ m \in Msgs
      /\ j = <<m, j[2]>> /\ j[2] \in 1..Len(to[m])
  BY Lists DEF OnlySubmitted, AtRecipientOf, Jobs
<1>2. saver[v].status \in {-1, 0, 1}
  BY DEF TypeOK, SaverState
<1>3. /\ saver' \in [Savers -> SaverState]
      /\ saver'[v].at = "idle"
      /\ \A w \in Savers : w # v => saver'[w] = saver[w]
  BY SaverStep
<1>4. /\ sess' \in [Msgs -> {"idle", "sending", "waiting", "accepted",
                             "refused", "timedout"}]
      /\ \A k \in Msgs : Submitted(k) => Submitted(k)'
      /\ sess'[m] = "accepted" => saver[v].status = 1
      /\ \A k \in Msgs : k # m => sess'[k] = sess[k]
  BY <1>1, <1>2, ReceiveStep
<1>5. TypeOK'
  BY <1>3, <1>4 DEF TypeOK
<1>6. OnlySubmitted'
  <2>1. ASSUME NEW w \in Savers, saver'[w].at # "idle"
        PROVE  AtRecipientOf(saver[w].job)'
    BY <1>3, <1>4, <2>1 DEF OnlySubmitted, AtRecipientOf, Jobs, Submitted
  <2>2. ASSUME NEW i \in 1..Len(sendQ')
        PROVE  Submitted(sendQ[i])'
    BY <1>4 DEF TypeOK, OnlySubmitted
  <2>3. ASSUME NEW i \in 1..Len(saveQ')
        PROVE  AtRecipientOf(saveQ[i])'
    BY <1>4 DEF OnlySubmitted, AtRecipientOf, Jobs
  <2>4. ASSUME NEW d \in Mailers, mailer'[d].at \in {"loop", "notify"}
        PROVE  AtRecipientOf(mailer[d].job)'
    BY <1>4, <2>4 DEF OnlySubmitted, AtRecipientOf, Jobs
  <2>. QED BY <2>1, <2>2, <2>3, <2>4 DEF OnlySubmitted
<1>7. ReportsAreTrue'
  BY <1>3 DEF ReportsAreTrue
<1>8. DeliveredWereSubmitted'
  BY <1>4 DEF DeliveredWereSubmitted, Delivered, Jobs
<1>9. AckedIsDelivered'
  <2>1. saver[v].status = 1 => j \in Recipients(m) /\ Delivered(j)
    BY <1>1 DEF ReportsAreTrue, Recipients, Delivered
  <2>. QED BY <1>4, <2>1 DEF AckedIsDelivered, Delivered, Recipients
<1>. QED BY <1>5, <1>6, <1>7, <1>8, <1>9

(* Every step keeps the invariant.                                           *)
LEMMA NextIInv == IInv /\ [Next]_vars => IInv'
<1>. SUFFICES ASSUME IInv, [Next]_vars
              PROVE  IInv'
  OBVIOUS
<1>1. ASSUME NEW m \in Msgs, SessionStep(m)
      PROVE  IInv'
  BY <1>1, SubmitKeeps, EnqueueKeeps, TimeOutKeeps DEF SessionStep
<1>2. ASSUME NEW d \in Mailers, SendMail(d)
      PROVE  IInv'
  BY <1>2, MailerTakesKeeps, QueueLocalKeeps, RelayKeeps, RelayFailsKeeps,
     NotifyRelayedKeeps DEF SendMail
<1>3. ASSUME NEW v \in Savers, SaveMail(v)
      PROVE  IInv'
  BY <1>3, SaverTakesKeeps, StoreSucceedsKeeps, StoreRefusedKeeps, StoreEOFKeeps,
     RedialKeeps, RedialFailsKeeps, NotifySavedKeeps DEF SaveMail
<1>4. CASE UNCHANGED vars
  BY <1>4 DEF vars, IInv, TypeOK, OnlySubmitted, AtRecipientOf, Submitted,
              ReportsAreTrue, DeliveredWereSubmitted, AckedIsDelivered,
              Delivered, Recipients
<1>. QED BY <1>1, <1>2, <1>3, <1>4 DEF Next

(* The invariant holds in every reachable state.                             *)
THEOREM Inductive == Spec => []IInv
  BY InitIInv, NextIInv, PTL DEF Spec

(* Every variable keeps its type; in particular neither channel ever holds   *)
(* more than its capacity.                                                   *)
THEOREM TypeCorrect == Spec => []TypeOK
<1>1. IInv => TypeOK
  BY DEF IInv
<1>. QED BY Inductive, <1>1, PTL

(* A message whose session replied 250 has been inserted for one of its      *)
(* recipients or taken by a remote server, with any number of mailers and    *)
(* savers, any capacities and any failures (client.go:431).                  *)
THEOREM AckedCorrect == Spec => []AckedIsDelivered
<1>1. IInv => AckedIsDelivered
  BY DEF IInv
<1>. QED BY Inductive, <1>1, PTL
-----------------------------------------------------------------------------
(* The pipeline implements Delivery.                                         *)

(* What has been delivered, as Delivery sees it.                             *)
Served == {j \in Jobs : Delivered(j)}

(* The verdicts of Delivery for two states in which only the session of m    *)
(* differs.                                                                  *)
LEMMA VerdictStep ==
  ASSUME NEW m \in Msgs, \A k \in Msgs : k # m => sess'[k] = sess[k],
         NEW x, verdict'[m] = x
  PROVE  verdict' = [verdict EXCEPT ![m] = x]
  BY DEF verdict

(* A step of a session is a submission, a refusal or a stutter of Delivery.  *)
LEMMA SessionRefines ==
  ASSUME IInv, NEW m \in Msgs, SessionStep(m)
  PROVE  [Promise!Next]_(Promise!dvars)
<1>1. Served' = Served /\ \A k \in Msgs : k # m => sess'[k] = sess[k]
  BY DEF IInv, TypeOK, SessionStep, Submit, Enqueue, TimeOut, store, Served,
         Delivered, Jobs
<1>2. CASE Submit(m)
  <2>1. verdict' = verdict
    BY <1>2 DEF Submit, verdict, IInv, TypeOK
  <2>. QED BY <1>1, <2>1 DEF Promise!dvars, Served
<1>3. CASE Enqueue(m)
  <2>1. sess[m] = "sending" /\ sess'[m] = "waiting"
    BY <1>3 DEF Enqueue, IInv, TypeOK
  <2>2. verdict[m] = "none" /\ verdict'[m] = "pending"
    BY <2>1 DEF verdict
  <2>3. Promise!Submit(m)
    BY <1>1, <2>2, VerdictStep DEF Promise!Submit, Served
  <2>. QED BY <2>3 DEF Promise!Next
<1>4. CASE TimeOut(m)
  <2>1. sess[m] = "waiting" /\ sess'[m] = "timedout"
    BY <1>4 DEF TimeOut, IInv, TypeOK
  <2>2. verdict[m] = "pending" /\ verdict'[m] = "refused"
    BY <2>1 DEF verdict
  <2>3. Promise!Refuse(m)
    BY <1>1, <2>2, VerdictStep DEF Promise!Refuse, Served
  <2>. QED BY <2>3 DEF Promise!Next
<1>. QED BY <1>2, <1>3, <1>4 DEF SessionStep

(* A step that leaves the sessions alone and delivers at most to a recipient *)
(* of a message that has been submitted.                                     *)
LEMMA ServeRefines ==
  ASSUME IInv, UNCHANGED sess,
         NEW j \in Jobs, Submitted(j[1]),
         Served' \in {Served, Served \cup {j}}
  PROVE  [Promise!Next]_(Promise!dvars)
<1>1. verdict' = verdict /\ verdict[j[1]] # "none"
  BY DEF verdict, Submitted, Jobs, IInv, TypeOK
<1>2. CASE Served' = Served
  BY <1>1, <1>2 DEF Promise!dvars, Served
<1>3. CASE Served' = Served \cup {j}
  <2>1. j[1] \in Msgs /\ j[2] \in 1..MaxRcpts /\ j = <<j[1], j[2]>>
    BY DEF Jobs
  <2>2. Promise!Serve(j[1], j[2])
    BY <1>1, <1>3, <2>1 DEF Promise!Serve, Served
  <2>. QED BY <2>1, <2>2 DEF Promise!Next
<1>. QED BY <1>2, <1>3

(* A step that leaves the sessions and the deliveries alone.                 *)
LEMMA QuietRefines ==
  ASSUME UNCHANGED <<sess, copies, relayed>>
  PROVE  [Promise!Next]_(Promise!dvars)
<1>1. verdict' = verdict /\ Served' = Served
  BY DEF verdict, Served, Delivered, Jobs
<1>. QED BY <1>1 DEF Promise!dvars, Served

(* A status received is an acceptance or a refusal of Delivery, and an       *)
(* acceptance only when the message has been delivered.                      *)
LEMMA ReceiveRefines ==
  ASSUME IInv, NEW j \in Jobs, NEW status \in {-1, 0, 1},
         Receive(j[1], status), status = 1 => Delivered(j),
         UNCHANGED <<copies, relayed>>
  PROVE  [Promise!Next]_(Promise!dvars)
<1>. DEFINE m == j[1]
<1>1. /\ m \in Msgs /\ j[2] \in 1..MaxRcpts /\ j = <<m, j[2]>>
  BY DEF Jobs
<1>2. /\ sess[m] = "waiting" /\ verdict[m] = "pending"
      /\ \A k \in Msgs : k # m => sess'[k] = sess[k]
  BY <1>1 DEF Receive, verdict, IInv, TypeOK
<1>3. Served' = Served
  BY DEF Served, Delivered, Jobs
<1>4. CASE status = 1
  <2>1. sess'[m] = "accepted"
    BY <1>1, <1>4 DEF Receive, IInv, TypeOK
  <2>2. verdict'[m] = "accepted"
    BY <1>1, <2>1 DEF verdict
  <2>3. verdict' = [verdict EXCEPT ![m] = "accepted"]
    BY <1>1, <1>2, <2>2, VerdictStep
  <2>4. <<m, j[2]>> \in Served
    BY <1>1, <1>4 DEF Served
  <2>5. Promise!Accept(m)
    BY <1>1, <1>2, <1>3, <2>3, <2>4 DEF Promise!Accept, Served
  <2>. QED BY <1>1, <2>5 DEF Promise!Next
<1>5. CASE status # 1
  <2>1. sess'[m] = "refused"
    BY <1>1, <1>5 DEF Receive, IInv, TypeOK
  <2>2. verdict'[m] = "refused"
    BY <1>1, <2>1 DEF verdict
  <2>3. verdict' = [verdict EXCEPT ![m] = "refused"]
    BY <1>1, <1>2, <2>2, VerdictStep
  <2>4. Promise!Refuse(m)
    BY <1>1, <1>2, <1>3, <2>3 DEF Promise!Refuse, Served
  <2>. QED BY <1>1, <2>4 DEF Promise!Next
<1>. QED BY <1>4, <1>5

(* A step of a mailer serves a recipient, answers or stutters.               *)
LEMMA MailerRefines ==
  ASSUME IInv, NEW d \in Mailers, SendMail(d)
  PROVE  [Promise!Next]_(Promise!dvars)
<1>1. CASE MailerTakes(d) \/ QueueLocal(d)
  BY <1>1, QuietRefines DEF MailerTakes, QueueLocal, store
<1>2. CASE Relay(d) \/ RelayFails(d)
  <2>. DEFINE j == mailer[d].job
  <2>1. j \in Jobs /\ Submitted(j[1])
    BY <1>2 DEF Relay, RelayFails, AtRecipient, IInv, OnlySubmitted, AtRecipientOf
  <2>2. /\ UNCHANGED <<sess, copies>>
        /\ relayed' \in {relayed, relayed \cup {j}}
    BY <1>2 DEF Relay, RelayFails, store
  <2>3. Served' \in {Served, Served \cup {j}}
    BY <2>1, <2>2 DEF Served, Delivered, Jobs
  <2>. QED BY <2>1, <2>2, <2>3, ServeRefines
<1>3. CASE NotifyRelayed(d)
  <2>1. mailer[d].job \in Jobs /\ Delivered(mailer[d].job)
    BY <1>3 DEF NotifyRelayed, IInv, OnlySubmitted, AtRecipientOf,
                ReportsAreTrue, Delivered
  <2>. QED BY <1>3, <2>1, ReceiveRefines DEF NotifyRelayed, store
<1>. QED BY <1>1, <1>2, <1>3 DEF SendMail

(* A step of a saver serves a recipient, answers or stutters.                *)
LEMMA SaverRefines ==
  ASSUME IInv, NEW v \in Savers, SaveMail(v)
  PROVE  [Promise!Next]_(Promise!dvars)
<1>. DEFINE j == saver[v].job
<1>1. CASE SaverTakes(v) \/ StoreRefused(v) \/ Redial(v) \/ RedialFails(v)
  BY <1>1, QuietRefines DEF SaverTakes, StoreRefused, Redial, RedialFails, store
<1>2. CASE StoreSucceeds(v) \/ StoreEOF(v)
  <2>1. j \in Jobs /\ Submitted(j[1])
    BY <1>2 DEF StoreSucceeds, StoreEOF, IInv, OnlySubmitted, AtRecipientOf
  <2>2. /\ UNCHANGED <<sess, relayed>>
        /\ copies' = copies \/ Insert(v)
    BY <1>2 DEF StoreSucceeds, StoreEOF
  <2>3. Served' \in {Served, Served \cup {j}}
    <3>1. CASE copies' = copies
      BY <2>2, <3>1 DEF Served, Delivered, Jobs
    <3>2. CASE Insert(v)
      <4>1. /\ copies'[j] > 0
            /\ \A k \in Jobs : k # j => copies'[k] = copies[k]
        BY <1>2, <3>2, InsertStep DEF StoreSucceeds, StoreEOF
      <4>2. Jobs' = Jobs
        BY DEF Jobs
      <4>. QED BY <2>1, <2>2, <4>1, <4>2 DEF Served, Delivered
    <3>. QED BY <2>2, <3>1, <3>2
  <2>. QED BY <2>1, <2>2, <2>3, ServeRefines
<1>3. CASE NotifySaved(v)
  <2>1. j \in Jobs /\ saver[v].status \in {-1, 0, 1}
    BY <1>3 DEF NotifySaved, IInv, TypeOK, SaverState, OnlySubmitted, AtRecipientOf
  <2>2. saver[v].status = 1 => Delivered(j)
    BY <1>3 DEF NotifySaved, IInv, ReportsAreTrue, Delivered
  <2>. QED BY <1>3, <2>1, <2>2, ReceiveRefines DEF NotifySaved, store
<1>. QED BY <1>1, <1>2, <1>3 DEF SaveMail

(* Through its queues and workers the pipeline gives every submission one    *)
(* verdict, accepts it only after a delivery, and delivers only what was     *)
(* submitted (client.go:423-441, mailer.go:43-80, storage.go:86-110).        *)
THEOREM PromiseKept == Spec => KeepsPromise
<1>1. Init => Promise!Init
  BY DEF Init, Promise!Init, verdict, Delivered, Jobs
<1>2. IInv /\ [Next]_vars => [Promise!Next]_(Promise!dvars)
  <2>1. ASSUME IInv, UNCHANGED vars
        PROVE  [Promise!Next]_(Promise!dvars)
    BY <2>1, QuietRefines DEF vars
  <2>. QED BY <2>1, SessionRefines, MailerRefines, SaverRefines DEF Next
<1>. QED BY Inductive, <1>1, <1>2, PTL DEF Spec, KeepsPromise, Promise!Spec

-----------------------------------------------------------------------------
(* A queued save is inserted once, or twice if a saver reconnected for it,   *)
(* and few things leave a worker blocked on Notify.  Both rest on every      *)
(* message and every save being in one place at a time, whatever the queues  *)
(* and workers do with them.                                                 *)

Working(d) == mailer[d].at \in {"loop", "notify"}
Busy(v) == saver[v].at # "idle"

(* No saver has come to know of the save j.                                  *)
Fresh(j) ==
  /\ copies[j] = 0
  /\ \A p \in 1..Len(saveQ) : saveQ[p] # j
  /\ \A v \in Savers : Busy(v) => saver[v].job # j

(* A message is in SendMailChan once, or with one mailer, and the saves that *)
(* are still to be queued are fresh.                                         *)
MessagesOnce ==
  /\ \A p, q \in 1..Len(sendQ) : sendQ[p] = sendQ[q] => p = q
  /\ \A p \in 1..Len(sendQ) :
       /\ \A j \in Jobs : j[1] = sendQ[p] => Fresh(j)
       /\ \A d \in Mailers : Working(d) => mailer[d].job[1] # sendQ[p]
  /\ \A d, e \in Mailers :
       Working(d) /\ Working(e) /\ mailer[d].job[1] = mailer[e].job[1] => d = e
  /\ \A d \in Mailers : Working(d) =>
       \A j \in Jobs :
         j[1] = mailer[d].job[1] /\ j[2] >= mailer[d].job[2] => Fresh(j)

(* A save is in SaveMailChan once, not inserted yet, or with one saver.      *)
SavesOnce ==
  /\ \A p, q \in 1..Len(saveQ) : saveQ[p] = saveQ[q] => p = q
  /\ \A p \in 1..Len(saveQ) :
       /\ copies[saveQ[p]] = 0
       /\ \A v \in Savers : Busy(v) => saver[v].job # saveQ[p]
  /\ \A v, w \in Savers :
       Busy(v) /\ Busy(w) /\ saver[v].job = saver[w].job => v = w

(* What a saver may have inserted when it has come so far.                   *)
InsertsSoFar ==
  \A v \in Savers :
    /\ saver[v].at = "store" => copies[saver[v].job] = 0
    /\ saver[v].at \in {"redial", "again"} => copies[saver[v].job] <= 1
    /\ saver[v].at = "again" => saver[v].job \in redialed

(* A message for one recipient that has its verdict is nowhere any more.     *)
SinglesAreGone ==
  \A m \in Msgs :
    Len(to[m]) = 1 /\ sess[m] \in {"accepted", "refused"} =>
      /\ \A p \in 1..Len(sendQ) : sendQ[p] # m
      /\ \A d \in Mailers : Working(d) => mailer[d].job[1] # m
      /\ \A p \in 1..Len(saveQ) : saveQ[p][1] # m
      /\ \A v \in Savers : Busy(v) => saver[v].job[1] # m

OnceInv ==
  /\ MessagesOnce
  /\ SavesOnce
  /\ InsertsSoFar
  /\ InsertedOnce
  /\ SinglesAreGone

-----------------------------------------------------------------------------
(* The initial states.                                                       *)
LEMMA InitOnce == Init => OnceInv
<1>. SUFFICES ASSUME Init PROVE OnceInv
  OBVIOUS
<1>1. /\ Len(sendQ) = 0 /\ Len(saveQ) = 0
      /\ \A d \in Mailers : ~Working(d)
      /\ \A v \in Savers : ~Busy(v)
      /\ \A j \in Jobs : copies[j] = 0
      /\ \A m \in Msgs : sess[m] = "idle"
  BY DEF Init, Working, Busy
<1>2. MessagesOnce
  BY <1>1 DEF MessagesOnce
<1>3. SavesOnce
  BY <1>1 DEF SavesOnce
<1>4. InsertsSoFar
  BY <1>1 DEF InsertsSoFar, Busy
<1>5. InsertedOnce /\ SinglesAreGone
  BY <1>1 DEF InsertedOnce, SinglesAreGone
<1>. QED BY <1>2, <1>3, <1>4, <1>5 DEF OnceInv

-----------------------------------------------------------------------------
(* What a step leaves alone.                                                 *)

(* The messages' places stay while the saves that are to come stay fresh.    *)
LEMMA MessagesKept ==
  ASSUME MessagesOnce, UNCHANGED <<sendQ, mailer>>,
         \A j \in Jobs : Fresh(j) => Fresh(j)'
  PROVE  MessagesOnce'
  BY DEF MessagesOnce, Working

(* The saves' places stay while only mailers and sessions step.              *)
LEMMA SavesKept ==
  ASSUME SavesOnce, InsertsSoFar, InsertedOnce,
         UNCHANGED <<saveQ, saver, copies, redialed>>
  PROVE  /\ SavesOnce' /\ InsertsSoFar' /\ InsertedOnce'
         /\ \A j \in Jobs : Fresh(j)' <=> Fresh(j)
<1>1. \A v \in Savers : Busy(v)' <=> Busy(v)
  BY DEF Busy
<1>. QED BY <1>1 DEF SavesOnce, InsertsSoFar, InsertedOnce, Fresh

(* A message that has not been submitted is nowhere.                         *)
LEMMA UnsubmittedIsNowhere ==
  ASSUME IInv, NEW m \in Msgs, ~Submitted(m)
  PROVE  /\ \A p \in 1..Len(sendQ) : sendQ[p] # m
         /\ \A d \in Mailers : Working(d) => mailer[d].job[1] # m
         /\ \A j \in Jobs : j[1] = m => Fresh(j)
<1>1. \A p \in 1..Len(sendQ) : sendQ[p] # m
  BY DEF IInv, OnlySubmitted
<1>2. \A d \in Mailers : Working(d) => mailer[d].job[1] # m
  BY DEF IInv, OnlySubmitted, AtRecipientOf, Working
<1>3. ASSUME NEW j \in Jobs, j[1] = m
      PROVE  Fresh(j)
  <2>1. copies[j] = 0
    <3>1. copies[j] \in Nat
      BY DEF IInv, TypeOK
    <3>2. ~Delivered(j)
      BY <1>3 DEF IInv, DeliveredWereSubmitted
    <3>. QED BY <3>1, <3>2 DEF Delivered
  <2>2. /\ \A p \in 1..Len(saveQ) : saveQ[p] # j
        /\ \A v \in Savers : Busy(v) => saver[v].job # j
    BY <1>3 DEF IInv, OnlySubmitted, AtRecipientOf, Busy
  <2>. QED BY <2>1, <2>2 DEF Fresh
<1>. QED BY <1>1, <1>2, <1>3

-----------------------------------------------------------------------------
(* The steps of a session.                                                   *)

(* Only where the session is changes.                                        *)
LEMMA SessionOnce ==
  ASSUME IInv, OnceInv, NEW m \in Msgs,
         UNCHANGED <<to, queues, workers, store>>,
         \/ UNCHANGED sess
         \/ \E at \in {"sending", "timedout"} : sess' = [sess EXCEPT ![m] = at]
  PROVE  OnceInv'
<1>1. /\ UNCHANGED <<to, sendQ, saveQ, mailer, saver, copies, redialed>>
      /\ \A k \in Msgs : sess'[k] \in {"accepted", "refused"} => sess'[k] = sess[k]
  BY DEF queues, workers, store, IInv, TypeOK
<1>2. /\ SavesOnce' /\ InsertsSoFar' /\ InsertedOnce' /\ MessagesOnce'
  BY <1>1, SavesKept, MessagesKept DEF OnceInv
<1>3. SinglesAreGone'
  BY <1>1 DEF OnceInv, SinglesAreGone, Working, Busy
<1>. QED BY <1>2, <1>3 DEF OnceInv

(* A step that touches none of this.                                         *)
LEMMA NothingOnce ==
  ASSUME OnceInv,
         UNCHANGED <<to, sess, sendQ, saveQ, mailer, saver, copies, redialed>>
  PROVE  OnceInv'
<1>1. /\ SavesOnce' /\ InsertsSoFar' /\ InsertedOnce' /\ MessagesOnce'
  BY SavesKept, MessagesKept DEF OnceInv
<1>2. SinglesAreGone'
  BY DEF OnceInv, SinglesAreGone, Working, Busy
<1>. QED BY <1>1, <1>2 DEF OnceInv

(* A message goes into SendMailChan, from nowhere.                           *)
LEMMA EnqueueOnce ==
  ASSUME IInv, OnceInv, NEW m \in Msgs, Enqueue(m)
  PROVE  OnceInv'
<1>1. /\ UNCHANGED <<to, saveQ, mailer, saver, copies, redialed>>
      /\ sess[m] = "sending" /\ sess' = [sess EXCEPT ![m] = "waiting"]
      /\ sendQ' = Append(sendQ, m)
  BY DEF Enqueue, workers, store
<1>2. sendQ \in Seq(Msgs) /\ sess \in [Msgs -> {"idle", "sending", "waiting",
        "accepted", "refused", "timedout"}]
  BY DEF IInv, TypeOK
<1>3. /\ Len(sendQ') = Len(sendQ) + 1 /\ Len(sendQ) \in Nat
      /\ sendQ'[Len(sendQ) + 1] = m
      /\ \A p \in 1..Len(sendQ) : sendQ'[p] = sendQ[p]
  BY <1>1, <1>2
<1>4. /\ \A p \in 1..Len(sendQ) : sendQ[p] # m
      /\ \A d \in Mailers : Working(d) => mailer[d].job[1] # m
      /\ \A j \in Jobs : j[1] = m => Fresh(j)
  BY <1>1, UnsubmittedIsNowhere DEF Submitted
<1>5. /\ SavesOnce' /\ InsertsSoFar' /\ InsertedOnce'
      /\ \A j \in Jobs : Fresh(j)' <=> Fresh(j)
      /\ \A d \in Mailers : Working(d)' <=> Working(d)
      /\ \A v \in Savers : Busy(v)' <=> Busy(v)
  BY <1>1, SavesKept DEF OnceInv, Working, Busy
<1>6. \A p \in 1..Len(sendQ') : p \in 1..Len(sendQ) \/ p = Len(sendQ) + 1
  BY <1>3
<1>7. MessagesOnce'
  <2>1. \A p, q \in 1..Len(sendQ') : sendQ'[p] = sendQ'[q] => p = q
    BY <1>3, <1>4, <1>6 DEF OnceInv, MessagesOnce
  <2>2. \A p \in 1..Len(sendQ') :
          /\ \A j \in Jobs : j[1] = sendQ'[p] => Fresh(j)'
          /\ \A d \in Mailers : Working(d)' => mailer'[d].job[1] # sendQ'[p]
    BY <1>1, <1>3, <1>4, <1>5, <1>6 DEF OnceInv, MessagesOnce
  <2>3. /\ \A d, e \in Mailers :
            Working(d)' /\ Working(e)' /\ mailer'[d].job[1] = mailer'[e].job[1] => d = e
        /\ \A d \in Mailers : Working(d)' =>
             \A j \in Jobs :
               j[1] = mailer'[d].job[1] /\ j[2] >= mailer'[d].job[2] => Fresh(j)'
    BY <1>1, <1>5 DEF OnceInv, MessagesOnce
  <2>. QED BY <2>1, <2>2, <2>3 DEF MessagesOnce
<1>8. SinglesAreGone'
  <2>1. ASSUME NEW k \in Msgs, Len(to[k]) = 1, sess'[k] \in {"accepted", "refused"}
        PROVE  k # m /\ sess[k] \in {"accepted", "refused"}
    BY <1>1, <1>2, <2>1
  <2>. QED BY <1>1, <1>3, <1>5, <1>6, <2>1 DEF OnceInv, SinglesAreGone
<1>. QED BY <1>5, <1>7, <1>8 DEF OnceInv

-----------------------------------------------------------------------------
(* The steps of a mailer.                                                    *)

(* A mailer goes on with its message, or leaves it.                          *)
LEMMA MailerGoesOn ==
  ASSUME MessagesOnce, NEW d \in Mailers, Working(d), UNCHANGED sendQ,
         \A e \in Mailers : e # d => mailer'[e] = mailer[e],
         Working(d)' =>
           /\ mailer'[d].job[1] = mailer[d].job[1]
           /\ \A j \in Jobs :
                j[1] = mailer'[d].job[1] /\ j[2] >= mailer'[d].job[2] => Fresh(j)',
         \A j \in Jobs : Fresh(j) /\ j[1] # mailer[d].job[1] => Fresh(j)'
  PROVE  MessagesOnce'
<1>1. \A e \in Mailers : e # d => (Working(e)' <=> Working(e))
  BY DEF Working
<1>2. \A p \in 1..Len(sendQ) : mailer[d].job[1] # sendQ[p]
  BY DEF MessagesOnce
<1>3. /\ \A p, q \in 1..Len(sendQ') : sendQ'[p] = sendQ'[q] => p = q
      /\ \A p \in 1..Len(sendQ') :
           /\ \A j \in Jobs : j[1] = sendQ'[p] => Fresh(j)'
           /\ \A e \in Mailers : Working(e)' => mailer'[e].job[1] # sendQ'[p]
  BY <1>1, <1>2 DEF MessagesOnce
<1>4. \A e \in Mailers : e # d /\ Working(e) => mailer[e].job[1] # mailer[d].job[1]
  BY DEF MessagesOnce
<1>5. \A e, f \in Mailers :
        Working(e)' /\ Working(f)' /\ mailer'[e].job[1] = mailer'[f].job[1] => e = f
  BY <1>1, <1>4 DEF MessagesOnce
<1>6. \A e \in Mailers : Working(e)' =>
        \A j \in Jobs :
          j[1] = mailer'[e].job[1] /\ j[2] >= mailer'[e].job[2] => Fresh(j)'
  BY <1>1, <1>4 DEF MessagesOnce
<1>. QED BY <1>3, <1>5, <1>6 DEF MessagesOnce

(* A mailer takes a message, which is then nowhere else.                     *)
LEMMA MailerTakesOnce ==
  ASSUME IInv, OnceInv, NEW d \in Mailers, MailerTakes(d)
  PROVE  OnceInv'
<1>. DEFINE m == Head(sendQ)
<1>1. /\ UNCHANGED <<to, sess, saveQ, saver, copies, redialed>>
      /\ mailer[d].at = "idle"
      /\ MailerGoes(d, "loop", <<m, 1>>) /\ sendQ' = Tail(sendQ) /\ sendQ # <<>>
  BY DEF MailerTakes, store
<1>2. sendQ \in Seq(Msgs) /\ TypeOK
  BY DEF IInv, TypeOK
<1>3. /\ Len(sendQ) \in Nat \ {0} /\ m = sendQ[1] /\ m \in Msgs
      /\ Len(sendQ') = Len(sendQ) - 1
      /\ \A p \in 1..Len(sendQ') : sendQ'[p] = sendQ[p + 1]
  BY <1>1, <1>2
<1>4. /\ mailer'[d].at = "loop" /\ mailer'[d].job = <<m, 1>>
      /\ \A e \in Mailers : e # d => mailer'[e] = mailer[e]
  <2>1. <<m, 1>> \in Jobs
    BY <1>3, PipelineAssumption DEF Jobs
  <2>. QED BY <1>1, <1>2, <2>1, MailerStep
<1>5. /\ SavesOnce' /\ InsertsSoFar' /\ InsertedOnce'
      /\ \A j \in Jobs : Fresh(j)' <=> Fresh(j)
      /\ \A v \in Savers : Busy(v)' <=> Busy(v)
  BY <1>1, SavesKept DEF OnceInv, Busy
<1>6. \A e \in Mailers : e # d => (Working(e)' <=> Working(e))
  BY <1>4 DEF Working
<1>7. /\ \A j \in Jobs : j[1] = m => Fresh(j)
      /\ \A e \in Mailers : Working(e) => mailer[e].job[1] # m
  BY <1>3 DEF OnceInv, MessagesOnce
<1>8. \A p \in 1..Len(sendQ') : p + 1 \in 1..Len(sendQ) /\ sendQ'[p] # m
  <2>1. \A p \in 1..Len(sendQ') : p + 1 \in 1..Len(sendQ) /\ p + 1 # 1
    BY <1>3
  <2>2. 1 \in 1..Len(sendQ)
    BY <1>3
  <2>. QED BY <1>3, <2>1, <2>2 DEF OnceInv, MessagesOnce
<1>9. MessagesOnce'
  <2>1. \A p, q \in 1..Len(sendQ') : sendQ'[p] = sendQ'[q] => p = q
    <3>1. ASSUME NEW p \in 1..Len(sendQ'), NEW q \in 1..Len(sendQ'), sendQ'[p] = sendQ'[q]
          PROVE  p = q
      <4>1. p + 1 = q + 1
        BY <1>3, <1>8, <3>1 DEF OnceInv, MessagesOnce
      <4>. QED BY <4>1
    <3>. QED BY <3>1
  <2>2. \A p \in 1..Len(sendQ') :
          /\ \A j \in Jobs : j[1] = sendQ'[p] => Fresh(j)'
          /\ \A e \in Mailers : Working(e)' => mailer'[e].job[1] # sendQ'[p]
    BY <1>3, <1>4, <1>5, <1>6, <1>8 DEF OnceInv, MessagesOnce
  <2>3. \A e, f \in Mailers :
          Working(e)' /\ Working(f)' /\ mailer'[e].job[1] = mailer'[f].job[1] => e = f
    BY <1>4, <1>6, <1>7 DEF OnceInv, MessagesOnce
  <2>4. \A e \in Mailers : Working(e)' =>
          \A j \in Jobs :
            j[1] = mailer'[e].job[1] /\ j[2] >= mailer'[e].job[2] => Fresh(j)'
    BY <1>4, <1>5, <1>6, <1>7 DEF OnceInv, MessagesOnce
  <2>. QED BY <2>1, <2>2, <2>3, <2>4 DEF MessagesOnce
<1>10. SinglesAreGone'
  <2>1. ASSUME NEW k \in Msgs, Len(to[k]) = 1, sess[k] \in {"accepted", "refused"}
        PROVE  k # m /\ \A p \in 1..Len(sendQ') : sendQ'[p] # k
    BY <1>3, <1>8, <2>1 DEF OnceInv, SinglesAreGone
  <2>. QED BY <1>1, <1>4, <1>5, <1>6, <2>1 DEF OnceInv, SinglesAreGone
<1>. QED BY <1>5, <1>9, <1>10 DEF OnceInv

(* A mailer's next recipient is a later one.                                 *)
LEMMA NextIsLater ==
  ASSUME IInv, NEW d \in Mailers, Working(d), NextRecipient(d)
  PROVE  /\ \A e \in Mailers : e # d => mailer'[e] = mailer[e]
         /\ Working(d)' =>
              /\ mailer'[d].job[1] = mailer[d].job[1]
              /\ mailer'[d].job[2] = mailer[d].job[2] + 1
              /\ mailer[d].job[2] < Len(to[mailer[d].job[1]])
<1>. DEFINE j == mailer[d].job
<1>1. AtRecipientOf(j) /\ TypeOK
  BY DEF IInv, OnlySubmitted, Working
<1>2. /\ j[1] \in Msgs /\ j[2] \in 1..MaxRcpts /\ Len(to[j[1]]) \in 1..MaxRcpts
  BY <1>1, Lists DEF AtRecipientOf, Jobs
<1>3. CASE j[2] < Len(to[j[1]])
  <2>1. MailerGoes(d, "loop", <<j[1], j[2] + 1>>)
    BY <1>3 DEF NextRecipient
  <2>2. <<j[1], j[2] + 1>> \in Jobs
    BY <1>2, <1>3, PipelineAssumption DEF Jobs
  <2>3. /\ mailer'[d].job = <<j[1], j[2] + 1>>
        /\ \A e \in Mailers : e # d => mailer'[e] = mailer[e]
    BY <1>1, <2>1, <2>2, MailerStep
  <2>. QED BY <1>3, <2>3
<1>4. CASE ~(j[2] < Len(to[j[1]]))
  <2>1. MailerGoes(d, "idle", NoJob)
    BY <1>4 DEF NextRecipient
  <2>2. /\ mailer'[d].at = "idle"
        /\ \A e \in Mailers : e # d => mailer'[e] = mailer[e]
    BY <1>1, <2>1, MailerStep
  <2>. QED BY <2>2 DEF Working
<1>. QED BY <1>3, <1>4

(* A mailer relays, or returns.                                              *)
LEMMA RelayOnce ==
  ASSUME IInv, OnceInv, NEW d \in Mailers, Relay(d) \/ RelayFails(d)
  PROVE  OnceInv'
<1>. DEFINE j == mailer[d].job
<1>1. /\ UNCHANGED <<to, sess, sendQ, saveQ, saver, copies, redialed>>
      /\ mailer[d].at = "loop"
      /\ MailerGoes(d, "notify", j) \/ MailerGoes(d, "dead", NoJob)
  BY DEF Relay, RelayFails, AtRecipient, queues, store
<1>2. j \in Jobs /\ TypeOK /\ Working(d)
  BY <1>1 DEF IInv, OnlySubmitted, AtRecipientOf, Working
<1>3. /\ \A e \in Mailers : e # d => mailer'[e] = mailer[e]
      /\ Working(d)' => mailer'[d].job = j
  <2>1. CASE MailerGoes(d, "notify", j)
    BY <1>2, <2>1, MailerStep
  <2>2. CASE MailerGoes(d, "dead", NoJob)
    BY <1>2, <2>2, MailerStep DEF Working
  <2>. QED BY <1>1, <2>1, <2>2
<1>4. /\ SavesOnce' /\ InsertsSoFar' /\ InsertedOnce'
      /\ \A k \in Jobs : Fresh(k)' <=> Fresh(k)
      /\ \A v \in Savers : Busy(v)' <=> Busy(v)
  BY <1>1, SavesKept DEF OnceInv, Busy
<1>5. MessagesOnce'
  BY <1>1, <1>2, <1>3, <1>4, MailerGoesOn DEF OnceInv, MessagesOnce
<1>6. SinglesAreGone'
  <2>1. \A e \in Mailers : Working(e)' => Working(e) /\ mailer'[e].job[1] = mailer[e].job[1]
    BY <1>2, <1>3 DEF Working
  <2>. QED BY <1>1, <1>4, <2>1 DEF OnceInv, SinglesAreGone
<1>. QED BY <1>4, <1>5, <1>6 DEF OnceInv

(* A mailer reports: if the message has no other recipient it is done with.  *)
LEMMA NotifyRelayedOnce ==
  ASSUME IInv, OnceInv, NEW d \in Mailers, NotifyRelayed(d)
  PROVE  OnceInv'
<1>. DEFINE j == mailer[d].job
            m == j[1]
<1>1. /\ UNCHANGED <<to, sendQ, saveQ, saver, copies, redialed>>
      /\ mailer[d].at = "notify" /\ Receive(m, 1) /\ NextRecipient(d)
  BY DEF NotifyRelayed, queues, store
<1>2. j \in Jobs /\ TypeOK /\ Working(d) /\ m \in Msgs /\ j[2] \in Nat \ {0}
      /\ j[2] <= Len(to[m])
  BY <1>1, PipelineAssumption DEF IInv, OnlySubmitted, AtRecipientOf, Working, Jobs
<1>3. /\ \A e \in Mailers : e # d => mailer'[e] = mailer[e]
      /\ Working(d)' =>
           mailer'[d].job[1] = m /\ mailer'[d].job[2] = j[2] + 1 /\ j[2] < Len(to[m])
  BY <1>1, <1>2, NextIsLater
<1>4. /\ SavesOnce' /\ InsertsSoFar' /\ InsertedOnce'
      /\ \A k \in Jobs : Fresh(k)' <=> Fresh(k)
      /\ \A v \in Savers : Busy(v)' <=> Busy(v)
  BY <1>1, SavesKept DEF OnceInv, Busy
<1>5. MessagesOnce'
  <2>1. \A k \in Jobs : k[2] \in Nat
    BY PipelineAssumption DEF Jobs
  <2>2. Working(d)' => \A k \in Jobs :
          k[1] = mailer'[d].job[1] /\ k[2] >= mailer'[d].job[2] => Fresh(k)'
    <3>1. ASSUME Working(d)', NEW k \in Jobs,
                 k[1] = mailer'[d].job[1], k[2] >= mailer'[d].job[2]
          PROVE  k[1] = m /\ k[2] >= j[2]
      BY <1>2, <1>3, <2>1, <3>1
    <3>. QED BY <1>2, <1>4, <3>1 DEF OnceInv, MessagesOnce
  <2>. QED BY <1>1, <1>2, <1>3, <1>4, <2>2, MailerGoesOn DEF OnceInv
<1>6. SinglesAreGone'
  <2>1. \A e \in Mailers : Working(e)' => Working(e) /\ mailer'[e].job[1] = mailer[e].job[1]
    BY <1>2, <1>3 DEF Working
  <2>2. ASSUME NEW k \in Msgs, k # m
        PROVE  sess'[k] = sess[k]
    BY <1>1, <2>2 DEF Receive, IInv, TypeOK
  <2>3. ASSUME Len(to[m]) = 1
        PROVE  /\ \A p \in 1..Len(sendQ) : sendQ[p] # m
               /\ \A e \in Mailers : Working(e)' => mailer'[e].job[1] # m
               /\ \A p \in 1..Len(saveQ) : saveQ[p][1] # m
               /\ \A v \in Savers : Busy(v) => saver[v].job[1] # m
    <3>1. \A p \in 1..Len(sendQ) : sendQ[p] # m
      BY <1>2 DEF OnceInv, MessagesOnce
    <3>2. \A e \in Mailers : Working(e)' => mailer'[e].job[1] # m
      <4>1. ~Working(d)'
        BY <1>2, <1>3, <2>3
      <4>2. \A e \in Mailers : e # d /\ Working(e) => mailer[e].job[1] # m
        BY <1>2 DEF OnceInv, MessagesOnce
      <4>. QED BY <1>3, <2>1, <4>1, <4>2
    <3>3. j = <<m, 1>> /\ Fresh(j)
      <4>1. j[2] = 1
        BY <1>2, <2>3
      <4>2. Fresh(j)
        BY <1>2 DEF OnceInv, MessagesOnce
      <4>. QED BY <1>2, <4>1, <4>2 DEF Jobs
    <3>4. \A k \in Jobs : k[1] = m /\ k[2] <= Len(to[k[1]]) => k = <<m, 1>>
      BY <2>3, PipelineAssumption DEF Jobs
    <3>5. \A p \in 1..Len(saveQ) : saveQ[p][1] # m
      BY <3>3, <3>4 DEF IInv, OnlySubmitted, AtRecipientOf, Fresh
    <3>6. \A v \in Savers : Busy(v) => saver[v].job[1] # m
      BY <3>3, <3>4 DEF IInv, OnlySubmitted, AtRecipientOf, Fresh, Busy
    <3>. QED BY <3>1, <3>2, <3>5, <3>6
  <2>4. ASSUME NEW k \in Msgs, k # m, Len(to[k]) = 1, sess[k] \in {"accepted", "refused"}
        PROVE  /\ \A p \in 1..Len(sendQ) : sendQ[p] # k
               /\ \A e \in Mailers : Working(e)' => mailer'[e].job[1] # k
               /\ \A p \in 1..Len(saveQ) : saveQ[p][1] # k
               /\ \A v \in Savers : Busy(v) => saver[v].job[1] # k
    BY <2>1, <2>4 DEF OnceInv, SinglesAreGone
  <2>. QED BY <1>1, <1>4, <2>2, <2>3, <2>4 DEF SinglesAreGone
<1>. QED BY <1>4, <1>5, <1>6 DEF OnceInv

(* A mailer queues a save, which is fresh until then.                        *)
LEMMA QueueLocalOnce ==
  ASSUME IInv, OnceInv, NEW d \in Mailers, QueueLocal(d)
  PROVE  OnceInv'
<1>. DEFINE j == mailer[d].job
            m == j[1]
<1>1. /\ UNCHANGED <<to, sess, sendQ, saver, copies, redialed>>
      /\ mailer[d].at = "loop" /\ NextRecipient(d)
      /\ saveQ' = Append(saveQ, j)
  BY DEF QueueLocal, AtRecipient, store
<1>2. j \in Jobs /\ TypeOK /\ Working(d) /\ m \in Msgs /\ j[2] \in Nat
  BY <1>1, PipelineAssumption DEF IInv, OnlySubmitted, AtRecipientOf, Working, Jobs
<1>3. /\ \A e \in Mailers : e # d => mailer'[e] = mailer[e]
      /\ Working(d)' => mailer'[d].job[1] = m /\ mailer'[d].job[2] = j[2] + 1
  BY <1>1, <1>2, NextIsLater
<1>4. /\ Len(saveQ) \in Nat /\ Len(saveQ') = Len(saveQ) + 1
      /\ saveQ'[Len(saveQ) + 1] = j
      /\ \A p \in 1..Len(saveQ) : saveQ'[p] = saveQ[p]
      /\ \A p \in 1..Len(saveQ') : p \in 1..Len(saveQ) \/ p = Len(saveQ) + 1
  <2>1. saveQ \in Seq(Jobs)
    BY <1>2 DEF TypeOK
  <2>. QED BY <1>1, <1>2, <2>1
<1>5. Fresh(j) /\ \A v \in Savers : Busy(v)' <=> Busy(v)
  BY <1>1, <1>2 DEF OnceInv, MessagesOnce, Busy
<1>6. \A k \in Jobs : k # j /\ Fresh(k) => Fresh(k)'
  BY <1>1, <1>4, <1>5 DEF Fresh
<1>7. MessagesOnce'
  <2>1. \A k \in Jobs : k[2] \in Nat
    BY PipelineAssumption DEF Jobs
  <2>2. ASSUME Working(d)', NEW k \in Jobs,
               k[1] = mailer'[d].job[1], k[2] >= mailer'[d].job[2]
        PROVE  Fresh(k)'
    <3>1. k[1] = m /\ k[2] >= j[2] /\ k # j
      BY <1>2, <1>3, <2>1, <2>2
    <3>2. Fresh(k)
      BY <1>2, <3>1 DEF OnceInv, MessagesOnce
    <3>. QED BY <1>6, <3>1, <3>2
  <2>3. \A k \in Jobs : Fresh(k) /\ k[1] # m => Fresh(k)'
    BY <1>6
  <2>. QED BY <1>1, <1>2, <1>3, <2>2, <2>3, MailerGoesOn DEF OnceInv
<1>8. SavesOnce'
  <2>1. \A p, q \in 1..Len(saveQ') : saveQ'[p] = saveQ'[q] => p = q
    BY <1>4, <1>5 DEF OnceInv, SavesOnce, Fresh
  <2>2. \A p \in 1..Len(saveQ') :
          /\ copies'[saveQ'[p]] = 0
          /\ \A v \in Savers : Busy(v)' => saver'[v].job # saveQ'[p]
    BY <1>1, <1>4, <1>5 DEF OnceInv, SavesOnce, Fresh
  <2>3. \A v, w \in Savers :
          Busy(v)' /\ Busy(w)' /\ saver'[v].job = saver'[w].job => v = w
    BY <1>1, <1>5 DEF OnceInv, SavesOnce
  <2>. QED BY <2>1, <2>2, <2>3 DEF SavesOnce
<1>9. InsertsSoFar' /\ InsertedOnce'
  BY <1>1 DEF OnceInv, InsertsSoFar, InsertedOnce
<1>10. SinglesAreGone'
  <2>1. \A e \in Mailers : Working(e)' => Working(e) /\ mailer'[e].job[1] = mailer[e].job[1]
    BY <1>2, <1>3 DEF Working
  <2>2. ASSUME NEW k \in Msgs, Len(to[k]) = 1, sess[k] \in {"accepted", "refused"}
        PROVE  k # m /\ \A p \in 1..Len(saveQ') : saveQ'[p][1] # k
    BY <1>2, <1>4, <2>2 DEF OnceInv, SinglesAreGone
  <2>. QED BY <1>1, <1>5, <2>1, <2>2 DEF OnceInv, SinglesAreGone
<1>. QED BY <1>7, <1>8, <1>9, <1>10 DEF OnceInv

-----------------------------------------------------------------------------
(* The steps of a saver.                                                     *)

(* A saver takes a save, which is then nowhere else.                         *)
LEMMA SaverTakesOnce ==
  ASSUME IInv, OnceInv, NEW v \in Savers, SaverTakes(v)
  PROVE  OnceInv'
<1>. DEFINE j == Head(saveQ)
<1>1. /\ UNCHANGED <<to, sess, sendQ, mailer, copies, redialed>>
      /\ saver[v].at = "idle"
      /\ SaverGoes(v, "store", j, 0) /\ saveQ' = Tail(saveQ) /\ saveQ # <<>>
  BY DEF SaverTakes, store
<1>2. saveQ \in Seq(Jobs) /\ TypeOK
  BY DEF IInv, TypeOK
<1>3. /\ Len(saveQ) \in Nat \ {0} /\ j = saveQ[1] /\ j \in Jobs
      /\ Len(saveQ') = Len(saveQ) - 1
      /\ \A p \in 1..Len(saveQ') : saveQ'[p] = saveQ[p + 1]
  BY <1>1, <1>2
<1>4. /\ saver'[v].at = "store" /\ saver'[v].job = j
      /\ \A w \in Savers : w # v => saver'[w] = saver[w]
  BY <1>1, <1>2, <1>3, SaverStep
<1>5. /\ Busy(v)'
      /\ \A w \in Savers : w # v => (Busy(w)' <=> Busy(w))
      /\ \A d \in Mailers : Working(d)' <=> Working(d)
  BY <1>1, <1>4 DEF Busy, Working
<1>6. /\ copies[j] = 0
      /\ \A w \in Savers : Busy(w) => saver[w].job # j
  BY <1>3 DEF OnceInv, SavesOnce
<1>7. \A p \in 1..Len(saveQ') : p + 1 \in 1..Len(saveQ) /\ saveQ'[p] # j
  <2>1. \A p \in 1..Len(saveQ') : p + 1 \in 1..Len(saveQ) /\ p + 1 # 1
    BY <1>3
  <2>2. 1 \in 1..Len(saveQ)
    BY <1>3
  <2>. QED BY <1>3, <2>1, <2>2 DEF OnceInv, SavesOnce
<1>8. MessagesOnce'
  <2>1. ASSUME NEW k \in Jobs, Fresh(k)
        PROVE  Fresh(k)'
    <3>1. k # j
      BY <1>3, <2>1 DEF Fresh
    <3>. QED BY <1>1, <1>3, <1>4, <1>5, <1>7, <2>1, <3>1 DEF Fresh
  <2>. QED BY <1>1, <2>1, MessagesKept DEF OnceInv
<1>9. SavesOnce'
  <2>1. ASSUME NEW p \in 1..Len(saveQ'), NEW q \in 1..Len(saveQ'),
               saveQ'[p] = saveQ'[q]
        PROVE  p = q
    <3>1. p + 1 = q + 1
      BY <1>3, <1>7, <2>1 DEF OnceInv, SavesOnce
    <3>. QED BY <3>1
  <2>2. \A p \in 1..Len(saveQ') :
          /\ copies'[saveQ'[p]] = 0
          /\ \A w \in Savers : Busy(w)' => saver'[w].job # saveQ'[p]
    BY <1>1, <1>3, <1>4, <1>5, <1>7 DEF OnceInv, SavesOnce
  <2>3. \A w, x \in Savers :
          Busy(w)' /\ Busy(x)' /\ saver'[w].job = saver'[x].job => w = x
    BY <1>4, <1>5, <1>6 DEF OnceInv, SavesOnce
  <2>. QED BY <2>1, <2>2, <2>3 DEF SavesOnce
<1>10. InsertsSoFar' /\ InsertedOnce'
  BY <1>1, <1>4, <1>6 DEF OnceInv, InsertsSoFar, InsertedOnce
<1>11. SinglesAreGone'
  <2>1. ASSUME NEW k \in Msgs, Len(to[k]) = 1, sess[k] \in {"accepted", "refused"}
        PROVE  /\ j[1] # k
               /\ \A p \in 1..Len(saveQ') : saveQ'[p][1] # k
               /\ \A w \in Savers : Busy(w)' => saver'[w].job[1] # k
    <3>1. 1 \in 1..Len(saveQ)
      BY <1>3
    <3>2. j[1] # k
      <4>1. saveQ[1][1] # k
        BY <2>1, <3>1 DEF OnceInv, SinglesAreGone
      <4>. QED BY <1>3, <4>1
    <3>3. \A p \in 1..Len(saveQ) : saveQ[p][1] # k
      BY <2>1 DEF OnceInv, SinglesAreGone
    <3>4. \A w \in Savers : Busy(w) => saver[w].job[1] # k
      BY <2>1 DEF OnceInv, SinglesAreGone
    <3>5. \A p \in 1..Len(saveQ') : saveQ'[p][1] # k
      BY <1>3, <1>7, <3>3
    <3>6. \A w \in Savers : Busy(w)' => saver'[w].job[1] # k
      BY <1>4, <1>5, <3>2, <3>4
    <3>. QED BY <3>2, <3>5, <3>6
  <2>. QED BY <1>1, <1>5, <2>1 DEF OnceInv, SinglesAreGone
<1>. QED BY <1>8, <1>9, <1>10, <1>11 DEF OnceInv

(* A saver goes on with its save, having inserted it again or not.           *)
LEMMA SaverGoesOnOnce ==
  ASSUME IInv, OnceInv, NEW v \in Savers, Busy(v), Busy(v)',
         UNCHANGED <<to, sess, sendQ, saveQ, mailer>>,
         saver'[v].job = saver[v].job,
         \A w \in Savers : w # v => saver'[w] = saver[w],
         \A k \in Jobs : k # saver[v].job => copies'[k] = copies[k],
         redialed \subseteq redialed',
         saver'[v].at # "store",
         saver'[v].at \in {"redial", "again"} => copies'[saver[v].job] <= 1,
         saver'[v].at = "again" => saver[v].job \in redialed',
         copies'[saver[v].job] <= (IF saver[v].job \in redialed' THEN 2 ELSE 1)
  PROVE  OnceInv'
<1>. DEFINE j == saver[v].job
<1>1. /\ \A w \in Savers : Busy(w)' <=> Busy(w)
      /\ \A w \in Savers : saver'[w].job = saver[w].job
      /\ \A d \in Mailers : Working(d)' <=> Working(d)
  BY DEF Busy, Working
<1>2. MessagesOnce'
  <2>1. ASSUME NEW k \in Jobs, Fresh(k)
        PROVE  Fresh(k)'
    BY <1>1, <2>1 DEF Fresh
  <2>. QED BY <2>1, MessagesKept DEF OnceInv
<1>3. SavesOnce'
  <2>1. \A p \in 1..Len(saveQ) : saveQ[p] \in Jobs /\ saveQ[p] # j
    BY DEF OnceInv, SavesOnce, IInv, TypeOK
  <2>. QED BY <1>1, <2>1 DEF OnceInv, SavesOnce
<1>4. InsertsSoFar'
  <2>1. ASSUME NEW w \in Savers, w # v, Busy(w)
        PROVE  copies'[saver[w].job] = copies[saver[w].job]
    <3>1. saver[w].job # j
      BY <2>1 DEF OnceInv, SavesOnce
    <3>2. saver[w].job \in Jobs
      BY <2>1 DEF IInv, OnlySubmitted, AtRecipientOf, Busy
    <3>. QED BY <3>1, <3>2
  <2>2. ASSUME NEW w \in Savers, w # v
        PROVE  /\ saver'[w].at = "store" => copies'[saver'[w].job] = 0
               /\ saver'[w].at \in {"redial", "again"} => copies'[saver'[w].job] <= 1
               /\ saver'[w].at = "again" => saver'[w].job \in redialed'
    BY <2>1, <2>2 DEF OnceInv, InsertsSoFar, Busy
  <2>3. /\ saver'[v].at = "store" => copies'[saver'[v].job] = 0
        /\ saver'[v].at \in {"redial", "again"} => copies'[saver'[v].job] <= 1
        /\ saver'[v].at = "again" => saver'[v].job \in redialed'
    OBVIOUS
  <2>. QED BY <2>2, <2>3 DEF InsertsSoFar
<1>5. InsertedOnce'
  <2>1. ASSUME NEW k \in Jobs
        PROVE  copies'[k] <= (IF k \in redialed' THEN 2 ELSE 1)
    <3>1. CASE k = j
      BY <3>1
    <3>2. CASE k # j
      <4>1. copies[k] <= (IF k \in redialed THEN 2 ELSE 1) /\ copies[k] \in Nat
        BY DEF OnceInv, InsertedOnce, IInv, TypeOK
      <4>. QED BY <3>2, <4>1
    <3>. QED BY <3>1, <3>2
  <2>. QED BY <2>1 DEF InsertedOnce
<1>6. SinglesAreGone'
  BY <1>1 DEF OnceInv, SinglesAreGone
<1>. QED BY <1>2, <1>3, <1>4, <1>5, <1>6 DEF OnceInv

(* Store is called, for the first time or once more.                         *)
LEMMA StoreOnce ==
  ASSUME IInv, OnceInv, NEW v \in Savers,
         StoreSucceeds(v) \/ StoreRefused(v) \/ StoreEOF(v)
  PROVE  OnceInv'
<1>. DEFINE j == saver[v].job
<1>1. /\ UNCHANGED <<to, sess, sendQ, saveQ, mailer, redialed>>
      /\ saver[v].at \in {"store", "again"}
      /\ UNCHANGED copies \/ Insert(v)
      /\ \/ Report(v, 1) \/ Report(v, -1)
         \/ saver[v].at = "store" /\ SaverGoes(v, "redial", j, 0)
  BY DEF StoreSucceeds, StoreRefused, StoreEOF, queues, store
<1>2. j \in Jobs /\ TypeOK /\ Busy(v)
  BY <1>1 DEF IInv, OnlySubmitted, AtRecipientOf, Busy
<1>3. /\ saver'[v].job = j /\ saver'[v].at \in {"notify", "redial"}
      /\ saver'[v].at = "redial" => saver[v].at = "store"
      /\ \A w \in Savers : w # v => saver'[w] = saver[w]
  <2>1. ASSUME NEW x \in {1, -1}, Report(v, x)
        PROVE  /\ saver'[v].job = j /\ saver'[v].at = "notify"
               /\ \A w \in Savers : w # v => saver'[w] = saver[w]
    BY <1>2, <2>1, SaverStep DEF Report
  <2>2. CASE saver[v].at = "store" /\ SaverGoes(v, "redial", j, 0)
    BY <1>2, <2>2, SaverStep
  <2>. QED BY <1>1, <2>1, <2>2
<1>4. /\ \A k \in Jobs : k # j => copies'[k] = copies[k]
      /\ copies[j] \in Nat /\ copies'[j] <= copies[j] + 1
  BY <1>1, <1>2 DEF Insert, TypeOK
<1>5. /\ saver[v].at = "store" => copies[j] = 0
      /\ saver[v].at = "again" => copies[j] <= 1 /\ j \in redialed
  BY DEF OnceInv, InsertsSoFar
<1>6. /\ saver'[v].at = "redial" => copies'[j] <= 1
      /\ copies'[j] <= (IF j \in redialed' THEN 2 ELSE 1)
  <2>1. copies'[j] \in Nat
    BY <1>1, <1>2 DEF Insert, TypeOK
  <2>2. CASE saver[v].at = "store"
    BY <1>1, <1>4, <1>5, <2>1, <2>2
  <2>3. CASE saver[v].at = "again"
    BY <1>1, <1>3, <1>4, <1>5, <2>1, <2>3
  <2>. QED BY <1>1, <2>2, <2>3
<1>7. Busy(v)' /\ saver'[v].at # "store" /\ saver'[v].at # "again"
  BY <1>3 DEF Busy
<1>. QED BY <1>1, <1>2, <1>3, <1>4, <1>6, <1>7, SaverGoesOnOnce

(* A saver has reconnected.                                                  *)
LEMMA RedialOnce ==
  ASSUME IInv, OnceInv, NEW v \in Savers, Redial(v)
  PROVE  OnceInv'
<1>. DEFINE j == saver[v].job
<1>1. /\ UNCHANGED <<to, sess, sendQ, saveQ, mailer, copies>>
      /\ saver[v].at = "redial" /\ SaverGoes(v, "again", j, 0)
      /\ redialed' = redialed \cup {j}
  BY DEF Redial, queues
<1>2. j \in Jobs /\ TypeOK /\ Busy(v)
  BY <1>1 DEF IInv, OnlySubmitted, AtRecipientOf, Busy
<1>3. /\ saver'[v].job = j /\ saver'[v].at = "again"
      /\ \A w \in Savers : w # v => saver'[w] = saver[w]
  BY <1>1, <1>2, SaverStep
<1>4. copies'[j] <= 1
  BY <1>1 DEF OnceInv, InsertsSoFar
<1>5. copies'[j] <= (IF j \in redialed' THEN 2 ELSE 1)
  <2>1. copies'[j] \in Nat
    BY <1>1, <1>2 DEF TypeOK
  <2>. QED BY <1>4, <2>1
<1>6. Busy(v)' /\ saver'[v].at # "store"
  BY <1>3 DEF Busy
<1>. QED BY <1>1, <1>2, <1>3, <1>4, <1>5, <1>6, SaverGoesOnOnce

(* A saver reports: if the message has no other recipient it is done with.   *)
LEMMA NotifySavedOnce ==
  ASSUME IInv, OnceInv, NEW v \in Savers, NotifySaved(v)
  PROVE  OnceInv'
<1>. DEFINE j == saver[v].job
            m == j[1]
<1>1. /\ UNCHANGED <<to, sendQ, saveQ, mailer, copies, redialed>>
      /\ saver[v].at = "notify" /\ Receive(m, saver[v].status)
      /\ SaverGoes(v, "idle", NoJob, 0)
  BY DEF NotifySaved, queues, store
<1>2. j \in Jobs /\ TypeOK /\ Busy(v) /\ m \in Msgs /\ AtRecipientOf(j)
  BY <1>1 DEF IInv, OnlySubmitted, AtRecipientOf, Busy, Jobs
<1>3. /\ saver'[v].at = "idle" /\ ~Busy(v)'
      /\ \A w \in Savers : w # v => saver'[w] = saver[w]
  BY <1>1, <1>2, SaverStep DEF Busy
<1>4. /\ \A w \in Savers : Busy(w)' => w # v /\ Busy(w) /\ saver'[w].job = saver[w].job
      /\ \A d \in Mailers : Working(d)' <=> Working(d)
  BY <1>1, <1>3 DEF Busy, Working
<1>5. MessagesOnce'
  <2>1. \A k \in Jobs : Fresh(k) => Fresh(k)'
    BY <1>1, <1>4 DEF Fresh
  <2>. QED BY <1>1, <2>1, MessagesKept DEF OnceInv
<1>6. SavesOnce'
  BY <1>1, <1>4 DEF OnceInv, SavesOnce
<1>7. InsertsSoFar' /\ InsertedOnce'
  <2>1. \A w \in Savers : saver'[w].at \in {"store", "redial", "again"} =>
          saver'[w] = saver[w]
    BY <1>3
  <2>. QED BY <1>1, <2>1 DEF OnceInv, InsertsSoFar, InsertedOnce
<1>8. SinglesAreGone'
  <2>1. ASSUME NEW k \in Msgs, k # m
        PROVE  sess'[k] = sess[k]
    BY <1>1, <2>1 DEF Receive, IInv, TypeOK
  <2>2. ASSUME NEW k \in Msgs, k # m, Len(to[k]) = 1, sess[k] \in {"accepted", "refused"}
        PROVE  /\ \A p \in 1..Len(sendQ) : sendQ[p] # k
               /\ \A d \in Mailers : Working(d) => mailer[d].job[1] # k
               /\ \A p \in 1..Len(saveQ) : saveQ[p][1] # k
               /\ \A w \in Savers : Busy(w)' => saver'[w].job[1] # k
    BY <1>4, <2>2 DEF OnceInv, SinglesAreGone
  <2>3. ASSUME Len(to[m]) = 1
        PROVE  /\ \A p \in 1..Len(sendQ) : sendQ[p] # m
               /\ \A d \in Mailers : Working(d) => mailer[d].job[1] # m
               /\ \A p \in 1..Len(saveQ) : saveQ[p][1] # m
               /\ \A w \in Savers : Busy(w)' => saver'[w].job[1] # m
    <3>1. \A k \in Jobs : k[1] = m /\ k[2] <= Len(to[k[1]]) => k = j
      <4>1. \A k \in Jobs : k[1] = m /\ k[2] <= Len(to[k[1]]) => k = <<m, 1>>
        BY <2>3, PipelineAssumption DEF Jobs
      <4>. QED BY <1>2, <4>1 DEF AtRecipientOf
    <3>2. ~Fresh(j) /\ \A p \in 1..Len(saveQ) : saveQ[p] # j
      BY <1>2 DEF Fresh, OnceInv, SavesOnce
    <3>3. \A p \in 1..Len(saveQ) : saveQ[p][1] # m
      BY <3>1, <3>2 DEF IInv, OnlySubmitted, AtRecipientOf
    <3>4. \A p \in 1..Len(sendQ) : sendQ[p] # m
      BY <1>2, <3>2 DEF OnceInv, MessagesOnce
    <3>5. ASSUME NEW d \in Mailers, Working(d), mailer[d].job[1] = m
          PROVE  FALSE
      <4>1. mailer[d].job = j
        BY <3>1, <3>5 DEF IInv, OnlySubmitted, AtRecipientOf, Working
      <4>2. j[2] >= j[2]
        BY <1>2, PipelineAssumption DEF Jobs
      <4>. QED BY <1>2, <3>2, <3>5, <4>1, <4>2 DEF OnceInv, MessagesOnce
    <3>6. \A w \in Savers : Busy(w)' => saver'[w].job[1] # m
      <4>1. \A w \in Savers : Busy(w) /\ w # v => saver[w].job # j
        BY <1>2 DEF OnceInv, SavesOnce
      <4>2. \A w \in Savers : Busy(w) /\ w # v => saver[w].job[1] # m
        BY <3>1, <4>1 DEF IInv, OnlySubmitted, AtRecipientOf, Busy
      <4>. QED BY <1>4, <4>2
    <3>. QED BY <3>3, <3>4, <3>5, <3>6
  <2>. QED BY <1>1, <1>4, <2>1, <2>2, <2>3 DEF SinglesAreGone
<1>. QED BY <1>5, <1>6, <1>7, <1>8 DEF OnceInv

-----------------------------------------------------------------------------
(* Every step of the pipeline.                                               *)
LEMMA NextOnce == IInv /\ OnceInv /\ [Next]_vars => OnceInv'
<1>. SUFFICES ASSUME IInv, OnceInv, [Next]_vars
              PROVE  OnceInv'
  OBVIOUS
<1>1. ASSUME NEW m \in Msgs, SessionStep(m)
      PROVE  OnceInv'
  <2>1. CASE Submit(m)
    BY <2>1, SessionOnce DEF Submit
  <2>2. CASE TimeOut(m)
    BY <2>2, SessionOnce DEF TimeOut
  <2>3. CASE Enqueue(m)
    BY <2>3, EnqueueOnce
  <2>. QED BY <1>1, <2>1, <2>2, <2>3 DEF SessionStep
<1>2. ASSUME NEW d \in Mailers, SendMail(d)
      PROVE  OnceInv'
  BY <1>2, MailerTakesOnce, QueueLocalOnce, RelayOnce, NotifyRelayedOnce
     DEF SendMail
<1>3. ASSUME NEW v \in Savers, SaveMail(v)
      PROVE  OnceInv'
  <2>1. CASE RedialFails(v)
    <3>1. UNCHANGED <<to, sess, sendQ, saveQ, mailer, saver, copies, redialed>>
      BY <2>1 DEF RedialFails, queues, workers, store
    <3>. QED BY <3>1, NothingOnce
  <2>. QED BY <1>3, <2>1, SaverTakesOnce, StoreOnce, RedialOnce, NotifySavedOnce
           DEF SaveMail
<1>4. CASE UNCHANGED vars
  <2>1. UNCHANGED <<to, sess, sendQ, saveQ, mailer, saver, copies, redialed>>
    BY <1>4 DEF vars
  <2>. QED BY <2>1, NothingOnce
<1>. QED BY <1>1, <1>2, <1>3, <1>4 DEF Next

(* In every reachable state each message and each save is in one place.      *)
THEOREM OnceInductive == Spec => [](IInv /\ OnceInv)
<1>1. Init => IInv /\ OnceInv
  BY InitIInv, InitOnce
<1>2. (IInv /\ OnceInv) /\ [Next]_vars => (IInv /\ OnceInv)'
  BY NextIInv, NextOnce
<1>. QED BY <1>1, <1>2, PTL DEF Spec

(* A queued save is inserted once, or twice if a saver reconnected for it,   *)
(* with any number of savers and any failures (storage.go:92-102).           *)
THEOREM InsertedOnceCorrect == Spec => []InsertedOnce
<1>1. OnceInv => InsertedOnce
  BY DEF OnceInv
<1>. QED BY OnceInductive, <1>1, PTL

(* A worker is left blocked on Notify only by a message that has timed out   *)
(* or has several recipients (client.go:429-441, mailer.go:76).              *)
THEOREM StuckCorrect == Spec => []WorkersStuckOnlyBy
<1>1. IInv /\ OnceInv => WorkersStuckOnlyBy
  <2>. SUFFICES ASSUME IInv, OnceInv, NEW m \in Msgs,
                       Len(to[m]) = 1, sess[m] # "timedout"
                PROVE  /\ \A d \in Mailers :
                            mailer[d].job[1] = m => ~Stuck(m, mailer[d].at)
                       /\ \A v \in Savers :
                            saver[v].job[1] = m => ~Stuck(m, saver[v].at)
    <3>1. TypeOK => \A k \in Msgs : Len(to[k]) \in 1..MaxRcpts
      BY Lists
    <3>2. IInv => \A k \in Msgs : Len(to[k]) = 1 \/ Len(to[k]) > 1
      <4>1. \A n \in 1..MaxRcpts : n = 1 \/ n > 1
        BY PipelineAssumption
      <4>. QED BY <3>1, <4>1 DEF IInv
    <3>. QED BY <3>2 DEF WorkersStuckOnlyBy
  <2>1. sess[m] \in {"idle", "sending", "waiting", "accepted", "refused"}
    BY DEF IInv, TypeOK
  <2>2. ASSUME NEW d \in Mailers, mailer[d].job[1] = m, mailer[d].at = "notify"
        PROVE  sess[m] = "waiting"
    <3>1. Working(d) /\ Submitted(m)
      BY <2>2 DEF Working, IInv, OnlySubmitted, AtRecipientOf
    <3>. QED BY <2>1, <2>2, <3>1 DEF OnceInv, SinglesAreGone, Submitted
  <2>3. ASSUME NEW v \in Savers, saver[v].job[1] = m, saver[v].at = "notify"
        PROVE  sess[m] = "waiting"
    <3>1. Busy(v) /\ Submitted(m)
      BY <2>3 DEF Busy, IInv, OnlySubmitted, AtRecipientOf
    <3>. QED BY <2>1, <2>3, <3>1 DEF OnceInv, SinglesAreGone, Submitted
  <2>. QED BY <2>2, <2>3 DEF Stuck
<1>. QED BY OnceInductive, <1>1, PTL
=============================================================================
