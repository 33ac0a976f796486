------------------------- MODULE SmtpSession_proofs -------------------------
(***************************************************************************)
(* Theorems about SmtpSession, for every value of its constants: its type  *)
(* invariant, its safety invariants, and that it implements the abstract   *)
(* MailTransaction.                                                        *)
(***************************************************************************)
EXTENDS SmtpSession, TLAPS

(* The rest of the inductive invariant: what the program points know about   *)
(* the other variables.                                                      *)
Places ==
  /\ pc = "greet" => ~killed /\ errors = 0 /\ from = NoName /\ helo = NoName
  /\ pc = "command" => errors <= 3 /\ (killed => helo = NoName)
  /\ pc \notin {"closing", "closed"} => errors <= 3
  /\ pc \in {"greet", "command"} => msg.len = 0
  /\ pc = "reading" => ~killed /\ msg.len <= maxMessageBytes
  /\ pc = "gotmsg" => msg.len \in 1..maxMessageBytes
  /\ pc \notin {"submitting", "awaiting"} => mc = NoMessage
  /\ conn = "closed" => pc \in {"command", "closing", "closed"}

IInv ==
  /\ TypeOK
  /\ EnvelopeInOrder
  /\ DataStateIsBody
  /\ HandedMessageInLimits
  /\ EnvelopeSaidOverThisLink
  /\ Places

-----------------------------------------------------------------------------
(* The replies the handlers write are sequences of codes.                    *)
LEMMA Replies ==
  /\ <<>> \in Seq(Code)
  /\ \A c \in Code : <<c>> \in Seq(Code)
  /\ \A c, d \in Code : <<c, d>> \in Seq(Code)
  OBVIOUS

(* The codes that are used.                                                  *)
LEMMA Codes ==
  {220, 221, 235, 250, 252, 334, 354, 500, 501, 502, 504, 550, 552, 554}
    \subseteq Code
  BY DEF Code

(* The empty text is a text of no bytes.                                     *)
LEMMA NoTextIsText == NoText \in Text /\ NoText.len = 0
  BY DEF NoText, Text

(* The initial states satisfy the inductive invariant.                       *)
LEMMA InitIInv == Init => IInv
<1> SUFFICES ASSUME Init
             PROVE  IInv
  OBVIOUS
<1>1. TypeOK
  <2>1. pc \in Place /\ state \in State
    BY DEF Init, Place, State
  <2>2. recipients \in Seq(Recipient) /\ out \in Seq(Code)
    BY Replies DEF Init
  <2>3. msg \in Text /\ mc \in SMTPMessage \cup {NoMessage}
    BY NoTextIsText DEF Init
  <2>4. /\ helo \in Names \cup {NoName} /\ from \in Senders \cup {NoName}
        /\ tls_on \in BOOLEAN /\ killed \in BOOLEAN
        /\ conn \in {"open", "eof", "reset", "closed"}
        /\ errors \in Nat /\ released \in Nat
        /\ TLSConfigured \in BOOLEAN /\ storeMessages \in BOOLEAN
    BY DEF Init
  <2>. QED BY <2>1, <2>2, <2>3, <2>4 DEF TypeOK
<1>2. EnvelopeInOrder
  BY SessionAssumption DEF Init, EnvelopeInOrder
<1>3. DataStateIsBody /\ HandedMessageInLimits /\ EnvelopeSaidOverThisLink
  BY DEF Init, DataStateIsBody, HandedMessageInLimits, EnvelopeSaidOverThisLink
<1>4. Places
  BY NoTextIsText DEF Init, Places
<1>. QED BY <1>1, <1>2, <1>3, <1>4 DEF IInv

(* A handler that only replies keeps the inductive invariant.                *)
LEMMA ReplyOnlyKeeps ==
  ASSUME IInv, NEW codes \in Seq(Code), ReplyOnly(codes)
  PROVE  IInv'
<1>. USE DEF ReplyOnly, LineRead, NextTurn, envelope, session, transfer, link, server
<1>1. TypeOK'
  BY DEF IInv, TypeOK, Place, DataStateIsBody
<1>2. EnvelopeInOrder' /\ HandedMessageInLimits' /\ EnvelopeSaidOverThisLink'
  BY DEF IInv, EnvelopeInOrder, HandedMessageInLimits, EnvelopeSaidOverThisLink,
         DataStateIsBody
<1>3. DataStateIsBody' /\ Places'
  BY DEF IInv, TypeOK, DataStateIsBody, Places
<1>. QED BY <1>1, <1>2, <1>3 DEF IInv

(* reset leaves the four fields it assigns in their types.                   *)
LEMMA ResetTypes ==
  ASSUME reset
  PROVE  /\ state' \in State
         /\ helo' \in Names \cup {NoName}
         /\ from' \in Senders \cup {NoName}
         /\ recipients' \in Seq(Recipient)
  BY DEF reset, State

(* So does leaving the reading loop, and the text stays a text.              *)
LEMMA LeaveLoopTypes ==
  ASSUME TypeOK, leaveLoop
  PROVE  /\ state' \in State
         /\ helo' \in Names \cup {NoName}
         /\ from' \in Senders \cup {NoName}
         /\ recipients' \in Seq(Recipient)
         /\ msg' \in Text
         /\ pc' \in {"gotmsg", "command"}
<1>1. CASE /\ msg.len > 0
           /\ pc' = "gotmsg"
           /\ UNCHANGED <<state, envelope, msg>>
  BY <1>1 DEF TypeOK, envelope
<1>2. CASE reset /\ msg' = NoText /\ pc' = "command"
  BY <1>2, ResetTypes, NoTextIsText
<1>. QED BY <1>1, <1>2 DEF leaveLoop

(* The greeting keeps the inductive invariant.                               *)
LEMMA GreetKeeps ==
  ASSUME IInv, greet
  PROVE  IInv'
<1>. USE DEF greet, envelope, session, transfer, link, server
<1>1. TypeOK'
  BY Replies, Codes DEF IInv, TypeOK, Place, State
<1>2. EnvelopeInOrder' /\ HandedMessageInLimits' /\ EnvelopeSaidOverThisLink'
  BY SessionAssumption
  DEF IInv, TypeOK, EnvelopeInOrder, HandedMessageInLimits,
      EnvelopeSaidOverThisLink, DataStateIsBody, Places
<1>3. DataStateIsBody' /\ Places'
  BY SessionAssumption
  DEF IInv, TypeOK, DataStateIsBody, Places, EnvelopeInOrder
<1>. QED BY <1>1, <1>2, <1>3 DEF IInv

(* RSET keeps the inductive invariant.                                       *)
LEMMA RsetKeeps ==
  ASSUME IInv, rset
  PROVE  IInv'
<1>. USE DEF rset, LineRead, NextTurn, reset, envelope, session, transfer, link, server
<1>1. TypeOK'
  BY Replies, Codes DEF IInv, TypeOK, Place, State
<1>2. EnvelopeInOrder' /\ HandedMessageInLimits' /\ EnvelopeSaidOverThisLink'
  BY SessionAssumption
  DEF IInv, TypeOK, EnvelopeInOrder, HandedMessageInLimits,
      EnvelopeSaidOverThisLink, DataStateIsBody, Places
<1>3. DataStateIsBody' /\ Places'
  BY SessionAssumption
  DEF IInv, TypeOK, DataStateIsBody, Places, EnvelopeInOrder
<1>. QED BY <1>1, <1>2, <1>3 DEF IInv

(* QUIT keeps the inductive invariant.                                       *)
LEMMA QuitKeeps ==
  ASSUME IInv, quit
  PROVE  IInv'
<1>. USE DEF quit, LineRead, NextTurn, envelope, session, transfer, link, server
<1>1. TypeOK'
  BY Replies, Codes DEF IInv, TypeOK, Place, State
<1>2. EnvelopeInOrder' /\ HandedMessageInLimits' /\ EnvelopeSaidOverThisLink'
  BY SessionAssumption
  DEF IInv, TypeOK, EnvelopeInOrder, HandedMessageInLimits,
      EnvelopeSaidOverThisLink, DataStateIsBody, Places
<1>3. DataStateIsBody' /\ Places'
  BY SessionAssumption
  DEF IInv, TypeOK, DataStateIsBody, Places, EnvelopeInOrder
<1>. QED BY <1>1, <1>2, <1>3 DEF IInv

(* An unrecognized command keeps the inductive invariant.                    *)
LEMMA UnrecognizedKeeps ==
  ASSUME IInv, unrecognized
  PROVE  IInv'
<1>. USE DEF unrecognized, LineRead, NextTurn, envelope, session, transfer, link, server
<1>1. TypeOK'
  BY Replies, Codes DEF IInv, TypeOK, Place, State
<1>2. EnvelopeInOrder' /\ HandedMessageInLimits' /\ EnvelopeSaidOverThisLink'
  BY SessionAssumption
  DEF IInv, TypeOK, EnvelopeInOrder, HandedMessageInLimits,
      EnvelopeSaidOverThisLink, DataStateIsBody, Places
<1>3. DataStateIsBody' /\ Places'
  BY SessionAssumption
  DEF IInv, TypeOK, DataStateIsBody, Places, EnvelopeInOrder
<1>. QED BY <1>1, <1>2, <1>3 DEF IInv

(* A failing readLine keeps the inductive invariant.                         *)
LEMMA ReadLineFailsKeeps ==
  ASSUME IInv, readLineFails
  PROVE  IInv'
<1>. USE DEF readLineFails, envelope, session, transfer, link, server
<1>1. TypeOK'
  BY Replies, Codes DEF IInv, TypeOK, Place, State
<1>2. EnvelopeInOrder' /\ HandedMessageInLimits' /\ EnvelopeSaidOverThisLink'
  BY SessionAssumption
  DEF IInv, TypeOK, EnvelopeInOrder, HandedMessageInLimits,
      EnvelopeSaidOverThisLink, DataStateIsBody, Places
<1>3. DataStateIsBody' /\ Places'
  BY SessionAssumption
  DEF IInv, TypeOK, DataStateIsBody, Places, EnvelopeInOrder
<1>. QED BY <1>1, <1>2, <1>3 DEF IInv

(* Reading a piece of the body keeps the inductive invariant.                *)
LEMMA ReadBodyKeeps ==
  ASSUME IInv, readBody
  PROVE  IInv'
<1>1. TypeOK'
  <2>1. PICK n \in ReadSizes, dot \in BOOLEAN :
          IF msg.len + n > maxMessageBytes
          THEN /\ out' = <<552>>
               /\ reset
               /\ msg' = NoText
               /\ pc' = "command"
          ELSE /\ out' = <<>>
               /\ msg' = [len |-> msg.len + n, dot |-> dot]
               /\ pc' = IF dot THEN "gotmsg" ELSE "reading"
               /\ UNCHANGED <<state, envelope>>
    BY DEF readBody
  <2>2. UNCHANGED <<tls_on, errors, killed, mc, conn, released, server>>
    BY DEF readBody, session, link, server
  <2>3. msg.len \in Nat /\ n \in Nat
    BY SessionAssumption DEF IInv, TypeOK, Text
  <2>4. [len |-> msg.len + n, dot |-> dot] \in Text
    BY <2>3 DEF Text
  <2>5. CASE msg.len + n > maxMessageBytes
    <3>1. <<552>> \in Seq(Code)
      BY Replies, Codes
    <3>. QED
      BY <2>1, <2>2, <2>5, <3>1, ResetTypes, NoTextIsText
      DEF IInv, TypeOK, Place, server
  <2>6. CASE ~(msg.len + n > maxMessageBytes)
    BY <2>1, <2>2, <2>4, <2>6, Replies DEF IInv, TypeOK, Place, envelope, server
  <2>. QED BY <2>5, <2>6
<1>. USE DEF readBody, reset, envelope, session, transfer, link, server
<1>2. EnvelopeInOrder' /\ HandedMessageInLimits' /\ EnvelopeSaidOverThisLink'
  BY SessionAssumption
  DEF IInv, TypeOK, EnvelopeInOrder, HandedMessageInLimits,
      EnvelopeSaidOverThisLink, DataStateIsBody, Places
<1>3. DataStateIsBody' /\ Places'
  BY SessionAssumption, NoTextIsText
  DEF IInv, TypeOK, DataStateIsBody, Places, EnvelopeInOrder, Text
<1>. QED BY <1>1, <1>2, <1>3 DEF IInv

(* The end of the body without bytes keeps the inductive invariant.          *)
LEMMA BodyStopsKeeps ==
  ASSUME IInv, bodyStops
  PROVE  IInv'
<1>1. TypeOK'
  <2>1. TypeOK /\ leaveLoop
    BY DEF IInv, bodyStops
  <2>. QED BY <2>1, LeaveLoopTypes, Replies
       DEF bodyStops, TypeOK, Place, session, link, server
<1>. USE DEF bodyStops, reset, leaveLoop, envelope, session, transfer, link, server
<1>2. EnvelopeInOrder' /\ HandedMessageInLimits' /\ EnvelopeSaidOverThisLink'
  BY SessionAssumption
  DEF IInv, TypeOK, EnvelopeInOrder, HandedMessageInLimits,
      EnvelopeSaidOverThisLink, DataStateIsBody, Places
<1>3. DataStateIsBody' /\ Places'
  BY SessionAssumption, NoTextIsText
  DEF IInv, TypeOK, DataStateIsBody, Places, EnvelopeInOrder, Text
<1>. QED BY <1>1, <1>2, <1>3 DEF IInv

(* The end of the body with bytes keeps the inductive invariant.             *)
LEMMA BodyStopsWithBytesKeeps ==
  ASSUME IInv, bodyStopsWithBytes
  PROVE  IInv'
<1>1. TypeOK'
  <2>1. TypeOK /\ leaveLoop
    BY DEF IInv, bodyStopsWithBytes
  <2>. QED BY <2>1, LeaveLoopTypes, Replies
       DEF bodyStopsWithBytes, TypeOK, Place, session, link, server
<1>. USE DEF bodyStopsWithBytes, reset, leaveLoop, envelope, session, transfer, link, server
<1>2. EnvelopeInOrder'
  BY SessionAssumption DEF IInv, EnvelopeInOrder
<1>4. HandedMessageInLimits'
  BY DEF IInv, HandedMessageInLimits
<1>5. EnvelopeSaidOverThisLink'
  <2>1. UNCHANGED <<tls_on, mc>> /\ (recipients' = recipients \/ recipients' = <<>>)
    OBVIOUS
  <2>2. EnvelopeSaidOverThisLink
    BY DEF IInv
  <2>3. CASE recipients' = recipients
    BY <2>1, <2>2, <2>3 DEF EnvelopeSaidOverThisLink
  <2>4. CASE recipients' = <<>>
    <3>1. DOMAIN recipients' = {}
      BY <2>4
    <3>. QED BY <2>1, <2>2, <3>1 DEF EnvelopeSaidOverThisLink
  <2>. QED BY <2>1, <2>3, <2>4
<1>3. DataStateIsBody' /\ Places'
  BY SessionAssumption, NoTextIsText
  DEF IInv, TypeOK, DataStateIsBody, Places, EnvelopeInOrder, Text
<1>. QED BY <1>1, <1>2, <1>3, <1>4, <1>5 DEF IInv

(* The spam rule keeps the inductive invariant.                              *)
LEMMA DropSpamKeeps ==
  ASSUME IInv, dropSpam
  PROVE  IInv'
<1>. USE DEF dropSpam, envelope, session, transfer, link, server
<1>1. TypeOK'
  BY Replies, Codes, NoTextIsText DEF IInv, TypeOK, Place, State
<1>2. EnvelopeInOrder' /\ HandedMessageInLimits' /\ EnvelopeSaidOverThisLink'
  BY SessionAssumption
  DEF IInv, TypeOK, EnvelopeInOrder, HandedMessageInLimits,
      EnvelopeSaidOverThisLink, DataStateIsBody, Places
<1>3. DataStateIsBody' /\ Places'
  BY SessionAssumption, NoTextIsText
  DEF IInv, TypeOK, DataStateIsBody, Places, EnvelopeInOrder
<1>. QED BY <1>1, <1>2, <1>3 DEF IInv

(* Building the message for the mailer keeps the inductive invariant.        *)
LEMMA HandKeeps ==
  ASSUME IInv, hand
  PROVE  IInv'
<1>. USE DEF hand, envelope, session, transfer, link, server
<1>1. TypeOK'
  BY Replies DEF IInv, TypeOK, Place, State, SMTPMessage, EnvelopeInOrder, DataStateIsBody
<1>2. EnvelopeInOrder' /\ HandedMessageInLimits' /\ EnvelopeSaidOverThisLink'
  BY SessionAssumption
  DEF IInv, TypeOK, EnvelopeInOrder, HandedMessageInLimits,
      EnvelopeSaidOverThisLink, DataStateIsBody, Places
<1>3. DataStateIsBody' /\ Places'
  BY SessionAssumption
  DEF IInv, TypeOK, DataStateIsBody, Places, EnvelopeInOrder
<1>. QED BY <1>1, <1>2, <1>3 DEF IInv

(* Queueing the message keeps the inductive invariant.                       *)
LEMMA SubmitKeeps ==
  ASSUME IInv, submit
  PROVE  IInv'
<1>. USE DEF submit, envelope, session, transfer, link, server
<1>1. TypeOK'
  BY Replies DEF IInv, TypeOK, Place, State
<1>2. EnvelopeInOrder' /\ HandedMessageInLimits' /\ EnvelopeSaidOverThisLink'
  BY SessionAssumption
  DEF IInv, TypeOK, EnvelopeInOrder, HandedMessageInLimits,
      EnvelopeSaidOverThisLink, DataStateIsBody, Places
<1>3. DataStateIsBody' /\ Places'
  BY SessionAssumption
  DEF IInv, TypeOK, DataStateIsBody, Places, EnvelopeInOrder
<1>. QED BY <1>1, <1>2, <1>3 DEF IInv

(* The verdict on the message keeps the inductive invariant.                 *)
LEMMA NotifiedKeeps ==
  ASSUME IInv, notified
  PROVE  IInv'
<1>1. TypeOK'
  <2>1. PICK code \in {250, 554} :
          /\ reset
          /\ out' = <<code>>
          /\ msg' = NoText /\ mc' = NoMessage /\ pc' = "command"
          /\ UNCHANGED <<tls_on, errors, killed, conn, released, server>>
    BY DEF notified, conclude, session, link, server
  <2>2. <<code>> \in Seq(Code)
    BY Replies, Codes
  <2>. QED BY <2>1, <2>2, ResetTypes, NoTextIsText
       DEF IInv, TypeOK, Place, server
<1>. USE DEF notified, conclude, reset, envelope, session, transfer, link, server
<1>2. EnvelopeInOrder' /\ HandedMessageInLimits' /\ EnvelopeSaidOverThisLink'
  BY SessionAssumption
  DEF IInv, TypeOK, EnvelopeInOrder, HandedMessageInLimits,
      EnvelopeSaidOverThisLink, DataStateIsBody, Places
<1>3. DataStateIsBody' /\ Places'
  BY SessionAssumption, NoTextIsText
  DEF IInv, TypeOK, DataStateIsBody, Places, EnvelopeInOrder
<1>. QED BY <1>1, <1>2, <1>3 DEF IInv

(* Discarding the message keeps the inductive invariant.                     *)
LEMMA DiscardKeeps ==
  ASSUME IInv, discard
  PROVE  IInv'
<1>1. TypeOK'
  <2>1. PICK code \in {250, 554} :
          /\ reset
          /\ out' = <<code>>
          /\ msg' = NoText /\ mc' = NoMessage /\ pc' = "command"
          /\ UNCHANGED <<tls_on, errors, killed, conn, released, server>>
    BY DEF discard, conclude, session, link, server
  <2>2. <<code>> \in Seq(Code)
    BY Replies, Codes
  <2>. QED BY <2>1, <2>2, ResetTypes, NoTextIsText
       DEF IInv, TypeOK, Place, server
<1>. USE DEF discard, conclude, reset, envelope, session, transfer, link, server
<1>2. EnvelopeInOrder' /\ HandedMessageInLimits' /\ EnvelopeSaidOverThisLink'
  BY SessionAssumption
  DEF IInv, TypeOK, EnvelopeInOrder, HandedMessageInLimits,
      EnvelopeSaidOverThisLink, DataStateIsBody, Places
<1>3. DataStateIsBody' /\ Places'
  BY SessionAssumption, NoTextIsText
  DEF IInv, TypeOK, DataStateIsBody, Places, EnvelopeInOrder
<1>. QED BY <1>1, <1>2, <1>3 DEF IInv

(* closeClient keeps the inductive invariant.                                *)
LEMMA CloseClientKeeps ==
  ASSUME IInv, closeClient
  PROVE  IInv'
<1>. USE DEF closeClient, envelope, session, transfer, link, server
<1>1. TypeOK'
  BY Replies DEF IInv, TypeOK, Place, State
<1>2. EnvelopeInOrder' /\ HandedMessageInLimits' /\ EnvelopeSaidOverThisLink'
  BY SessionAssumption
  DEF IInv, TypeOK, EnvelopeInOrder, HandedMessageInLimits,
      EnvelopeSaidOverThisLink, DataStateIsBody, Places
<1>3. DataStateIsBody' /\ Places'
  BY SessionAssumption
  DEF IInv, TypeOK, DataStateIsBody, Places, EnvelopeInOrder
<1>. QED BY <1>1, <1>2, <1>3 DEF IInv

(* The end of the connection keeps the inductive invariant.                  *)
LEMMA PeerEndsKeeps ==
  ASSUME IInv, peerEnds
  PROVE  IInv'
<1>. USE DEF peerEnds, envelope, session, transfer, link, server
<1>1. TypeOK'
  BY DEF IInv, TypeOK, Place, State
<1>2. EnvelopeInOrder' /\ HandedMessageInLimits' /\ EnvelopeSaidOverThisLink'
  BY SessionAssumption
  DEF IInv, TypeOK, EnvelopeInOrder, HandedMessageInLimits,
      EnvelopeSaidOverThisLink, DataStateIsBody, Places
<1>3. DataStateIsBody' /\ Places'
  BY SessionAssumption
  DEF IInv, TypeOK, DataStateIsBody, Places, EnvelopeInOrder
<1>. QED BY <1>1, <1>2, <1>3 DEF IInv

(* Every tuple of codes a handler replies with is a sequence of codes.       *)
LEMMA ReplyWithCode ==
  ASSUME IInv, NEW code \in Code, ReplyOnly(<<code>>)
  PROVE  IInv'
  BY Replies, ReplyOnlyKeeps

(* HELO and EHLO keep the inductive invariant.                               *)
LEMMA GreetHandlerKeeps ==
  ASSUME IInv, greetHandler
  PROVE  IInv'
<1>1. CASE ReplyOnly(<<501>>)
  BY <1>1, ReplyWithCode, Codes
<1>2. CASE /\ LineRead
           /\ \E domain \in Names : helo' = domain
           /\ state' = "READY"
           /\ out' = <<250>>
           /\ UNCHANGED <<from, recipients, session, transfer, link>>
           /\ NextTurn
  <2>. USE <1>2 DEF LineRead, NextTurn, session, transfer, link, server
  <2>1. TypeOK'
    BY Replies, Codes DEF IInv, TypeOK, Place, State
  <2>2. /\ EnvelopeInOrder' /\ HandedMessageInLimits'
        /\ EnvelopeSaidOverThisLink'
    BY SessionAssumption
    DEF IInv, TypeOK, EnvelopeInOrder, HandedMessageInLimits,
        EnvelopeSaidOverThisLink, DataStateIsBody, Places
  <2>3. DataStateIsBody' /\ Places'
    BY DEF IInv, TypeOK, DataStateIsBody, Places
  <2>. QED BY <2>1, <2>2, <2>3 DEF IInv
<1>. QED BY <1>1, <1>2 DEF greetHandler

(* MAIL keeps the inductive invariant.                                       *)
LEMMA MailHandlerKeeps ==
  ASSUME IInv, mailHandler
  PROVE  IInv'
<1>1. CASE \E code \in {501, 502, 552} : ReplyOnly(<<code>>)
  BY <1>1, ReplyWithCode, Codes
<1>2. CASE /\ LineRead
           /\ helo # NoName
           /\ from' \in Senders
           /\ state' = "MAIL"
           /\ out' = <<250>>
           /\ UNCHANGED <<helo, recipients, session, transfer, link>>
           /\ NextTurn
  <2>. USE <1>2 DEF LineRead, NextTurn, session, transfer, link, server
  <2>1. TypeOK'
    BY Replies, Codes DEF IInv, TypeOK, Place, State
  <2>2. /\ EnvelopeInOrder' /\ HandedMessageInLimits'
        /\ EnvelopeSaidOverThisLink'
    BY SessionAssumption
    DEF IInv, TypeOK, EnvelopeInOrder, HandedMessageInLimits,
        EnvelopeSaidOverThisLink, DataStateIsBody, Places
  <2>3. DataStateIsBody' /\ Places'
    BY DEF IInv, TypeOK, DataStateIsBody, Places
  <2>. QED BY <2>1, <2>2, <2>3 DEF IInv
<1>. QED BY <1>1, <1>2 DEF mailHandler

(* RCPT keeps the inductive invariant: the limit is checked before the list  *)
(* grows.                                                                    *)
LEMMA RcptHandlerKeeps ==
  ASSUME IInv, rcptHandler
  PROVE  IInv'
<1>1. CASE ReplyOnly(<<502>>) \/ ReplyOnly(<<501>>) \/ ReplyOnly(<<552>>)
  BY <1>1, ReplyWithCode, Codes
<1>2. CASE /\ LineRead
           /\ from # NoName
           /\ Len(recipients) < maxRecips
           /\ \E recip \in Rcpts :
                recipients' = Append(recipients,
                                     [rcpt |-> recip, secure |-> tls_on])
           /\ out' = <<250>>
           /\ UNCHANGED <<state, helo, from, session, transfer, link>>
           /\ NextTurn
  <2>1. PICK recip \in Rcpts :
          recipients' = Append(recipients, [rcpt |-> recip, secure |-> tls_on])
    BY <1>2
  <2>. DEFINE entry == [rcpt |-> recip, secure |-> tls_on]
  <2>2. recipients' = Append(recipients, entry) /\ entry.secure = tls_on
    BY <2>1
  <2>3. entry \in Recipient
    BY <1>2 DEF IInv, TypeOK, Recipient
  <2>4. recipients \in Seq(Recipient)
    BY DEF IInv, TypeOK
  <2>. HIDE DEF entry
  <2>5. /\ recipients' \in Seq(Recipient)
        /\ Len(recipients') = Len(recipients) + 1
        /\ recipients' # <<>>
        /\ \A i \in DOMAIN recipients' :
             \/ i \in DOMAIN recipients /\ recipients'[i] = recipients[i]
             \/ recipients'[i] = entry
    BY <2>2, <2>3, <2>4
  <2>6. TypeOK'
    BY <1>2, <2>5, Replies, Codes
    DEF IInv, TypeOK, Place, State, LineRead, NextTurn, session, transfer, link, server
  <2>7. EnvelopeInOrder'
    <3>1. Len(recipients') <= maxRecips
      BY <1>2, <2>4, <2>5, SessionAssumption
    <3>. QED BY <1>2, <2>5, <3>1 DEF IInv, EnvelopeInOrder
  <2>8. EnvelopeSaidOverThisLink'
    BY <1>2, <2>2, <2>5
    DEF IInv, EnvelopeSaidOverThisLink, Places, LineRead, session, transfer
  <2>9. HandedMessageInLimits' /\ DataStateIsBody' /\ Places'
    BY <1>2 DEF IInv, TypeOK, HandedMessageInLimits, DataStateIsBody, Places,
                LineRead, NextTurn, session, transfer, link, server
  <2>. QED BY <2>6, <2>7, <2>8, <2>9 DEF IInv
<1>. QED BY <1>1, <1>2 DEF rcptHandler

(* AUTH keeps the inductive invariant.                                       *)
LEMMA AuthHandlerKeeps ==
  ASSUME IInv, authHandler
  PROVE  IInv'
<1>1. \E code \in {502, 235, 334, 504} : ReplyOnly(<<code>>)
  BY DEF authHandler
<1>. QED BY <1>1, ReplyWithCode, Codes

(* STARTTLS keeps the inductive invariant: a successful handshake empties    *)
(* the envelope in the same step that changes the connection.                *)
LEMMA TlsHandlerKeeps ==
  ASSUME IInv, tlsHandler
  PROVE  IInv'
<1>1. CASE ReplyOnly(<<502>>)
  BY <1>1, ReplyWithCode, Codes
<1>2. CASE /\ LineRead
           /\ ~tls_on
           /\ tls_on' = TRUE
           /\ reset
           /\ out' = <<220>>
           /\ UNCHANGED <<errors, killed, transfer, link>>
           /\ NextTurn
  <2>1. TypeOK'
    BY <1>2, ResetTypes, Replies, Codes
    DEF IInv, TypeOK, Place, LineRead, NextTurn, transfer, link, server
  <2>2. recipients' = <<>> /\ from' = NoName /\ mc' = mc /\ mc = NoMessage
    BY <1>2 DEF reset, transfer, IInv, Places, LineRead
  <2>3. EnvelopeInOrder'
    BY <1>2, <2>2, SessionAssumption
    DEF IInv, EnvelopeInOrder, LineRead, NextTurn, reset
  <2>4. EnvelopeSaidOverThisLink' /\ HandedMessageInLimits'
    BY <2>2 DEF EnvelopeSaidOverThisLink, HandedMessageInLimits
  <2>5. DataStateIsBody' /\ Places'
    BY <1>2, <2>2
    DEF IInv, TypeOK, DataStateIsBody, Places, LineRead, NextTurn, reset,
        transfer, link, server
  <2>. QED BY <2>1, <2>3, <2>4, <2>5 DEF IInv
<1>3. CASE /\ LineRead
           /\ out' = <<220, 550>>
           /\ state' = "GREET"
           /\ UNCHANGED <<envelope, tls_on, errors, killed, transfer, link>>
           /\ NextTurn
  <2>1. TypeOK'
    BY <1>3, Replies, Codes
    DEF IInv, TypeOK, Place, State, LineRead, NextTurn, envelope, transfer, link, server
  <2>2. EnvelopeInOrder' /\ HandedMessageInLimits' /\ EnvelopeSaidOverThisLink'
    BY <1>3
    DEF IInv, TypeOK, EnvelopeInOrder, HandedMessageInLimits,
        EnvelopeSaidOverThisLink, LineRead, NextTurn, envelope, transfer
  <2>3. DataStateIsBody' /\ Places'
    BY <1>3
    DEF IInv, TypeOK, DataStateIsBody, Places, LineRead, NextTurn, envelope,
        transfer, link, server
  <2>. QED BY <2>1, <2>2, <2>3 DEF IInv
<1>. QED BY <1>1, <1>2, <1>3 DEF tlsHandler

(* DATA keeps the inductive invariant: the body is awaited only when there   *)
(* are recipients, and never by a session that has been killed.              *)
LEMMA DataHandlerKeeps ==
  ASSUME IInv, dataHandler
  PROVE  IInv'
<1>1. CASE \E code \in {501, 502} : ReplyOnly(<<code>>)
  BY <1>1, ReplyWithCode, Codes
<1>2. CASE /\ LineRead
           /\ recipients # <<>>
           /\ out' = <<354>>
           /\ state' = "DATA"
           /\ UNCHANGED <<envelope, session, transfer, link>>
           /\ NextTurn
  <2>1. ~killed /\ errors <= 3 /\ pc' = "reading"
    BY <1>2 DEF IInv, TypeOK, Places, EnvelopeInOrder, LineRead, NextTurn, session
  <2>. USE <1>2, <2>1 DEF LineRead, envelope, session, transfer, link, server
  <2>2. TypeOK'
    BY Replies, Codes DEF IInv, TypeOK, Place, State
  <2>3. /\ EnvelopeInOrder' /\ HandedMessageInLimits'
        /\ EnvelopeSaidOverThisLink'
    BY DEF IInv, EnvelopeInOrder, HandedMessageInLimits,
           EnvelopeSaidOverThisLink
  <2>4. DataStateIsBody'
    BY DEF DataStateIsBody
  <2>5. Places'
    BY SessionAssumption DEF IInv, TypeOK, Places
  <2>. QED BY <2>2, <2>3, <2>4, <2>5 DEF IInv
<1>. QED BY <1>1, <1>2 DEF dataHandler

-----------------------------------------------------------------------------
(* Every step keeps the inductive invariant.                                 *)
LEMMA NextIInv == IInv /\ [Next]_vars => IInv'
<1>. SUFFICES ASSUME IInv, [Next]_vars
              PROVE  IInv'
  OBVIOUS
<1>1. CASE greet \/ readLineFails \/ closeClient \/ peerEnds
  BY <1>1, GreetKeeps, ReadLineFailsKeeps, CloseClientKeeps, PeerEndsKeeps
<1>2. CASE handle
  <2>1. CASE greetHandler \/ mailHandler \/ rcptHandler \/ authHandler
    BY <2>1, GreetHandlerKeeps, MailHandlerKeeps, RcptHandlerKeeps,
       AuthHandlerKeeps
  <2>2. CASE tlsHandler \/ dataHandler \/ rset \/ quit \/ unrecognized
    BY <2>2, TlsHandlerKeeps, DataHandlerKeeps, RsetKeeps, QuitKeeps,
       UnrecognizedKeeps
  <2>3. CASE otherKnown
    BY <2>3, ReplyWithCode, Codes DEF otherKnown
  <2>4. CASE mangled
    BY <2>4, ReplyOnlyKeeps, Replies DEF mangled
  <2>. QED BY <1>2, <2>1, <2>2, <2>3, <2>4 DEF handle
<1>3. CASE processData
  BY <1>3, ReadBodyKeeps, BodyStopsKeeps, BodyStopsWithBytesKeeps,
     DropSpamKeeps, HandKeeps, SubmitKeeps, NotifiedKeeps, DiscardKeeps
  DEF processData
<1>4. CASE UNCHANGED vars
  BY <1>4
  DEF vars, server, IInv, TypeOK, EnvelopeInOrder, DataStateIsBody,
      HandedMessageInLimits, EnvelopeSaidOverThisLink, Places
<1>. QED BY <1>1, <1>2, <1>3, <1>4 DEF Next

(* The inductive invariant holds of every reachable state.                   *)
THEOREM Inductive == Spec => []IInv
<1>. QED BY InitIInv, NextIInv, PTL DEF Spec

(* Every variable of a session keeps its type.                               *)
THEOREM TypeCorrect == Spec => []TypeOK
<1>1. IInv => TypeOK
  BY DEF IInv
<1>. QED BY <1>1, Inductive, PTL

(* Recipients need a sender, a sender a HELO, a body recipients, and their   *)
(* number stays within maxRecips, in every session of any length             *)
(* (client.go:150-354).                                                      *)
THEOREM EnvelopeCorrect == Spec => []EnvelopeInOrder
<1>1. IInv => EnvelopeInOrder
  BY DEF IInv
<1>. QED BY <1>1, Inductive, PTL

(* The loop reads a body exactly while state is DATA (server.go:195).        *)
THEOREM BodyNeverParsedAsCommands == Spec => []DataStateIsBody
<1>1. IInv => DataStateIsBody
  BY DEF IInv
<1>. QED BY <1>1, Inductive, PTL

(* A message handed to the mailer is within the limits, whatever they are    *)
(* (client.go:383-424).                                                      *)
THEOREM HandedMessageCorrect == Spec => []HandedMessageInLimits
<1>1. IInv => HandedMessageInLimits
  BY DEF IInv
<1>. QED BY <1>1, Inductive, PTL

(* No recipient named before STARTTLS is ever used after it                  *)
(* (client.go:318).                                                          *)
THEOREM NothingSurvivesSTARTTLS == Spec => []EnvelopeSaidOverThisLink
<1>1. IInv => EnvelopeSaidOverThisLink
  BY DEF IInv
<1>. QED BY <1>1, Inductive, PTL

(* Whatever way processData is left, the envelope is gone                    *)
(* (client.go:386, 408, 448).                                                *)
THEOREM BodyEndClearsEnvelope == Spec => BodyEndsTransaction
<1>1. IInv /\ [Next]_vars =>
        [pc # "command" /\ pc' = "command" =>
           from' = NoName /\ helo' = NoName /\ recipients' = <<>>]_vars
  <2>. SUFFICES ASSUME IInv, Next, pc # "command", pc' = "command"
                PROVE  from' = NoName /\ helo' = NoName /\ recipients' = <<>>
    OBVIOUS
  <2>1. CASE greet
    BY <2>1 DEF greet, envelope, IInv, Places, EnvelopeInOrder
  <2>2. CASE handle
    BY <2>2
    DEF handle, greetHandler, mailHandler, rcptHandler, authHandler,
        tlsHandler, dataHandler, rset, quit, otherKnown, unrecognized,
        mangled, ReplyOnly, LineRead
  <2>3. CASE processData
    BY <2>3
    DEF processData, readBody, bodyStops, bodyStopsWithBytes, dropSpam, hand,
        submit, notified, discard, conclude, leaveLoop, reset
  <2>4. CASE readLineFails \/ closeClient \/ peerEnds
    BY <2>4 DEF readLineFails, closeClient, peerEnds
  <2>. QED BY <2>1, <2>2, <2>3, <2>4 DEF Next
<1>. QED BY <1>1, Inductive, PTL DEF Spec, BodyEndsTransaction

(* After the spam rule has closed the connection the loop only winds up      *)
(* (client.go:409, server.go:198).                                           *)
THEOREM ClosedSessionIsQuiet == Spec => ClosedMeansQuiet
<1>. DEFINE Quiet == /\ pc' \in {"closing", "closed"}
                     /\ UNCHANGED <<envelope, tls_on, errors, msg, mc>>
<1>1. IInv /\ [Next]_vars => [conn = "closed" => Quiet]_vars
  <2>. SUFFICES ASSUME IInv, Next, conn = "closed"
                PROVE  Quiet
    OBVIOUS
  <2>1. pc \in {"command", "closing", "closed"}
    BY DEF IInv, Places
  <2>2. CASE handle
    BY <2>2
    DEF handle, greetHandler, mailHandler, rcptHandler, authHandler,
        tlsHandler, dataHandler, rset, quit, otherKnown, unrecognized,
        mangled, ReplyOnly, LineRead
  <2>3. CASE processData \/ greet \/ peerEnds
    BY <2>1, <2>3
    DEF processData, readBody, bodyStops, bodyStopsWithBytes, dropSpam, hand,
        submit, notified, discard, greet, peerEnds
  <2>4. CASE readLineFails \/ closeClient
    BY <2>4 DEF readLineFails, closeClient, session, transfer
  <2>. QED BY <2>2, <2>3, <2>4 DEF Next
<1>. QED BY <1>1, Inductive, PTL DEF Spec, ClosedMeansQuiet

-----------------------------------------------------------------------------
(* The refinement.                                                           *)

(* Steps that leave the transaction alone.                                   *)
LEMMA SamePhase ==
  ASSUME UNCHANGED <<from, recipients>>,
         \/ pc' = pc
         \/ /\ pc \in {"greet", "command", "closing"}
            /\ pc' \in {"greet", "command", "closing"}
  PROVE  UNCHANGED <<phase, Len(recipients)>>
  BY DEF phase

(* A handler that only replies.                                              *)
LEMMA ReplyOnlyStutters ==
  ASSUME IInv, NEW codes, ReplyOnly(codes)
  PROVE  UNCHANGED <<phase, Len(recipients)>>
<1>1. UNCHANGED <<from, recipients>> /\ pc = "command"
  BY DEF ReplyOnly, envelope, LineRead
<1>2. pc' \in {"command", "closing"}
  BY DEF ReplyOnly, LineRead, NextTurn, IInv, DataStateIsBody
<1>. QED BY <1>1, <1>2, SamePhase

(* A step that empties the envelope and goes back to reading commands, or    *)
(* winds up, finishes the transaction.                                       *)
LEMMA EmptiedFinishes ==
  ASSUME pc # "closed", from' = NoName, recipients' = <<>>,
         pc' \in {"command", "closing"}
  PROVE  Transaction!Finish
  BY DEF phase, Transaction!Finish

(* Every step of a session is a step of its transaction or leaves it alone.  *)
LEMMA StepImplements ==
  IInv /\ [Next]_vars => [Transaction!Next]_<<phase, Len(recipients)>>
<1>. SUFFICES ASSUME IInv, [Next]_vars
              PROVE  \/ Transaction!Next
                     \/ UNCHANGED <<phase, Len(recipients)>>
  OBVIOUS
<1>. USE DEF Transaction!Next
<1>1. CASE greet
  BY <1>1, SamePhase DEF greet, envelope
<1>2. CASE handle
  <2>1. CASE \E codes : ReplyOnly(codes)
    BY <2>1, ReplyOnlyStutters
  <2>2. CASE greetHandler
    <3>1. CASE LineRead /\ state' = "READY" /\ NextTurn
               /\ UNCHANGED <<from, recipients>>
      BY <3>1, SamePhase DEF LineRead, NextTurn
    <3>. QED BY <2>1, <2>2, <3>1 DEF greetHandler
  <2>3. CASE mailHandler
    <3>1. CASE LineRead /\ from' \in Senders /\ state' = "MAIL" /\ NextTurn
               /\ UNCHANGED recipients
      <4>1. pc = "command" /\ pc' \in {"command", "closing"}
        BY <3>1 DEF LineRead, NextTurn
      <4>2. from' # NoName
        BY <3>1, SessionAssumption
      <4>3. CASE from = NoName
        <5>1. recipients = <<>>
          BY <4>3 DEF IInv, EnvelopeInOrder
        <5>. QED BY <3>1, <4>1, <4>2, <4>3, <5>1
             DEF phase, Transaction!Open
      <4>4. CASE from # NoName
        BY <3>1, <4>1, <4>2, <4>4 DEF phase
      <4>. QED BY <4>3, <4>4
    <3>. QED BY <2>1, <2>3, <3>1 DEF mailHandler
  <2>4. CASE rcptHandler
    <3>1. CASE /\ LineRead /\ NextTurn /\ UNCHANGED <<state, from>>
               /\ from # NoName
               /\ Len(recipients) < maxRecips
               /\ \E recip \in Rcpts :
                    recipients' = Append(recipients,
                                         [rcpt |-> recip, secure |-> tls_on])
      <4>1. pc = "command" /\ pc' \in {"command", "closing"}
        BY <3>1 DEF LineRead, NextTurn, IInv, DataStateIsBody
      <4>2. Len(recipients') = Len(recipients) + 1 /\ recipients' # <<>>
        BY <3>1 DEF IInv, TypeOK
      <4>. QED BY <3>1, <4>1, <4>2 DEF phase, Transaction!Address
    <3>. QED BY <2>1, <2>4, <3>1 DEF rcptHandler
  <2>5. CASE tlsHandler
    <3>1. CASE LineRead /\ reset /\ NextTurn
      BY <3>1, EmptiedFinishes DEF LineRead, reset, NextTurn
    <3>2. CASE LineRead /\ state' = "GREET" /\ NextTurn /\ UNCHANGED envelope
      BY <3>2, SamePhase DEF LineRead, NextTurn, envelope
    <3>. QED BY <2>1, <2>5, <3>1, <3>2 DEF tlsHandler
  <2>6. CASE dataHandler
    <3>1. CASE /\ LineRead /\ recipients # <<>> /\ state' = "DATA" /\ NextTurn
               /\ UNCHANGED <<envelope, session>>
      <4>1. pc' = "reading"
        BY <3>1 DEF IInv, TypeOK, Places, EnvelopeInOrder, LineRead, NextTurn, session
      <4>. QED BY <3>1, <4>1
           DEF LineRead, envelope, phase, Transaction!Receive
    <3>. QED BY <2>1, <2>6, <3>1 DEF dataHandler
  <2>7. CASE rset
    BY <2>7, EmptiedFinishes DEF rset, LineRead, reset, NextTurn
  <2>8. CASE quit \/ unrecognized
    BY <2>8, SamePhase
    DEF quit, unrecognized, LineRead, NextTurn, envelope, IInv, DataStateIsBody
  <2>9. CASE authHandler \/ otherKnown \/ mangled
    BY <2>1, <2>9 DEF authHandler, otherKnown, mangled
  <2>. QED BY <1>2, <2>2, <2>3, <2>4, <2>5, <2>6, <2>7, <2>8, <2>9 DEF handle
<1>3. CASE processData
  <2>1. CASE readBody
    <3>1. CASE reset /\ pc' = "command"
      BY <2>1, <3>1, EmptiedFinishes DEF readBody, reset
    <3>2. CASE UNCHANGED envelope /\ pc' \in {"gotmsg", "reading"}
      BY <2>1, <3>2 DEF readBody, envelope, phase
    <3>. QED BY <2>1, <3>1, <3>2 DEF readBody
  <2>2. CASE pc = "reading" /\ leaveLoop
    BY <2>2, EmptiedFinishes DEF leaveLoop, reset, envelope, phase
  <2>3. CASE bodyStops \/ bodyStopsWithBytes
    BY <2>2, <2>3 DEF bodyStops, bodyStopsWithBytes
  <2>4. CASE dropSpam \/ notified \/ discard
    BY <2>4, EmptiedFinishes DEF dropSpam, notified, discard, conclude, reset
  <2>5. CASE hand
    BY <2>5 DEF hand, envelope, phase, Transaction!HandOn
  <2>6. CASE submit
    BY <2>6 DEF submit, envelope, phase
  <2>. QED BY <1>3, <2>1, <2>3, <2>4, <2>5, <2>6 DEF processData
<1>4. CASE readLineFails
  BY <1>4, SamePhase DEF readLineFails, envelope
<1>5. CASE closeClient
  BY <1>5 DEF closeClient, envelope, phase, Transaction!End
<1>6. CASE peerEnds \/ UNCHANGED vars
  BY <1>6, SamePhase DEF peerEnds, envelope, vars
<1>. QED BY <1>1, <1>2, <1>3, <1>4, <1>5, <1>6 DEF Next

(* Every session, whatever its limits, is a mail transaction as              *)
(* MailTransaction specifies it.                                             *)
THEOREM Refinement == Spec => ImplementsTransaction
<1>1. Init => Transaction!Init
  BY DEF Init, Transaction!Init, phase
<1>. QED BY <1>1, Inductive, StepImplements, PTL
     DEF Spec, ImplementsTransaction, Transaction!Spec, Transaction!tvars
=============================================================================
