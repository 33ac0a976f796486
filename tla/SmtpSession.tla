----------------------------- MODULE SmtpSession -----------------------------
(***************************************************************************)
(* One SMTP connection of smtpd: the command loop of Server.handleClient   *)
(* (smtpd/server.go) and the handlers of Client (smtpd/client.go).         *)
(*                                                                         *)
(* The client's next line is chosen by the action that is taken: a handler *)
(* is modelled by one action per way it can end.  What a line or an        *)
(* address spells is abstracted to what the handlers tell apart: its verb, *)
(* whether its argument parses, a declared SIZE, a sender, a recipient.    *)
(* The message body is abstracted to its length and to whether the         *)
(* terminator <CR><LF>.<CR><LF> has been read.  The mailer that is handed  *)
(* the message is the environment here; module MailPipeline models it.     *)
(***************************************************************************)
EXTENDS Integers, Sequences

CONSTANTS
  Names,            (* arguments of HELO and EHLO                            *)
  Senders,          (* well-formed arguments of MAIL FROM                    *)
  Rcpts,            (* well-formed arguments of RCPT TO                      *)
  NoName,           (* the empty string in c.helo and c.from                 *)
  NoMessage,        (* no message is being handed to the mailer              *)
  maxRecips,        (* Server.maxRecips                                      *)
  maxMessageBytes,  (* Server.maxMessageBytes                                *)
  DeclaredSizes,    (* values of MAIL's SIZE parameter, 0 when absent        *)
  ReadSizes         (* numbers of bytes one Read of the body may return      *)

ASSUME SessionAssumption ==
  /\ NoName \notin Names \cup Senders
  /\ maxRecips \in Nat
  /\ maxMessageBytes \in Nat
  /\ DeclaredSizes \subseteq Nat
  /\ ReadSizes \subseteq Nat \ {0}

VARIABLES
  TLSConfigured,   (* Server.TLSConfig # nil: stays as it is                 *)
  storeMessages,   (* Server.storeMessages: stays as it is                   *)
  pc,          (* where the session's goroutine is                           *)
  state,       (* c.state                                                    *)
  helo,        (* c.helo                                                     *)
  from,        (* c.from                                                     *)
  recipients,  (* c.recipients; each entry also remembers the kind of        *)
               (* connection it was named over (a history component)         *)
  tls_on,      (* c.tls_on                                                   *)
  errors,      (* c.errors                                                   *)
  killed,      (* c.kill_time > 1                                            *)
  msg,         (* the local variable msg of processData                      *)
  mc,          (* the SMTPMessage sent to the mailer, while awaiting Notify  *)
  conn,        (* c.conn: open, ended or reset by the peer, or closed here   *)
  out,         (* the reply codes the last step wrote                        *)
  released     (* how often this session has received from server.sem        *)

server == <<TLSConfigured, storeMessages>>
vars == <<server, pc, state, helo, from, recipients, tls_on, errors, killed,
          msg, mc, conn, out, released>>

envelope == <<helo, from, recipients>>
session == <<tls_on, errors, killed>>
transfer == <<msg, mc>>
link == <<conn, released, server>>

State == {"GREET", "READY", "MAIL", "DATA", "QUIT"}
Place == {"greet", "command", "reading", "gotmsg", "submitting", "awaiting",
          "closing", "closed"}
Code == {220, 221, 235, 250, 252, 334, 354, 500, 501, 502, 504, 550, 552, 554}

Recipient == [rcpt : Rcpts, secure : BOOLEAN]
Text == [len : Nat, dot : BOOLEAN]
NoText == [len |-> 0, dot |-> FALSE]
SMTPMessage == [helo : Names, from : Senders, to : Seq(Recipient), text : Text]

TypeOK ==
  /\ TLSConfigured \in BOOLEAN
  /\ storeMessages \in BOOLEAN
  /\ pc \in Place
  /\ state \in State
  /\ helo \in Names \cup {NoName}
  /\ from \in Senders \cup {NoName}
  /\ recipients \in Seq(Recipient)
  /\ tls_on \in BOOLEAN
  /\ errors \in Nat
  /\ killed \in BOOLEAN
  /\ msg \in Text
  /\ mc \in SMTPMessage \cup {NoMessage}
  /\ conn \in {"open", "eof", "reset", "closed"}
  /\ out \in Seq(Code)
  /\ released \in Nat

(* Start's &Client{state: 1, ...}: state 1 is READY until greet corrects it. *)
Init ==
  /\ TLSConfigured \in BOOLEAN
  /\ storeMessages \in BOOLEAN
  /\ pc = "greet"
  /\ state = "READY"
  /\ helo = NoName
  /\ from = NoName
  /\ recipients = <<>>
  /\ tls_on = FALSE
  /\ errors = 0
  /\ killed = FALSE
  /\ msg = NoText
  /\ mc = NoMessage
  /\ conn = "open"
  /\ out = <<>>
  /\ released = 0

-----------------------------------------------------------------------------
(* Pieces shared by the handlers.  A definition whose name has a suffix      *)
(* after an underscore, here and below, is a faulty variant of the one that  *)
(* follows it: no specification uses it, it only serves to show that the     *)
(* properties notice the fault.                                              *)

reset_KeepsRecipients ==
  /\ state' = "GREET"
  /\ from' = NoName
  /\ helo' = NoName
  /\ UNCHANGED recipients

reset_KeepsState ==
  /\ from' = NoName
  /\ helo' = NoName
  /\ recipients' = <<>>
  /\ UNCHANGED state

reset ==
  /\ state' = "GREET"
  /\ from' = NoName
  /\ helo' = NoName
  /\ recipients' = <<>>

NextTurn_IgnoresKill ==
  pc' = IF errors' > 3 THEN "closing"
        ELSE IF state' = "DATA" THEN "reading"
        ELSE "command"

(* The end of one turn of handleClient's loop and the start of the next.     *)
NextTurn ==
  pc' = IF killed' \/ errors' > 3 THEN "closing"
        ELSE IF state' = "DATA" THEN "reading"
        ELSE "command"

LineRead_EvenIfClosed == pc = "command"

(* readLine has returned a line of the client.                               *)
LineRead == pc = "command" /\ conn = "open"

(* A handler that only replies.                                              *)
ReplyOnly(codes) ==
  /\ LineRead
  /\ out' = codes
  /\ UNCHANGED <<state, envelope, session, transfer, link>>
  /\ NextTurn

-----------------------------------------------------------------------------
(* The handlers: one operator per command, one disjunct per way it can end.  *)

greet ==
  /\ pc = "greet"
  /\ out' = <<220>>
  /\ state' = "GREET"
  /\ pc' = "command"
  /\ UNCHANGED <<envelope, session, transfer, link>>

(* HELO and EHLO: the envelope of an open transaction is left as it is.      *)
greetHandler ==
  \/ ReplyOnly(<<501>>)
  \/ /\ LineRead
     /\ \E domain \in Names : helo' = domain
     /\ state' = "READY"
     /\ out' = <<250>>
     /\ UNCHANGED <<from, recipients, session, transfer, link>>
     /\ NextTurn

(* 501 stands for a bad address, bad parameters and a SIZE that ParseInt     *)
(* cannot read in 32 bits.                                                   *)
mailHandler ==
  \/ helo = NoName /\ ReplyOnly(<<502>>)
  \/ helo # NoName /\ ReplyOnly(<<501>>)
  \/ /\ helo # NoName
     /\ \E size \in DeclaredSizes : size > maxMessageBytes
     /\ ReplyOnly(<<552>>)
  \/ /\ LineRead
     /\ helo # NoName
     /\ \E size \in DeclaredSizes : size <= maxMessageBytes
     /\ from' \in Senders
     /\ state' = "MAIL"
     /\ out' = <<250>>
     /\ UNCHANGED <<helo, recipients, session, transfer, link>>
     /\ NextTurn

rcptHandler ==
  \/ from = NoName /\ ReplyOnly(<<502>>)
  \/ from # NoName /\ ReplyOnly(<<501>>)
  \/ /\ from # NoName
     /\ Len(recipients) >= maxRecips
     /\ ReplyOnly(<<552>>)
  \/ /\ LineRead
     /\ from # NoName
     /\ Len(recipients) < maxRecips
     /\ \E recip \in Rcpts :
          recipients' = Append(recipients, [rcpt |-> recip, secure |-> tls_on])
     /\ out' = <<250>>
     /\ UNCHANGED <<state, helo, from, session, transfer, link>>
     /\ NextTurn

authHandler ==
  \/ ReplyOnly(<<502>>)
  \/ helo # NoName /\ \E code \in {235, 334, 504} : ReplyOnly(<<code>>)

tlsHandler_KeepsEnvelope ==
  /\ LineRead
  /\ ~tls_on
  /\ TLSConfigured
  /\ tls_on' = TRUE
  /\ state' = "GREET"
  /\ out' = <<220>>
  /\ UNCHANGED <<envelope, errors, killed, transfer, link>>
  /\ NextTurn

tlsHandler ==
  \/ (tls_on \/ ~TLSConfigured) /\ ReplyOnly(<<502>>)
  \/ /\ LineRead
     /\ ~tls_on
     /\ TLSConfigured
     /\ \/ /\ tls_on' = TRUE                      (* the handshake succeeds  *)
           /\ reset
           /\ out' = <<220>>
        \/ /\ out' = <<220, 550>>                 (* the handshake fails     *)
           /\ state' = "GREET"
           /\ UNCHANGED <<envelope, tls_on>>
     /\ UNCHANGED <<errors, killed, transfer, link>>
     /\ NextTurn

dataHandler ==
  \/ ReplyOnly(<<501>>)
  \/ recipients = <<>> /\ ReplyOnly(<<502>>)
  \/ /\ LineRead
     /\ recipients # <<>>
     /\ out' = <<354>>
     /\ state' = "DATA"
     /\ UNCHANGED <<envelope, session, transfer, link>>
     /\ NextTurn

rset ==
  /\ LineRead
  /\ reset
  /\ out' = <<250>>
  /\ UNCHANGED <<session, transfer, link>>
  /\ NextTurn

quit ==
  /\ LineRead
  /\ out' = <<221>>
  /\ killed' = TRUE
  /\ UNCHANGED <<state, envelope, tls_on, errors, transfer, link>>
  /\ NextTurn

(* VRFY, NOOP and the commands that are known but not implemented.           *)
otherKnown == \E code \in {250, 252, 502} : ReplyOnly(<<code>>)

(* An empty line or an unknown verb is told so and counted; the fourth is    *)
(* told once more and ends the session.                                      *)
unrecognized ==
  /\ LineRead
  /\ errors' = errors + 1
  /\ killed' = (killed \/ errors' > 3)
  /\ out' = IF errors' > 3 THEN <<500, 500>> ELSE <<500>>
  /\ UNCHANGED <<state, envelope, tls_on, transfer, link>>
  /\ NextTurn

(* parseCmd rejects the line: no reply, and it is not counted.               *)
mangled == ReplyOnly(<<>>)

handle ==
  \/ greetHandler \/ mailHandler \/ rcptHandler \/ authHandler \/ tlsHandler
  \/ dataHandler \/ rset \/ quit \/ otherKnown \/ unrecognized \/ mangled

(* readLine returns an error: end of file gets no reply; a passed deadline,  *)
(* a reset, or a connection this session has closed already gets a 221.      *)
readLineFails ==
  /\ pc = "command"
  /\ out' = IF conn = "eof" THEN <<>> ELSE <<221>>
  /\ state' = "QUIT"
  /\ pc' = "closing"
  /\ UNCHANGED <<envelope, session, transfer, link>>

-----------------------------------------------------------------------------
(* processData: read the body, then decide what becomes of the message.      *)

leaveLoop_TakesEmpty ==
  /\ pc' = "gotmsg"
  /\ UNCHANGED <<state, envelope, msg>>

(* Where the reading loop goes when it breaks: an empty message is dropped.  *)
leaveLoop ==
  \/ /\ msg.len > 0
     /\ pc' = "gotmsg"
     /\ UNCHANGED <<state, envelope, msg>>
  \/ /\ msg.len = 0
     /\ reset
     /\ msg' = NoText
     /\ pc' = "command"

readBody_TooLongKeepsEnvelope ==
  /\ pc = "reading"
  /\ conn = "open"
  /\ \E n \in ReadSizes, dot \in BOOLEAN :
       IF msg.len + n > maxMessageBytes
       THEN /\ out' = <<552>>
            /\ state' = "GREET"
            /\ msg' = NoText
            /\ pc' = "command"
            /\ UNCHANGED envelope
       ELSE /\ out' = <<>>
            /\ msg' = [len |-> msg.len + n, dot |-> dot]
            /\ pc' = IF dot THEN "gotmsg" ELSE "reading"
            /\ UNCHANGED <<state, envelope>>
  /\ UNCHANGED <<session, mc, link>>

readBody ==
  /\ pc = "reading"
  /\ conn = "open"
  /\ \E n \in ReadSizes, dot \in BOOLEAN :
       IF msg.len + n > maxMessageBytes
       THEN /\ out' = <<552>>
            /\ reset
            /\ msg' = NoText
            /\ pc' = "command"
       ELSE /\ out' = <<>>
            /\ msg' = [len |-> msg.len + n, dot |-> dot]
            /\ pc' = IF dot THEN "gotmsg" ELSE "reading"
            /\ UNCHANGED <<state, envelope>>
  /\ UNCHANGED <<session, mc, link>>

bodyStops_Returns ==
  /\ pc = "reading"
  /\ killed' = TRUE
  /\ out' = <<>>
  /\ state' = "QUIT"
  /\ pc' = "closing"
  /\ UNCHANGED <<envelope, tls_on, errors, msg, mc, link>>

(* Read returns 0 bytes: the peer is gone or the deadline that the 354 reply *)
(* set has passed.  The session is marked for closing but goes on, with what *)
(* it has read so far as the message.                                        *)
bodyStops ==
  /\ pc = "reading"
  /\ killed' = TRUE
  /\ out' = <<>>
  /\ leaveLoop
  /\ UNCHANGED <<tls_on, errors, mc, link>>

(* Over TLS, Read may return its last bytes together with the end of the     *)
(* connection: those bytes are not appended.                                 *)
bodyStopsWithBytes ==
  /\ pc = "reading"
  /\ tls_on
  /\ conn = "open"
  /\ conn' = "eof"
  /\ out' = <<>>
  /\ leaveLoop
  /\ UNCHANGED <<session, mc, released, server>>

(* SpamRegex matches: the client is told 250 and its connection is closed,   *)
(* which also gives its slot back, but handleClient's loop goes on.          *)
dropSpam ==
  /\ pc = "gotmsg"
  /\ out' = <<250>>
  /\ from' = NoName /\ helo' = NoName /\ recipients' = <<>>
  /\ state' = "QUIT"
  /\ conn' = "closed"
  /\ released' = released + 1
  /\ msg' = NoText
  /\ pc' = "command"
  /\ UNCHANGED <<session, mc, server>>

hand ==
  /\ pc = "gotmsg"
  /\ storeMessages
  /\ mc' = [helo |-> helo, from |-> from, to |-> recipients, text |-> msg]
  /\ pc' = "submitting"
  /\ out' = <<>>
  /\ UNCHANGED <<state, envelope, session, msg, link>>

(* Mailer.SendMailChan has room.                                             *)
submit ==
  /\ pc = "submitting"
  /\ pc' = "awaiting"
  /\ out' = <<>>
  /\ UNCHANGED <<state, envelope, session, transfer, link>>

(* Notify delivers 1 or another status, or 60 seconds pass; or messages are  *)
(* not stored at all.                                                        *)
conclude(code) ==
  /\ out' = <<code>>
  /\ reset
  /\ msg' = NoText
  /\ mc' = NoMessage
  /\ pc' = "command"
  /\ UNCHANGED <<session, link>>

notified == pc = "awaiting" /\ \E code \in {250, 554} : conclude(code)
discard == pc = "gotmsg" /\ ~storeMessages /\ conclude(250)

-----------------------------------------------------------------------------
(* closeClient, deferred by handleClient.                                    *)
closeClient ==
  /\ pc = "closing"
  /\ state' = "QUIT"
  /\ conn' = "closed"
  /\ released' = released + 1
  /\ pc' = "closed"
  /\ out' = <<>>
  /\ UNCHANGED <<envelope, session, transfer, server>>

(* The peer shuts the connection down or resets it; what it had sent before  *)
(* has been read.                                                            *)
peerEnds ==
  /\ conn = "open"
  /\ conn' \in {"eof", "reset"}
  /\ UNCHANGED <<pc, state, envelope, session, transfer, released, server, out>>

processData ==
  \/ readBody \/ bodyStops \/ bodyStopsWithBytes \/ dropSpam \/ hand
  \/ submit \/ notified \/ discard

Next ==
  \/ greet \/ handle \/ readLineFails \/ processData \/ closeClient \/ peerEnds

Spec == Init /\ [][Next]_vars

(* Read has a deadline everywhere, the wait for the mailer lasts at most 60  *)
(* seconds and the remaining steps are local, so each happens in the end.    *)
(* A message the mailer's channel has no room for may wait forever (submit   *)
(* has no fairness), and nothing obliges the peer (peerEnds has none).       *)
Fairness ==
  /\ WF_vars(greet)
  /\ WF_vars(handle \/ readLineFails)
  /\ WF_vars(bodyStops)
  /\ WF_vars(dropSpam \/ hand \/ discard)
  /\ WF_vars(notified)
  /\ WF_vars(closeClient)

FairSpec == Spec /\ Fairness

-----------------------------------------------------------------------------
(* Safety.                                                                   *)

(* The envelope is built in order even though no handler but the first looks *)
(* at c.state: recipients need a sender, a sender needs a HELO or EHLO, a    *)
(* body being received has recipients, and their number never passes the     *)
(* limit of rcptHandler (client.go:214, 231, 342).                           *)
EnvelopeInOrder ==
  /\ recipients # <<>> => from # NoName
  /\ from # NoName => helo # NoName
  /\ pc \in {"reading", "gotmsg", "submitting", "awaiting"}
       => recipients # <<>>
  /\ Len(recipients) <= maxRecips

(* c.state alone decides whether handleClient reads lines or body bytes, so  *)
(* it is DATA exactly while processData is running (server.go:195): a body   *)
(* is never parsed as commands, nor a command taken for a body.              *)
DataStateIsBody ==
  state = "DATA" <=> pc \in {"reading", "gotmsg", "submitting", "awaiting"}

(* What the mailer is handed is a deliverable message within the limits the  *)
(* server announced: a body that is not empty nor too long, a sender, and    *)
(* between 1 and maxRecips recipients (client.go:414-424).                   *)
HandedMessageInLimits ==
  mc # NoMessage =>
    /\ mc.text.len \in 1..maxMessageBytes
    /\ Len(mc.to) \in 1..maxRecips
    /\ mc.from # NoName /\ mc.helo # NoName

(* Nothing that was said before STARTTLS survives it: every recipient known  *)
(* to the session, and every one in a message it hands on, was named over    *)
(* the kind of connection in use now (client.go:318).                        *)
EnvelopeSaidOverThisLink ==
  /\ \A i \in DOMAIN recipients : recipients[i].secure = tls_on
  /\ mc # NoMessage => \A i \in DOMAIN mc.to : mc.to[i].secure = tls_on

(* A client is never told 250 for a body and then left in a transaction: on  *)
(* every way out of processData, error or not, the envelope is gone, so the  *)
(* next message cannot inherit recipients (client.go:386, 408, 448).         *)
BodyEndsTransaction ==
  [][pc # "command" /\ pc' = "command" =>
       from' = NoName /\ helo' = NoName /\ recipients' = <<>>]_vars

(* Once the connection has been closed by the spam rule the loop that goes   *)
(* on cannot do anything for the client any more: it does not handle another *)
(* command, read a body or hand a message over (client.go:409, server.go:198)*)
ClosedMeansQuiet ==
  [][conn = "closed" =>
       /\ pc' \in {"closing", "closed"}
       /\ UNCHANGED <<envelope, tls_on, errors, msg, mc>>]_vars

(* Liveness.                                                                 *)

(* A session that killClient has marked ends, although processData's         *)
(* "continue" skips the loop's check and the client may get one more command *)
(* in (server.go:198, 229), unless it waits forever on the mailer's channel. *)
KilledSessionEnds == killed ~> (pc = "closed" \/ [](pc = "submitting"))

-----------------------------------------------------------------------------
(* What the repository says of a session and its code does not do.           *)

(* "DATA State: Got DATA, waiting for '.'" (client.go:28), and the 354 reply *)
(* asks for <CR><LF>.<CR><LF>: a message is taken for complete only then.    *)
HandedMessageComplete == mc # NoMessage => mc.text.dot

-----------------------------------------------------------------------------
(* The mail transaction a session implements.                                *)

phase ==
  IF pc = "closed" THEN "over"
  ELSE IF pc \in {"reading", "gotmsg"} THEN "receiving"
  ELSE IF pc \in {"submitting", "awaiting"} THEN "handed"
  ELSE IF recipients # <<>> THEN "addressed"
  ELSE IF from # NoName THEN "opened"
  ELSE "idle"

Transaction == INSTANCE MailTransaction WITH
  phase <- phase, addressees <- Len(recipients), limit <- maxRecips

(* A session is a mail transaction of RFC 5321's shape: see MailTransaction. *)
ImplementsTransaction == Transaction!Spec
=============================================================================
