----------------------------- MODULE EmailAddress -----------------------------
(***************************************************************************)
(* The address parser that MAIL and RCPT rest on: ParseEmailAddress, with  *)
(* its one loop over the local part, and ValidateDomainPart, with its loop *)
(* over the domain (smtpd/utils.go); and the two other readers an accepted *)
(* address meets later, which know nothing of quoting: the mailer's        *)
(* strings.Split (smtpd/mailer.go) and PathFromString (data/message.go).   *)
(*                                                                         *)
(* A step of the specification is one turn of a loop.  Characters are      *)
(* those the two switches tell apart.                                      *)
(***************************************************************************)
EXTENDS Integers, Sequences, SequencesExt, FiniteSets

CONSTANTS
  Letters,     (* letters, digits and "_": good everywhere                   *)
  Specials,    (* other characters a local part may have unquoted, but "-"   *)
  Others,      (* ASCII characters that must be quoted, ":" among them       *)
  NonAscii,    (* characters above 127                                       *)
  Inputs,      (* the addresses given to the parser                          *)
  MaxAddress,  (* 320                                                        *)
  MaxLocal,    (* 63                                                         *)
  MaxLabel,    (* 63                                                         *)
  MaxDomain    (* 255                                                        *)

Unquoted == Letters \cup Specials \cup {"-"}
Char == Unquoted \cup Others \cup NonAscii \cup {".", "\\", "\"", "@"}

ASSUME AddressAssumption ==
  /\ \A S \in {Letters, Specials} :
       S \cap (Others \cup NonAscii \cup {".", "-", "\\", "\"", "@"}) = {}
  /\ Letters \cap Specials = {} /\ Others \cap NonAscii = {}
  /\ ":" \in Others
  /\ (Others \cup NonAscii) \cap {".", "-", "\\", "\"", "@"} = {}
  /\ Inputs \subseteq Seq(Char)
  /\ {MaxAddress, MaxLocal, MaxLabel, MaxDomain} \subseteq Nat

VARIABLES
  address,        (* the parameter                                           *)
  phase,          (* which loop runs, or how the parser has returned         *)
  i,              (* the loop's position, from 1                             *)
  prev,           (* the character before                                    *)
  buf,            (* the unescaped local part so far                         *)
  inCharQuote,
  inStringQuote,
  domain,         (* address[i+1:] once the "@" has been found               *)
  labelLen,
  hasAlphaNum

vars == <<address, phase, i, prev, buf, inCharQuote, inStringQuote, domain,
          labelLen, hasAlphaNum>>

local == <<buf, inCharQuote, inStringQuote, domain>>
label == <<labelLen, hasAlphaNum>>

TypeOK ==
  /\ address \in Seq(Char)
  /\ phase \in {"start", "local", "domain", "accepted", "rejected"}
  /\ i \in 1..(MaxAddress + 1)
  /\ prev \in Char
  /\ buf \in Seq(Char)
  /\ phase \in {"domain", "accepted"} => Len(buf) <= MaxLocal
  /\ inCharQuote \in BOOLEAN /\ inStringQuote \in BOOLEAN
  /\ domain \in Seq(Char)
  /\ labelLen \in 0..MaxDomain
  /\ hasAlphaNum \in BOOLEAN

Init ==
  /\ address \in Inputs
  /\ phase = "start"
  /\ i = 1
  /\ prev = "."
  /\ buf = <<>>
  /\ inCharQuote = FALSE /\ inStringQuote = FALSE
  /\ domain = <<>>
  /\ labelLen = 0 /\ hasAlphaNum = FALSE

-----------------------------------------------------------------------------
(* A definition whose name has a suffix after an underscore is a faulty      *)
(* variant of the one that follows it, for checking that the properties      *)
(* notice the fault.                                                         *)

Reject ==
  /\ phase' = "rejected"
  /\ UNCHANGED <<i, prev, local, label>>

(* What is looked at before the loop.                                        *)
Startable == Len(address) \in 1..MaxAddress /\ address[1] \notin {"@", "."}

enter ==
  /\ phase = "start"
  /\ \/ ~Startable /\ Reject
     \/ /\ Startable
        /\ phase' = "local"
        /\ UNCHANGED <<i, prev, local, label>>
  /\ UNCHANGED address

(* A turn of the loop over the local part that reads one of chars.           *)
Reads(chars) ==
  /\ phase = "local"
  /\ i <= Len(address)
  /\ address[i] \in chars
  /\ UNCHANGED <<address, label>>

Goes == i' = i + 1 /\ prev' = address[i] /\ phase' = phase

Refused == phase' = "rejected" /\ UNCHANGED <<i, prev, local>>

(* buf.WriteByte(c); inCharQuote = false                                     *)
Write ==
  /\ buf' = Append(buf, address[i])
  /\ inCharQuote' = FALSE
  /\ Goes
  /\ UNCHANGED <<inStringQuote, domain>>

Quoted == inCharQuote \/ inStringQuote

unquoted == Reads(Unquoted) /\ Write

period ==
  /\ Reads({"."})
  /\ \/ prev = "." /\ Refused
     \/ prev # "." /\ Write

backslash ==
  /\ Reads({"\\"})
  /\ inCharQuote' = TRUE
  /\ Goes
  /\ UNCHANGED <<buf, inStringQuote, domain>>

doubleQuote ==
  /\ Reads({"\""})
  /\ \/ inCharQuote /\ Write
     \/ /\ ~inCharQuote
        /\ inStringQuote \/ i = 1
        /\ inStringQuote' = ~inStringQuote
        /\ Goes
        /\ UNCHANGED <<buf, inCharQuote, domain>>
     \/ ~Quoted /\ i > 1 /\ Refused

atSign_AfterPeriod ==
  /\ Reads({"@"})
  /\ \/ Quoted /\ Write
     \/ ~Quoted /\ i - 1 > MaxLocal /\ Refused
     \/ /\ ~Quoted /\ i - 1 <= MaxLocal
        /\ phase' = "domain"
        /\ domain' = SubSeq(address, i + 1, Len(address))
        /\ i' = 1 /\ prev' = "."
        /\ UNCHANGED <<buf, inCharQuote, inStringQuote>>

(* An "@" outside quotes ends the local part.                                *)
atSign ==
  /\ Reads({"@"})
  /\ \/ Quoted /\ Write
     \/ ~Quoted /\ (i - 1 > MaxLocal \/ prev = ".") /\ Refused
     \/ /\ ~Quoted /\ i - 1 <= MaxLocal /\ prev # "."
        /\ phase' = "domain"
        /\ domain' = SubSeq(address, i + 1, Len(address))
        /\ i' = 1 /\ prev' = "."
        /\ UNCHANGED <<buf, inCharQuote, inStringQuote>>

nonAscii == Reads(NonAscii) /\ Refused

other_KeepsCharQuote ==
  /\ Reads(Others)
  /\ \/ /\ Quoted
        /\ buf' = Append(buf, address[i])
        /\ Goes
        /\ UNCHANGED <<inCharQuote, inStringQuote, domain>>
     \/ ~Quoted /\ Refused

other_Unquoted == Reads(Others) /\ Write

other ==
  /\ Reads(Others)
  /\ \/ Quoted /\ Write
     \/ ~Quoted /\ Refused

(* The loop ends without an "@" outside quotes: if no quote is left open it  *)
(* is the empty domain that is refused.                                      *)
noDomain ==
  /\ phase = "local"
  /\ i > Len(address)
  /\ Refused
  /\ UNCHANGED <<address, label>>

ParseEmailAddress ==
  \/ enter \/ unquoted \/ period \/ backslash \/ doubleQuote \/ atSign
  \/ nonAscii \/ other \/ noDomain

-----------------------------------------------------------------------------
(* ValidateDomainPart.                                                       *)

Checked == IF Last(domain) = "." THEN domain ELSE Append(domain, ".")

badLength ==
  /\ phase = "domain"
  /\ Len(domain) \notin 1..MaxDomain
  /\ Reject
  /\ UNCHANGED address

Sees(chars) ==
  /\ phase = "domain"
  /\ Len(domain) \in 1..MaxDomain
  /\ i <= Len(Checked)
  /\ Checked[i] \in chars
  /\ UNCHANGED <<address, local>>

Turn == i' = i + 1 /\ prev' = Checked[i] /\ phase' = phase

Fails == phase' = "rejected" /\ UNCHANGED <<i, prev, label>>

alphaNum ==
  /\ Sees(Letters)
  /\ hasAlphaNum' = TRUE
  /\ labelLen' = labelLen + 1
  /\ Turn

(* A hyphen does not count towards the label's length.                       *)
hyphen ==
  /\ Sees({"-"})
  /\ \/ prev = "." /\ Fails
     \/ prev # "." /\ Turn /\ UNCHANGED label

dot_AfterHyphen ==
  /\ Sees({"."})
  /\ \/ (prev = "." \/ labelLen > MaxLabel \/ ~hasAlphaNum) /\ Fails
     \/ /\ prev # "." /\ labelLen <= MaxLabel /\ hasAlphaNum
        /\ labelLen' = 0 /\ hasAlphaNum' = FALSE
        /\ Turn

dot ==
  /\ Sees({"."})
  /\ \/ (prev \in {".", "-"} \/ labelLen > MaxLabel \/ ~hasAlphaNum) /\ Fails
     \/ /\ prev \notin {".", "-"} /\ labelLen <= MaxLabel /\ hasAlphaNum
        /\ labelLen' = 0 /\ hasAlphaNum' = FALSE
        /\ Turn

unknown == Sees(Char \ (Letters \cup {"-", "."})) /\ Fails

valid ==
  /\ phase = "domain"
  /\ Len(domain) \in 1..MaxDomain
  /\ i > Len(Checked)
  /\ phase' = "accepted"
  /\ UNCHANGED <<address, i, prev, local, label>>

ValidateDomainPart ==
  badLength \/ alphaNum \/ hyphen \/ dot \/ unknown \/ valid

Next == ParseEmailAddress \/ ValidateDomainPart

Spec == Init /\ [][Next]_vars

-----------------------------------------------------------------------------
(* The other readers of an accepted address.                                 *)

Positions(s, chars) == {p \in DOMAIN s : s[p] \in chars}

(* strings.SplitN(s, c, 2) of a string that contains c.                      *)
Cut(s, c) ==
  LET p == CHOOSE p \in Positions(s, {c}) :
             \A q \in Positions(s, {c}) : p <= q
  IN <<SubSeq(s, 1, p - 1), SubSeq(s, p + 1, Len(s))>>

(* What stands before a colon are relays, the first "@" after it ends the    *)
(* mailbox.                                                                  *)
PathFromString(path) ==
  LET email == IF Contains(path, ":") THEN Cut(path, ":")[2] ELSE path
  IN IF Contains(email, "@")
     THEN [mailbox |-> Cut(email, "@")[1], domain |-> Cut(email, "@")[2]]
     ELSE [mailbox |-> email, domain |-> <<>>]

(* strings.Split(to, "@")[1], where the mailer looks for the MX records.     *)
LookupHost(to) ==
  LET after == Cut(to, "@")[2]
  IN IF Contains(after, "@") THEN Cut(after, "@")[1] ELSE after

-----------------------------------------------------------------------------
(* Reference definitions.                                                    *)

(* A domain: labels of letters, digits and inner hyphens between dots, the   *)
(* last dot optional.                                                        *)
IsLabel(s) ==
  /\ s # <<>>
  /\ ToSet(s) \subseteq Letters \cup {"-"}
  /\ Head(s) # "-" /\ Last(s) # "-"
  /\ Cardinality(Positions(s, Letters)) <= MaxLabel

IsDomain(d) ==
  /\ Len(d) \in 1..MaxDomain
  /\ LET closed == IF Last(d) = "." THEN d ELSE Append(d, ".")
         Dots == {0} \cup Positions(closed, {"."})
     IN \A p, q \in Dots :
          (p < q /\ \A r \in Dots : r <= p \/ q <= r)
            => IsLabel(SubSeq(closed, p + 1, q - 1))

(* A local part that needs no quotes: words between single dots.             *)
IsDotAtom(s) ==
  /\ Len(s) \in 1..MaxLocal
  /\ ToSet(s) \subseteq Unquoted \cup {"."}
  /\ Head(s) # "." /\ Last(s) # "."
  /\ \A p \in 1..(Len(s) - 1) : <<s[p], s[p + 1]>> # <<".", ".">>

IsPlainAddress(s) ==
  /\ Len(s) <= MaxAddress
  /\ Contains(s, "@")
  /\ IsDotAtom(Cut(s, "@")[1])
  /\ IsDomain(Cut(s, "@")[2])

Plain(s) == ~Contains(s, "\\") /\ ~Contains(s, "\"")

(* What quoting leaves of s: all but the backslashes and the double quotes   *)
(* no backslash precedes.                                                    *)
Unescaped(s) ==
  LET kept(p) == \/ s[p] \notin {"\\", "\""}
                 \/ s[p] = "\"" /\ p > 1 /\ s[p - 1] = "\\"
      Upto[n \in 0..Len(s)] ==
        IF n = 0 THEN <<>>
        ELSE IF kept(n) THEN Append(Upto[n - 1], s[n]) ELSE Upto[n - 1]
  IN Upto[Len(s)]

-----------------------------------------------------------------------------
(* Safety.                                                                   *)

(* Of the addresses without quotes the parser accepts exactly those that     *)
(* RFC 5321's dot-atoms and the domain rule allow: the flags and prev of its *)
(* one loop decide what the grammar says (utils.go:151-231).                 *)
PlainDecided ==
  Plain(address) =>
    /\ phase = "accepted" => IsPlainAddress(address)
    /\ phase = "rejected" => ~IsPlainAddress(address)

(* The domain loop decides by prev, labelLen and hasAlphaNum what the labels *)
(* of the domain say, for quoted local parts too (utils.go:86-120).          *)
DomainDecided ==
  domain # <<>> =>
    /\ phase = "accepted" => IsDomain(domain)
    /\ phase = "rejected" => ~IsDomain(domain)

(* The local part is cut off at an "@", and its value is what quoting leaves *)
(* of it, although inCharQuote is cleared in five places (utils.go:150-219). *)
LocalUnescaped ==
  phase \in {"domain", "accepted"} =>
    \E p \in Positions(address, {"@"}) :
      /\ domain = SubSeq(address, p + 1, Len(address))
      /\ buf = Unescaped(SubSeq(address, 1, p - 1))

(* An accepted address without quotes means the same to all who read it      *)
(* again: the saver stores it for that mailbox at that domain, the mailer    *)
(* looks that domain up (message.go:145, mailer.go:54).                      *)
ReadersAgree ==
  phase = "accepted" /\ Plain(address) =>
    /\ PathFromString(address) = [mailbox |-> buf, domain |-> domain]
    /\ LookupHost(address) = domain
=============================================================================
