-------------------------- MODULE EmailAddress_proofs --------------------------
(***************************************************************************)
(* Theorems about EmailAddress, for any alphabet, any addresses and any    *)
(* limits: the variables keep their types, no index leaves its string, an  *)
(* accepted address without quotes means the same to all its readers, and  *)
(* the two loops decide what the reference definitions say: which domains, *)
(* which unquoted addresses, and what quoting leaves of a local part.      *)
(*                                                                         *)
(* The reference definitions speak of strings of any length.  Where a      *)
(* proof has to go through a string place by place it takes the least      *)
(* place that fails, which exists because finite sets are well founded by  *)
(* strict inclusion (Least).                                               *)
(***************************************************************************)
EXTENDS EmailAddress, FiniteSetTheorems, TLAPS

-----------------------------------------------------------------------------
(* The inductive invariant.                                                  *)

(* What the loop over the local part lets pass when there are no quotes.     *)
PlainChar == Unquoted \cup {"."}

(* What the loop over the domain lets pass.                                  *)
DomainChar == Letters \cup {"-", "."}

StartInv ==
  phase = "start" =>
    /\ i = 1 /\ buf = <<>> /\ labelLen = 0
    /\ ~inCharQuote /\ ~inStringQuote

(* So far the local part has been written out as it is, if it has no quotes. *)
LocalInv ==
  phase = "local" =>
    /\ Len(address) <= MaxAddress /\ address[1] # "@"
    /\ i \in 1..Len(address) + 1
    /\ Len(buf) <= i - 1 /\ labelLen = 0
    /\ Plain(address) =>
         /\ ~inCharQuote /\ ~inStringQuote
         /\ Len(buf) = i - 1
         /\ \A p \in 1..i - 1 : buf[p] = address[p] /\ address[p] \in PlainChar

(* The address was cut off at the "@" in place at.                           *)
CutAt(at) ==
  /\ at \in 2..Len(address) /\ address[at] = "@"
  /\ domain = SubSeq(address, at + 1, Len(address))
  /\ Plain(address) =>
       /\ Len(buf) = at - 1
       /\ \A p \in 1..at - 1 : buf[p] = address[p] /\ address[p] \in PlainChar

DomainInv ==
  phase \in {"domain", "accepted"} =>
    /\ Len(address) <= MaxAddress
    /\ \E at \in Nat : CutAt(at)
    /\ i \in 1..Len(Checked) + 1
    /\ labelLen <= i - 1
    /\ \A p \in 1..i - 1 : Checked[p] \in DomainChar
    /\ phase = "accepted" => i > Len(Checked)

IInv == TypeOK /\ StartInv /\ LocalInv /\ DomainInv

-----------------------------------------------------------------------------
(* The alphabet.                                                             *)

(* Nothing that passes a loop unquoted ends a mailbox or follows relays.     *)
LEMMA Alphabet ==
  /\ "@" \notin PlainChar /\ ":" \notin PlainChar
  /\ "@" \notin DomainChar /\ ":" \notin DomainChar
  /\ PlainChar \subseteq Char /\ DomainChar \subseteq Char
  BY AddressAssumption DEF PlainChar, DomainChar, Char, Unquoted

(* The limits are natural numbers.                                           *)
LEMMA LimitsNat ==
  MaxAddress \in Nat /\ MaxLocal \in Nat /\ MaxLabel \in Nat /\ MaxDomain \in Nat
  BY AddressAssumption

(* The domain that is checked ends in a dot.                                 *)
LEMMA CheckedTypes ==
  ASSUME TypeOK
  PROVE  /\ Checked \in Seq(Char)
         /\ Len(Checked) \in {Len(domain), Len(domain) + 1}
         /\ \A p \in 1..Len(domain) : Checked[p] = domain[p]
         /\ Len(Checked) = Len(domain) + 1 => Checked[Len(Checked)] = "."
<1>1. domain \in Seq(Char) /\ Len(domain) \in Nat
  BY DEF TypeOK
<1>2. "." \in Char
  BY DEF Char
<1>3. CASE Last(domain) = "."
  BY <1>1, <1>3 DEF Checked
<1>4. CASE Last(domain) # "."
  BY <1>1, <1>2, <1>4 DEF Checked
<1>. QED BY <1>3, <1>4

-----------------------------------------------------------------------------
(* The initial states.                                                       *)
LEMMA InitIInv == Init => IInv
<1>. SUFFICES ASSUME Init PROVE IInv
  OBVIOUS
<1>1. address \in Seq(Char) /\ "." \in Char
  BY AddressAssumption DEF Init, Char
<1>2. TypeOK
  <2>1. <<>> \in Seq(Char) /\ Len(<<>>) = 0
    OBVIOUS
  <2>2. 1 \in 1..(MaxAddress + 1) /\ 0 \in 0..MaxDomain
    BY LimitsNat
  <2>. QED BY <1>1, <2>1, <2>2 DEF Init, TypeOK
<1>. QED BY <1>2 DEF Init, IInv, StartInv, LocalInv, DomainInv

-----------------------------------------------------------------------------
(* The local part.                                                           *)

(* The address is refused.                                                   *)
LEMMA RejectIInv ==
  ASSUME IInv, phase' = "rejected",
         UNCHANGED <<address, i, prev, local, label>>
  PROVE  IInv'
<1>1. TypeOK'
  BY DEF IInv, TypeOK, local, label
<1>. QED BY <1>1 DEF IInv, StartInv, LocalInv, DomainInv

(* The loop begins.                                                          *)
LEMMA EnterIInv == IInv /\ enter => IInv'
<1>. SUFFICES ASSUME IInv, enter PROVE IInv'
  OBVIOUS
<1>1. CASE Reject
  BY <1>1, RejectIInv DEF enter, Reject
<1>2. CASE Startable /\ phase' = "local" /\ UNCHANGED <<i, prev, local, label>>
  <2>0. UNCHANGED <<address, i, prev, local, label>> /\ phase = "start"
    BY <1>2 DEF enter
  <2>1. TypeOK'
    BY <1>2, <2>0 DEF IInv, TypeOK, local, label
  <2>2. /\ Len(address) \in 1..MaxAddress /\ address[1] # "@"
    BY <1>2 DEF Startable
  <2>3. LocalInv'
    BY <2>0, <2>2, LimitsNat DEF IInv, StartInv, LocalInv, local, label
  <2>4. StartInv' /\ DomainInv'
    BY <1>2 DEF StartInv, DomainInv
  <2>. QED BY <2>1, <2>3, <2>4 DEF IInv
<1>. QED BY <1>1, <1>2 DEF enter

(* A character is written out.                                               *)
LEMMA WriteIInv ==
  ASSUME IInv, phase = "local", i <= Len(address), UNCHANGED <<address, label>>,
         Write, Plain(address) => address[i] \in PlainChar
  PROVE  IInv'
<1>1. /\ address \in Seq(Char) /\ Len(address) \in Nat /\ i \in 1..Len(address)
      /\ Len(address) <= MaxAddress /\ address[i] \in Char
      /\ buf \in Seq(Char) /\ Len(buf) \in Nat
  BY DEF IInv, TypeOK, LocalInv
<1>2. /\ buf' \in Seq(Char) /\ Len(buf') = Len(buf) + 1
      /\ buf'[Len(buf) + 1] = address[i]
      /\ \A p \in 1..Len(buf) : buf'[p] = buf[p]
  BY <1>1 DEF Write
<1>3. i' = i + 1 /\ prev' = address[i] /\ phase' = "local" /\ inCharQuote' = FALSE
  BY DEF Write, Goes
<1>4. TypeOK'
  <2>1. i' \in 1..(MaxAddress + 1)
    BY <1>1, <1>3, LimitsNat
  <2>2. /\ inStringQuote' \in BOOLEAN /\ domain' \in Seq(Char)
        /\ labelLen' \in 0..MaxDomain /\ hasAlphaNum' \in BOOLEAN
    BY DEF IInv, TypeOK, Write, label
  <2>. QED BY <1>1, <1>2, <1>3, <2>1, <2>2 DEF TypeOK
<1>5. LocalInv'
  <2>1. address' = address /\ labelLen' = labelLen /\ inStringQuote' = inStringQuote
    BY DEF Write, label
  <2>2. i' \in 1..Len(address) + 1 /\ Len(buf') <= i' - 1
    BY <1>1, <1>2, <1>3 DEF IInv, LocalInv
  <2>3. ASSUME Plain(address)
        PROVE  /\ ~inStringQuote /\ Len(buf') = i' - 1
               /\ \A p \in 1..i' - 1 : buf'[p] = address[p] /\ address[p] \in PlainChar
    BY <1>1, <1>2, <1>3, <2>3 DEF IInv, LocalInv
  <2>. QED BY <1>1, <1>3, <2>1, <2>2, <2>3 DEF IInv, LocalInv, Plain
<1>6. StartInv' /\ DomainInv'
  BY <1>3 DEF StartInv, DomainInv
<1>. QED BY <1>4, <1>5, <1>6 DEF IInv

(* A quote is passed over.                                                   *)
LEMMA QuoteIInv ==
  ASSUME IInv, phase = "local", i <= Len(address), UNCHANGED <<address, label>>,
         Goes, UNCHANGED <<buf, domain>>, ~Plain(address),
         inCharQuote' \in BOOLEAN, inStringQuote' \in BOOLEAN
  PROVE  IInv'
<1>1. /\ address \in Seq(Char) /\ Len(address) \in Nat /\ i \in 1..Len(address)
      /\ Len(address) <= MaxAddress /\ address[i] \in Char
      /\ buf \in Seq(Char) /\ Len(buf) \in Nat
  BY DEF IInv, TypeOK, LocalInv
<1>2. i' = i + 1 /\ prev' = address[i] /\ phase' = "local"
  BY DEF Goes
<1>3. TypeOK'
  BY <1>1, <1>2, LimitsNat DEF IInv, TypeOK, label
<1>4. LocalInv'
  <2>1. ~Plain(address') /\ labelLen' = 0 /\ buf' = buf
    BY DEF IInv, LocalInv, label
  <2>2. i' \in 1..Len(address) + 1 /\ Len(buf') <= i' - 1
    BY <1>1, <1>2 DEF IInv, LocalInv
  <2>. QED BY <1>1, <1>2, <2>1, <2>2 DEF IInv, LocalInv, Plain
<1>5. StartInv' /\ DomainInv'
  BY <1>2 DEF StartInv, DomainInv
<1>. QED BY <1>3, <1>4, <1>5 DEF IInv

(* The "@" that ends the local part.                                         *)
LEMMA AtSignIInv ==
  ASSUME IInv, phase = "local", i <= Len(address), UNCHANGED <<address, label>>,
         address[i] = "@", i - 1 <= MaxLocal, phase' = "domain",
         domain' = SubSeq(address, i + 1, Len(address)),
         i' = 1, prev' = ".", UNCHANGED <<buf, inCharQuote, inStringQuote>>
  PROVE  IInv'
<1>1. /\ address \in Seq(Char) /\ Len(address) \in Nat /\ i \in 2..Len(address)
      /\ Len(address) <= MaxAddress
      /\ buf \in Seq(Char) /\ Len(buf) \in Nat /\ Len(buf) <= i - 1
      /\ labelLen = 0
  BY DEF IInv, TypeOK, LocalInv
<1>2. /\ domain' \in Seq(Char) /\ Len(domain') = Len(address) - i
  BY <1>1
<1>3. "." \in Char
  BY DEF Char
<1>4. TypeOK'
  BY <1>1, <1>2, <1>3, LimitsNat DEF IInv, TypeOK, label
<1>5. \E at \in Nat : CutAt(at)'
  <2>1. PICK at \in Nat : at = i
    BY <1>1
  <2>2. Plain(address) => /\ Len(buf) = at - 1
                          /\ \A p \in 1..at - 1 : buf[p] = address[p] /\ address[p] \in PlainChar
    BY <2>1 DEF IInv, LocalInv
  <2>3. CutAt(at)'
    BY <1>1, <2>1, <2>2 DEF CutAt, Plain
  <2>. QED BY <2>3
<1>6. DomainInv'
  <2>1. Len(Checked') \in Nat /\ labelLen' = 0
    BY <1>1, <1>2, <1>4, CheckedTypes DEF label
  <2>. QED BY <1>1, <1>5, <2>1 DEF DomainInv
<1>7. StartInv' /\ LocalInv'
  BY DEF StartInv, LocalInv
<1>. QED BY <1>4, <1>6, <1>7 DEF IInv

(* Every turn of the loop, and its end.                                      *)
LEMMA LocalIInv ==
  ASSUME IInv,
         \/ unquoted \/ period \/ backslash \/ doubleQuote \/ atSign
         \/ nonAscii \/ other \/ noDomain
  PROVE  IInv'
<1>1. CASE Refused /\ UNCHANGED <<address, label>>
  BY <1>1, RejectIInv DEF Refused
<1>2. CASE unquoted
  BY <1>2, WriteIInv DEF unquoted, Reads, PlainChar
<1>3. CASE period
  BY <1>1, <1>3, WriteIInv DEF period, Reads, PlainChar
<1>4. Plain(address) /\ phase = "local" => ~Quoted
  BY DEF IInv, LocalInv, Quoted
<1>5. ASSUME NEW chars, Reads(chars)
      PROVE  /\ phase = "local" /\ i <= Len(address) /\ address[i] \in chars
             /\ i \in 1..Len(address) /\ UNCHANGED <<address, label>>
  BY <1>5 DEF Reads, IInv, LocalInv, TypeOK
<1>6. ASSUME NEW c, Reads({c})
      PROVE  Contains(address, c)
  BY <1>5, <1>6 DEF Contains
<1>7. CASE backslash
  <2>1. ~Plain(address)
    BY <1>7, <1>6 DEF backslash, Plain
  <2>2. inStringQuote \in BOOLEAN
    BY DEF IInv, TypeOK
  <2>. QED BY <1>5, <1>7, <2>1, <2>2, QuoteIInv DEF backslash
<1>8. CASE doubleQuote
  <2>0. Reads({"\""})
    BY <1>8 DEF doubleQuote
  <2>1. ~Plain(address)
    BY <1>6, <2>0 DEF Plain
  <2>2. inStringQuote \in BOOLEAN /\ inCharQuote \in BOOLEAN
    BY DEF IInv, TypeOK
  <2>3. CASE Write
    BY <1>5, <2>0, <2>1, <2>3, WriteIInv
  <2>4. CASE inStringQuote' = ~inStringQuote /\ Goes /\ UNCHANGED <<buf, inCharQuote, domain>>
    BY <1>5, <2>0, <2>1, <2>2, <2>4, QuoteIInv
  <2>5. CASE Refused
    BY <1>1, <1>5, <2>0, <2>5
  <2>. QED BY <1>8, <2>3, <2>4, <2>5 DEF doubleQuote
<1>9. CASE atSign
  <2>0. Reads({"@"})
    BY <1>9 DEF atSign
  <2>1. CASE Quoted /\ Write
    BY <1>4, <1>5, <2>0, <2>1, WriteIInv
  <2>2. CASE Refused
    BY <1>1, <1>5, <2>0, <2>2
  <2>3. CASE /\ i - 1 <= MaxLocal
             /\ phase' = "domain"
             /\ domain' = SubSeq(address, i + 1, Len(address))
             /\ i' = 1 /\ prev' = "."
             /\ UNCHANGED <<buf, inCharQuote, inStringQuote>>
    BY <1>5, <2>0, <2>3, AtSignIInv
  <2>. QED BY <1>9, <2>1, <2>2, <2>3 DEF atSign
<1>10. CASE nonAscii
  BY <1>1, <1>5, <1>10 DEF nonAscii
<1>11. CASE other
  <2>0. Reads(Others)
    BY <1>11 DEF other
  <2>1. CASE Quoted /\ Write
    BY <1>4, <1>5, <2>0, <2>1, WriteIInv
  <2>2. CASE Refused
    BY <1>1, <1>5, <2>0, <2>2
  <2>. QED BY <1>11, <2>1, <2>2 DEF other
<1>12. CASE noDomain
  BY <1>1, <1>12 DEF noDomain
<1>. QED BY <1>2, <1>3, <1>7, <1>8, <1>9, <1>10, <1>11, <1>12

-----------------------------------------------------------------------------
(* The domain.                                                               *)

(* A turn that goes on.                                                      *)
LEMMA TurnIInv ==
  ASSUME IInv, NEW chars \in SUBSET DomainChar, Sees(chars), Turn,
         hasAlphaNum' \in BOOLEAN,
         \/ UNCHANGED labelLen
         \/ labelLen' = 0
         \/ labelLen' = labelLen + 1 /\ Checked[i] # "."
  PROVE  IInv'
<1>0. TypeOK
  BY DEF IInv
<1>1. /\ phase = "domain" /\ Len(domain) \in 1..MaxDomain /\ i <= Len(Checked)
      /\ Checked[i] \in DomainChar /\ UNCHANGED <<address, local>>
      /\ phase' = "domain" /\ i' = i + 1 /\ prev' = Checked[i]
  BY DEF Sees, Turn
<1>2. /\ Len(address) <= MaxAddress /\ Len(address) \in Nat
      /\ i \in 1..Len(Checked) + 1
      /\ labelLen \in 0..MaxDomain /\ labelLen <= i - 1
      /\ \A p \in 1..i - 1 : Checked[p] \in DomainChar
  BY <1>0, <1>1 DEF IInv, DomainInv, TypeOK
<1>3. PICK at \in Nat : CutAt(at)
  BY <1>1 DEF IInv, DomainInv
<1>4. Len(domain) \in Nat /\ Len(domain) + 2 <= MaxAddress
  <2>1. at \in 2..Len(address) /\ domain = SubSeq(address, at + 1, Len(address))
    BY <1>3 DEF CutAt
  <2>2. address \in Seq(Char)
    BY <1>0 DEF TypeOK
  <2>3. Len(domain) = Len(address) - at
    BY <1>2, <2>1, <2>2
  <2>. QED BY <1>2, <2>1, <2>3, LimitsNat
<1>5. Len(Checked) \in {Len(domain), Len(domain) + 1}
  BY <1>0, CheckedTypes
<1>6. labelLen' \in 0..MaxDomain /\ labelLen' <= i' - 1
  <2>1. CASE labelLen' = labelLen + 1 /\ Checked[i] # "."
    <3>1. i <= Len(domain)
      BY <1>0, <1>1, <1>2, <1>4, <1>5, <2>1, CheckedTypes
    <3>. QED BY <1>1, <1>2, <1>4, <2>1, <3>1, LimitsNat
  <2>. QED BY <1>1, <1>2, <2>1, LimitsNat
<1>7. i' \in 1..Len(Checked) + 1 /\ i' \in 1..(MaxAddress + 1)
  BY <1>1, <1>2, <1>4, <1>5, LimitsNat
<1>8. Checked' = Checked
  BY <1>1 DEF Checked, local
<1>9. TypeOK'
  <2>1. prev' \in Char
    BY <1>1, Alphabet
  <2>2. UNCHANGED <<address, buf, inCharQuote, inStringQuote, domain>>
    BY <1>1 DEF local
  <2>. QED BY <1>0, <1>1, <1>6, <1>7, <2>1, <2>2 DEF TypeOK
<1>10. CutAt(at)'
  BY <1>1, <1>3 DEF CutAt, local, Plain
<1>11. \A p \in 1..i' - 1 : Checked[p] \in DomainChar
  BY <1>1, <1>2
<1>X. DomainInv'
  BY <1>1, <1>2, <1>6, <1>7, <1>8, <1>10, <1>11 DEF DomainInv
<1>13. StartInv' /\ LocalInv'
  BY <1>1 DEF StartInv, LocalInv
<1>. QED BY <1>9, <1>X, <1>13 DEF IInv

(* Every turn of the loop, and its end.                                      *)
LEMMA DomainIInv == IInv /\ ValidateDomainPart => IInv'
<1>. SUFFICES ASSUME IInv, ValidateDomainPart PROVE IInv'
  OBVIOUS
<1>0. "." \notin Letters /\ "-" \notin Letters
  BY AddressAssumption
<1>1. CASE Fails /\ UNCHANGED <<address, local>>
  BY <1>1, RejectIInv DEF Fails
<1>2. CASE badLength
  BY <1>2, RejectIInv DEF badLength, Reject
<1>3. CASE alphaNum
  <2>1. Letters \in SUBSET DomainChar
    BY DEF DomainChar
  <2>2. Checked[i] # "."
    BY <1>0, <1>3 DEF alphaNum, Sees
  <2>. QED BY <1>3, <2>1, <2>2, TurnIInv DEF alphaNum
<1>4. CASE hyphen
  <2>1. {"-"} \in SUBSET DomainChar
    BY DEF DomainChar
  <2>2. hasAlphaNum \in BOOLEAN
    BY DEF IInv, TypeOK
  <2>3. CASE Fails
    BY <1>1, <1>4, <2>3 DEF hyphen, Sees
  <2>4. CASE Turn /\ UNCHANGED label
    BY <1>4, <2>1, <2>2, <2>4, TurnIInv DEF hyphen, label
  <2>. QED BY <1>4, <2>3, <2>4 DEF hyphen
<1>5. CASE dot
  <2>1. {"."} \in SUBSET DomainChar
    BY DEF DomainChar
  <2>2. CASE Fails
    BY <1>1, <1>5, <2>2 DEF dot, Sees
  <2>3. CASE labelLen' = 0 /\ hasAlphaNum' = FALSE /\ Turn
    BY <1>5, <2>1, <2>3, TurnIInv DEF dot
  <2>. QED BY <1>5, <2>2, <2>3 DEF dot
<1>6. CASE unknown
  BY <1>1, <1>6 DEF unknown, Sees
<1>7. CASE valid
  <2>1. UNCHANGED <<address, i, prev, local, label>> /\ phase = "domain"
        /\ phase' = "accepted" /\ i > Len(Checked)
    BY <1>7 DEF valid
  <2>2. TypeOK'
    BY <2>1 DEF IInv, TypeOK, local, label
  <2>3. Checked' = Checked
    BY <2>1 DEF Checked, local
  <2>4. \A at \in Nat : CutAt(at) => CutAt(at)'
    BY <2>1 DEF CutAt, local, Plain
  <2>5. DomainInv'
    BY <2>1, <2>3, <2>4 DEF IInv, DomainInv, label
  <2>6. StartInv' /\ LocalInv'
    BY <2>1 DEF StartInv, LocalInv
  <2>. QED BY <2>2, <2>5, <2>6 DEF IInv
<1>. QED BY <1>2, <1>3, <1>4, <1>5, <1>6, <1>7 DEF ValidateDomainPart

-----------------------------------------------------------------------------
(* Every step keeps the invariant.                                           *)
LEMMA NextIInv == IInv /\ [Next]_vars => IInv'
<1>. SUFFICES ASSUME IInv, [Next]_vars PROVE IInv'
  OBVIOUS
<1>1. CASE UNCHANGED vars
  <2>1. Checked' = Checked
    BY <1>1 DEF vars, Checked
  <2>2. \A at \in Nat : CutAt(at) => CutAt(at)'
    BY <1>1 DEF vars, CutAt, Plain
  <2>3. DomainInv'
    BY <1>1, <2>1, <2>2 DEF vars, IInv, DomainInv
  <2>. QED BY <1>1, <2>3 DEF vars, IInv, TypeOK, StartInv, LocalInv, Plain
<1>2. CASE ParseEmailAddress
  BY <1>2, EnterIInv, LocalIInv DEF ParseEmailAddress
<1>3. CASE ValidateDomainPart
  BY <1>3, DomainIInv
<1>. QED BY <1>1, <1>2, <1>3 DEF Next

(* The invariant holds in every state.                                       *)
THEOREM Inductive == Spec => []IInv
  BY InitIInv, NextIInv, PTL DEF Spec

(* The variables keep their types: labelLen and the two positions stay       *)
(* within the limits on the address and its parts.                           *)
THEOREM TypeCorrect == Spec => []TypeOK
<1>1. IInv => TypeOK
  BY DEF IInv
<1>. QED BY <1>1, Inductive, PTL

-----------------------------------------------------------------------------
(* The other readers.                                                        *)

(* A string is cut at the first place that holds the character.              *)
LEMMA CutFirst ==
  ASSUME NEW s, NEW c, NEW at \in Nat, at \in DOMAIN s, s[at] = c,
         DOMAIN s \subseteq Nat, \A p \in DOMAIN s : s[p] = c => at <= p
  PROVE  Cut(s, c) = <<SubSeq(s, 1, at - 1), SubSeq(s, at + 1, Len(s))>>
<1>. DEFINE P == Positions(s, {c})
<1>1. at \in P /\ P \subseteq Nat /\ \A q \in P : at <= q
  BY DEF Positions
<1>2. \A p \in P : (\A q \in P : p <= q) => p = at
  BY <1>1
<1>. HIDE DEF P
<1>3. (CHOOSE p \in P : \A q \in P : p <= q) = at
  BY <1>1, <1>2
<1>. QED BY <1>3 DEF Cut, P

(* What the invariant says of an accepted address without quotes.            *)
LEMMA AcceptedIsCut ==
  ASSUME IInv, phase = "accepted", Plain(address)
  PROVE  \E at \in 1..Len(address) :
           /\ address[at] = "@"
           /\ buf = SubSeq(address, 1, at - 1)
           /\ domain = SubSeq(address, at + 1, Len(address))
           /\ \A p \in 1..Len(address) :
                p # at => address[p] \in PlainChar \cup DomainChar
           /\ \A p \in 1..Len(domain) : domain[p] \in DomainChar
<1>0. TypeOK
  BY DEF IInv
<1>1. PICK at \in Nat : CutAt(at)
  BY DEF IInv, DomainInv
<1>2. /\ address \in Seq(Char) /\ Len(address) \in Nat
      /\ buf \in Seq(Char) /\ domain \in Seq(Char)
  BY <1>0 DEF TypeOK
<1>3. /\ at \in 2..Len(address) /\ address[at] = "@"
      /\ domain = SubSeq(address, at + 1, Len(address))
      /\ Len(buf) = at - 1
      /\ \A p \in 1..at - 1 : buf[p] = address[p] /\ address[p] \in PlainChar
  BY <1>1 DEF CutAt
<1>4. buf = SubSeq(address, 1, at - 1)
  <2>1. Len(SubSeq(address, 1, at - 1)) = at - 1
    BY <1>2, <1>3
  <2>2. \A p \in 1..at - 1 : SubSeq(address, 1, at - 1)[p] = buf[p]
    BY <1>2, <1>3
  <2>. QED BY <1>2, <1>3, <2>1, <2>2
<1>5. \A p \in 1..Len(domain) : domain[p] \in DomainChar
  <2>1. /\ i > Len(Checked) /\ i \in 1..Len(Checked) + 1
        /\ \A p \in 1..i - 1 : Checked[p] \in DomainChar
    BY DEF IInv, DomainInv
  <2>2. /\ Len(Checked) \in {Len(domain), Len(domain) + 1}
        /\ \A p \in 1..Len(domain) : Checked[p] = domain[p]
    BY <1>0, CheckedTypes
  <2>3. Len(domain) \in Nat
    BY <1>2
  <2>. QED BY <2>1, <2>2, <2>3
<1>6. ASSUME NEW p \in 1..Len(address), p # at
      PROVE  address[p] \in PlainChar \cup DomainChar
  <2>1. CASE p < at
    BY <1>3, <2>1
  <2>2. CASE p > at
    <3>1. p - at \in 1..Len(domain) /\ domain[p - at] = address[p]
      BY <1>2, <1>3, <2>2
    <3>. QED BY <1>5, <3>1
  <2>. QED BY <1>3, <1>6, <2>1, <2>2
<1>7. at \in 1..Len(address)
  BY <1>3
<1>. WITNESS at \in 1..Len(address)
<1>. QED BY <1>3, <1>4, <1>5, <1>6

(* The saver and the mailer read an accepted address without quotes as the   *)
(* parser has read it (message.go:145, mailer.go:54).                        *)
THEOREM ReadersCorrect == Spec => []ReadersAgree
<1>1. ASSUME IInv, phase = "accepted", Plain(address)
      PROVE  /\ PathFromString(address) = [mailbox |-> buf, domain |-> domain]
             /\ LookupHost(address) = domain
  <2>1. PICK at \in 1..Len(address) :
          /\ address[at] = "@"
          /\ buf = SubSeq(address, 1, at - 1)
          /\ domain = SubSeq(address, at + 1, Len(address))
          /\ \A p \in 1..Len(address) :
               p # at => address[p] \in PlainChar \cup DomainChar
          /\ \A p \in 1..Len(domain) : domain[p] \in DomainChar
    BY <1>1, AcceptedIsCut
  <2>2. DOMAIN address = 1..Len(address) /\ at \in Nat
    BY <1>1 DEF IInv, TypeOK
  <2>3. \A p \in 1..Len(address) : address[p] = "@" => p = at
    BY <2>1, Alphabet
  <2>4. Cut(address, "@") = <<buf, domain>>
    <3>1. \A p \in DOMAIN address : address[p] = "@" => at <= p
      BY <2>2, <2>3
    <3>. QED BY <2>1, <2>2, <3>1, CutFirst
  <2>5. ~Contains(address, ":")
    <3>1. \A p \in 1..Len(address) : address[p] # ":"
      BY <2>1, Alphabet
    <3>. QED BY <3>1 DEF Contains
  <2>6. Contains(address, "@")
    BY <2>1 DEF Contains
  <2>7. ~Contains(domain, "@")
    BY <2>1, Alphabet DEF Contains
  <2>. QED BY <2>4, <2>5, <2>6, <2>7 DEF PathFromString, LookupHost
<1>2. IInv => ReadersAgree
  BY <1>1 DEF ReadersAgree
<1>. QED BY <1>2, Inductive, PTL

-----------------------------------------------------------------------------
(* Least elements, for the first "@" and the next dot.                       *)

(* A set of natural numbers has a least element: the intervals 0..x for its  *)
(* members are finite sets, which strict inclusion orders well.              *)
LEMMA Least ==
  ASSUME NEW T \in SUBSET Nat, T # {}
  PROVE  \E x \in T : \A y \in T : x <= y
<1>. DEFINE D == {0 .. x : x \in T}
<1>1. IsWellFoundedOn(StrictSubsetOrdering(Nat), FiniteSubsetsOf(Nat))
  BY FS_StrictSubsetOrderingWellFounded
<1>2. D \subseteq FiniteSubsetsOf(Nat)
  <2>1. ASSUME NEW x \in T
        PROVE  IsFiniteSet(0 .. x) /\ 0 .. x \in SUBSET Nat
    BY FS_Interval
  <2>. QED BY <2>1 DEF FiniteSubsetsOf
<1>3. D # {}
  OBVIOUS
<1>. HIDE DEF D
<1>4. PICK d \in D : \A e \in D : <<e, d>> \notin StrictSubsetOrdering(Nat)
  BY <1>1, <1>2, <1>3, WFMin
<1>5. PICK x \in T : d = 0 .. x
  BY <1>4 DEF D
<1>6. ASSUME NEW y \in T, y < x
      PROVE  FALSE
  <2>1. 0 .. y \in D
    BY DEF D
  <2>2. x \in 0 .. x /\ x \notin 0 .. y
    BY <1>6
  <2>3. <<0 .. y, 0 .. x>> \in StrictSubsetOrdering(Nat)
    BY <1>6, <2>2 DEF StrictSubsetOrdering
  <2>. QED BY <2>1, <2>3, <1>4, <1>5
<1>. QED BY <1>6

-----------------------------------------------------------------------------
(* The domain loop decides what the labels say.                              *)

(* The letters among the characters in the places d+1..n of s.               *)
LettersIn(s, d, n) == {p \in (d + 1)..n : s[p] \in Letters}

(* The characters between the places p and q of s are a label.               *)
LabelAt(s, p, q) ==
  /\ p + 1 < q
  /\ \A r \in (p + 1)..(q - 1) : s[r] \in Letters \cup {"-"}
  /\ s[p + 1] # "-" /\ s[q - 1] # "-"
  /\ Cardinality(LettersIn(s, p, q - 1)) <= MaxLabel

(* A dot of s, or the place before its first character; and the next dot.    *)
IsDot(s, p) == p = 0 \/ (p \in 1..Len(s) /\ s[p] = ".")
NextDot(s, p, q) ==
  /\ p \in 0..Len(s) /\ IsDot(s, p)
  /\ q \in (p + 1)..Len(s) /\ s[q] = "."
  /\ \A r \in (p + 1)..(q - 1) : s[r] # "."

(* The letters of a part of s are those of s in its places.                  *)
LEMMA LettersOfPart ==
  ASSUME NEW s \in Seq(Char), NEW p \in 0..Len(s), NEW q \in 1..Len(s), p < q
  PROVE  /\ IsFiniteSet(LettersIn(s, p, q - 1))
         /\ Cardinality(Positions(SubSeq(s, p + 1, q - 1), Letters))
              = Cardinality(LettersIn(s, p, q - 1))
<1>. DEFINE t == SubSeq(s, p + 1, q - 1)
            S == LettersIn(s, p, q - 1)
            T == Positions(t, Letters)
            f == [r \in S |-> r - p]
<1>1. IsFiniteSet(S)
  <2>1. IsFiniteSet((p + 1)..(q - 1))
    BY FS_Interval
  <2>. QED BY <2>1, FS_Subset DEF LettersIn
<1>2. /\ t \in Seq(Char) /\ Len(t) = q - 1 - p
      /\ \A r \in 1..Len(t) : t[r] = s[r + p]
  OBVIOUS
<1>3. \A r \in S : r \in Int
  BY DEF LettersIn
<1>4. T = {r \in 1..(q - 1 - p) : s[r + p] \in Letters}
  BY <1>2 DEF Positions
<1>5. \A r \in S : r - p \in T
  BY <1>4 DEF LettersIn
<1>6. \A r \in T : r + p \in S /\ f[r + p] = r
  BY <1>4 DEF LettersIn
<1>7. f \in Bijection(S, T)
  <2>1. f \in [S -> T]
    BY <1>5
  <2>2. \A a, b \in S : f[a] = f[b] => a = b
    BY <1>3
  <2>3. \A r \in T : \E a \in S : f[a] = r
    BY <1>6
  <2>. HIDE DEF f, S, T
  <2>. QED BY <2>1, <2>2, <2>3 DEF Bijection, Injection, Surjection, IsInjective
<1>. QED BY <1>1, <1>7, FS_Bijection DEF ExistsBijection

(* A part of s is a label if its characters are one.                         *)
LEMMA LabelOfPart ==
  ASSUME NEW s \in Seq(Char), NEW p \in 0..Len(s), NEW q \in 1..Len(s), p < q
  PROVE  IsLabel(SubSeq(s, p + 1, q - 1)) <=> LabelAt(s, p, q)
<1>. DEFINE t == SubSeq(s, p + 1, q - 1)
<1>1. /\ t \in Seq(Char) /\ Len(t) = q - 1 - p
      /\ \A r \in 1..Len(t) : t[r] = s[r + p]
  OBVIOUS
<1>2. Cardinality(Positions(t, Letters)) = Cardinality(LettersIn(s, p, q - 1))
  BY LettersOfPart
<1>. HIDE DEF t
<1>3. t # <<>> <=> p + 1 < q
  BY <1>1
<1>4. CASE p + 1 < q
  <2>1. Head(t) = s[p + 1] /\ Last(t) = s[q - 1]
    BY <1>1, <1>4 DEF Last
  <2>2. ToSet(t) \subseteq Letters \cup {"-"}
          <=> \A r \in (p + 1)..(q - 1) : s[r] \in Letters \cup {"-"}
    <3>1. \A r \in (p + 1)..(q - 1) : r - p \in 1..Len(t) /\ t[r - p] = s[r]
      BY <1>1, <1>4
    <3>2. \A r \in 1..Len(t) : r + p \in (p + 1)..(q - 1)
      BY <1>1, <1>4
    <3>3. ToSet(t) = {t[r] : r \in 1..Len(t)}
      BY <1>1 DEF ToSet
    <3>4. ToSet(t) \subseteq Letters \cup {"-"}
            <=> \A r \in 1..Len(t) : t[r] \in Letters \cup {"-"}
      BY <3>3
    <3>. QED BY <1>1, <3>1, <3>2, <3>4
  <2>. QED BY <1>2, <1>3, <1>4, <2>1, <2>2 DEF IsLabel, LabelAt, t
<1>5. CASE ~(p + 1 < q)
  BY <1>3, <1>5 DEF IsLabel, LabelAt, t
<1>. QED BY <1>4, <1>5

(* A domain is one if every two neighbouring dots enclose a label.           *)
LEMMA DomainByLabels ==
  ASSUME TypeOK, domain # <<>>
  PROVE  IsDomain(domain) <=>
           /\ Len(domain) \in 1..MaxDomain
           /\ \A p, q \in Nat : NextDot(Checked, p, q) => LabelAt(Checked, p, q)
<1>. DEFINE Dots == {0} \cup Positions(Checked, {"."})
<1>1. Checked \in Seq(Char) /\ Len(Checked) \in Nat
  BY CheckedTypes
<1>2. \A p : p \in Dots <=> p \in 0..Len(Checked) /\ IsDot(Checked, p)
  BY <1>1 DEF Positions, IsDot
<1>. HIDE DEF Dots
<1>3. \A p, q \in Nat :
        NextDot(Checked, p, q) <=>
          p \in Dots /\ q \in Dots /\ p < q /\ \A r \in Dots : r <= p \/ q <= r
  BY <1>1, <1>2 DEF NextDot, IsDot
<1>4. \A p, q \in Nat : NextDot(Checked, p, q) =>
        (IsLabel(SubSeq(Checked, p + 1, q - 1)) <=> LabelAt(Checked, p, q))
  BY <1>1, LabelOfPart DEF NextDot
<1>5. Dots \subseteq Nat
  BY <1>1, <1>2
<1>6. IsDomain(domain) <=>
        /\ Len(domain) \in 1..MaxDomain
        /\ \A p, q \in Dots :
             (p < q /\ \A r \in Dots : r <= p \/ q <= r)
               => IsLabel(SubSeq(Checked, p + 1, q - 1))
  BY DEF IsDomain, Checked, Dots
<1>. QED BY <1>3, <1>4, <1>5, <1>6


(* What the loop knows when the label it reads began after the place d: prev *)
(* is the last character, labelLen and hasAlphaNum say what letters there    *)
(* were, and whatever lies between two dots up to d is a label.              *)
Scanned(d) ==
  /\ d \in 0..(i - 1) /\ IsDot(Checked, d)
  /\ prev = IF i = 1 THEN "." ELSE Checked[i - 1]
  /\ \A r \in (d + 1)..(i - 1) : Checked[r] \in Letters \cup {"-"}
  /\ d + 1 < i => Checked[d + 1] # "-"
  /\ labelLen = Cardinality(LettersIn(Checked, d, i - 1))
  /\ hasAlphaNum <=> LettersIn(Checked, d, i - 1) # {}
  /\ \A p, q \in Nat :
       NextDot(Checked, p, q) /\ q <= d => LabelAt(Checked, p, q)

(* The domain is empty until the "@" has been found; its loop is described   *)
(* by Scanned, and what it has decided is right.                             *)
ScanInv ==
  /\ phase \in {"start", "local"} =>
       domain = <<>> /\ ~hasAlphaNum
  /\ phase = "domain" /\ domain # <<>> => \E d \in Nat : Scanned(d)
  /\ DomainDecided


(* The dot and the hyphen are not letters.                                   *)
LEMMA DotAndHyphen == "." \notin Letters \cup {"-"} /\ "-" \notin Letters
  BY AddressAssumption

(* What is checked ends in a dot.                                            *)
LEMMA EndsInDot ==
  ASSUME TypeOK, domain # <<>>
  PROVE  Checked[Len(Checked)] = "." /\ Len(Checked) > 0
<1>1. domain \in Seq(Char) /\ Len(domain) \in Nat /\ Len(domain) # 0
  BY DEF TypeOK
<1>2. CASE Last(domain) = "."
  BY <1>1, <1>2 DEF Checked, Last
<1>3. CASE Last(domain) # "."
  <2>1. "." \in Char
    BY DEF Char
  <2>2. Checked = Append(domain, ".")
    BY <1>3 DEF Checked
  <2>. QED BY <1>1, <2>1, <2>2
<1>. QED BY <1>2, <1>3

(* So every dot but the last has a next one.                                 *)
LEMMA DotFollows ==
  ASSUME TypeOK, domain # <<>>, NEW p \in Nat, p < Len(Checked), IsDot(Checked, p)
  PROVE  \E q \in Nat : NextDot(Checked, p, q)
<1>. DEFINE T == {q \in (p + 1)..Len(Checked) : Checked[q] = "."}
<1>1. Len(Checked) \in Nat
  BY CheckedTypes
<1>2. Len(Checked) \in T /\ T \in SUBSET Nat
  BY <1>1, EndsInDot
<1>3. PICK q \in T : \A r \in T : q <= r
  BY <1>2, Least
<1>4. \A r \in (p + 1)..(q - 1) : Checked[r] # "."
  BY <1>1, <1>2, <1>3
<1>5. NextDot(Checked, p, q)
  BY <1>1, <1>3, <1>4 DEF NextDot
<1>. QED BY <1>2, <1>5

(* Where the loop is.                                                        *)
LEMMA ScanFacts ==
  ASSUME IInv, NEW d \in Nat, Scanned(d), phase = "domain"
  PROVE  /\ TypeOK /\ Checked \in Seq(Char) /\ Len(Checked) \in Nat
         /\ i \in 1..(Len(Checked) + 1) /\ d \in 0..(i - 1)
         /\ d + 1 = i <=> prev = "."
         /\ \A r \in (d + 1)..(i - 1) : Checked[r] # "."
         /\ IsFiniteSet(LettersIn(Checked, d, i - 1))
         /\ Cardinality(LettersIn(Checked, d, i - 1)) \in Nat
<1>1. TypeOK /\ i \in 1..(Len(Checked) + 1)
  BY DEF IInv, DomainInv
<1>2. Checked \in Seq(Char) /\ Len(Checked) \in Nat
  BY <1>1, CheckedTypes
<1>3. \A r \in (d + 1)..(i - 1) : Checked[r] # "."
  BY DotAndHyphen DEF Scanned
<1>4. d + 1 = i <=> prev = "."
  BY <1>1, <1>2, <1>3 DEF Scanned, IsDot
<1>5. IsFiniteSet(LettersIn(Checked, d, i - 1))
  <2>1. IsFiniteSet((d + 1)..(i - 1))
    BY <1>1, <1>2, FS_Interval
  <2>. QED BY <2>1, FS_Subset DEF LettersIn
<1>6. Cardinality(LettersIn(Checked, d, i - 1)) \in Nat
  BY <1>5, FS_CardinalityType
<1>. QED BY <1>1, <1>2, <1>3, <1>4, <1>5, <1>6 DEF Scanned

-----------------------------------------------------------------------------
(* One turn of the loop.                                                     *)

(* The loop begins with the first label.                                     *)
LEMMA ScanBegins ==
  ASSUME i' = 1, prev' = ".", labelLen' = 0, hasAlphaNum' = FALSE
  PROVE  Scanned(0)'
<1>1. LettersIn(Checked, 0, i - 1)' = {}
  BY DEF LettersIn
<1>2. Cardinality({}) = 0
  BY FS_EmptySet
<1>3. \A p, q \in Nat : ~(NextDot(Checked', p, q) /\ q <= 0)
  BY DEF NextDot
<1>. QED BY <1>1, <1>2, <1>3 DEF Scanned, IsDot

(* A letter and a hyphen that is not the first lengthen the label.           *)
LEMMA ScanLengthens ==
  ASSUME IInv, NEW d \in Nat, Scanned(d), alphaNum \/ (hyphen /\ prev # ".")
  PROVE  Scanned(d)'
<1>. DEFINE L == LettersIn(Checked, d, i - 1)
<1>1. /\ phase = "domain" /\ i <= Len(Checked) /\ UNCHANGED local
      /\ Checked[i] \in Letters \cup {"-"}
      /\ i' = i + 1 /\ prev' = Checked[i] /\ Checked' = Checked
  BY DEF alphaNum, hyphen, Sees, Turn, Fails, Checked, local
<1>2. /\ i \in 1..Len(Checked) /\ Len(Checked) \in Nat /\ d \in 0..(i - 1)
      /\ d + 1 = i <=> prev = "."
      /\ IsFiniteSet(L) /\ Cardinality(L) \in Nat
  BY <1>1, ScanFacts
<1>3. LettersIn(Checked, d, i - 1)' = IF Checked[i] \in Letters THEN L \cup {i} ELSE L
  BY <1>1, <1>2 DEF LettersIn
<1>4. i \notin L
  BY <1>2 DEF LettersIn
<1>5. /\ labelLen' = Cardinality(LettersIn(Checked, d, i - 1)')
      /\ hasAlphaNum' <=> LettersIn(Checked, d, i - 1)' # {}
  <2>1. CASE alphaNum
    <3>1. Checked[i] \in Letters /\ labelLen' = labelLen + 1 /\ hasAlphaNum' = TRUE
      BY <2>1 DEF alphaNum, Sees
    <3>2. Cardinality(L \cup {i}) = Cardinality(L) + 1
      BY <1>2, <1>4, FS_AddElement
    <3>. QED BY <1>3, <3>1, <3>2 DEF Scanned
  <2>2. CASE hyphen /\ prev # "."
    <3>1. Checked[i] \notin Letters /\ UNCHANGED <<labelLen, hasAlphaNum>>
      BY <2>2, DotAndHyphen DEF hyphen, Sees, label, Fails
    <3>. QED BY <1>3, <3>1 DEF Scanned
  <2>. QED BY <2>1, <2>2
<1>6. d + 1 < i' => Checked'[d + 1] # "-"
  <2>1. CASE d + 1 = i
    <3>1. Checked[i] # "-"
      BY <1>2, <2>1, DotAndHyphen DEF alphaNum, Sees
    <3>. QED BY <1>1, <2>1, <3>1
  <2>2. CASE d + 1 # i
    BY <1>1, <1>2, <2>2 DEF Scanned
  <2>. QED BY <2>1, <2>2
<1>7. \A r \in (d + 1)..(i' - 1) : Checked'[r] \in Letters \cup {"-"}
  BY <1>1, <1>2 DEF Scanned
<1>8. d \in 0..(i' - 1) /\ prev' = IF i' = 1 THEN "." ELSE Checked'[i' - 1]
  BY <1>1, <1>2
<1>. QED BY <1>1, <1>5, <1>6, <1>7, <1>8 DEF Scanned

(* At a dot the label that was read, from the dot before it, is complete.    *)
LEMMA ScanLabel ==
  ASSUME IInv, NEW d \in Nat, Scanned(d), Sees({"."})
  PROVE  /\ NextDot(Checked, d, i) /\ i \in 1..Len(Checked)
         /\ LabelAt(Checked, d, i) <=>
              prev \notin {".", "-"} /\ labelLen <= MaxLabel /\ hasAlphaNum
<1>1. phase = "domain" /\ i <= Len(Checked) /\ Checked[i] = "."
  BY DEF Sees
<1>2. /\ i \in 1..Len(Checked) /\ Len(Checked) \in Nat /\ d \in 0..(i - 1)
      /\ d + 1 = i <=> prev = "."
      /\ \A r \in (d + 1)..(i - 1) : Checked[r] # "."
  BY <1>1, ScanFacts
<1>3. NextDot(Checked, d, i)
  BY <1>1, <1>2 DEF NextDot, Scanned
<1>4. CASE d + 1 = i
  BY <1>2, <1>3, <1>4 DEF LabelAt
<1>5. CASE d + 1 < i
  <2>1. prev = Checked[i - 1] /\ prev # "."
    BY <1>2, <1>5 DEF Scanned
  <2>2. Checked[d + 1] # "-" /\ d + 1 \in LettersIn(Checked, d, i - 1)
    BY <1>2, <1>5 DEF Scanned, LettersIn
  <2>3. hasAlphaNum
    BY <2>2 DEF Scanned
  <2>4. LabelAt(Checked, d, i) <=> Checked[i - 1] # "-" /\ labelLen <= MaxLabel
    BY <1>5, <2>2 DEF Scanned, LabelAt
  <2>. QED BY <1>2, <1>3, <2>1, <2>3, <2>4
<1>. QED BY <1>2, <1>3, <1>4, <1>5

(* A dot that is accepted begins the next label.                             *)
LEMMA ScanGoesOn ==
  ASSUME IInv, NEW d \in Nat, Scanned(d), dot, phase' = phase
  PROVE  \E e \in Nat : Scanned(e)'
<1>1. /\ phase = "domain" /\ Sees({"."}) /\ Checked[i] = "." /\ UNCHANGED local
      /\ prev \notin {".", "-"} /\ labelLen <= MaxLabel /\ hasAlphaNum
      /\ labelLen' = 0 /\ hasAlphaNum' = FALSE
      /\ i' = i + 1 /\ prev' = Checked[i] /\ Checked' = Checked
  BY DEF dot, Fails, Sees, Turn, Checked, local
<1>2. /\ i \in 1..Len(Checked) /\ Len(Checked) \in Nat /\ d \in 0..(i - 1)
      /\ \A r \in (d + 1)..(i - 1) : Checked[r] # "."
  BY <1>1, ScanFacts, ScanLabel
<1>3. LabelAt(Checked, d, i) /\ NextDot(Checked, d, i)
  BY <1>1, ScanLabel
<1>4. ASSUME NEW p \in Nat, NEW q \in Nat, NextDot(Checked, p, q), q <= i
      PROVE  LabelAt(Checked, p, q)
  <2>1. CASE q <= d
    BY <1>4, <2>1 DEF Scanned
  <2>2. CASE q > d
    <3>1. q = i
      BY <1>2, <1>4, <2>2 DEF NextDot
    <3>2. p = d
      BY <1>2, <1>3, <1>4, <3>1 DEF NextDot, IsDot
    <3>. QED BY <1>3, <3>1, <3>2
  <2>. QED BY <1>2, <1>4, <2>1, <2>2
<1>5. LettersIn(Checked, i, i' - 1) = {}
  BY <1>1, <1>2 DEF LettersIn
<1>6. Cardinality({}) = 0
  BY FS_EmptySet
<1>7. PICK e \in Nat : e = i
  BY <1>2
<1>8. Scanned(e)'
  <2>1. e \in 0..(i' - 1) /\ IsDot(Checked', e) /\ ~(e + 1 < i')
    BY <1>1, <1>2, <1>7 DEF IsDot
  <2>2. prev' = IF i' = 1 THEN "." ELSE Checked'[i' - 1]
    BY <1>1, <1>2
  <2>3. \A r \in (e + 1)..(i' - 1) : Checked'[r] \in Letters \cup {"-"}
    BY <1>1, <1>2, <1>7
  <2>4. LettersIn(Checked, e, i - 1)' = {}
    BY <1>1, <1>5, <1>7 DEF LettersIn
  <2>5. \A p, q \in Nat :
          NextDot(Checked', p, q) /\ q <= e => LabelAt(Checked', p, q)
    BY <1>1, <1>4, <1>7
  <2>. QED BY <1>1, <1>6, <2>1, <2>2, <2>3, <2>4, <2>5 DEF Scanned
<1>. QED BY <1>8

(* A domain with a label that is none is none.                               *)
LEMMA NotDomain ==
  ASSUME TypeOK, domain # <<>>, NEW p \in Nat, NEW q \in Nat,
         NextDot(Checked, p, q), ~LabelAt(Checked, p, q)
  PROVE  ~IsDomain(domain)
  BY DomainByLabels

(* What is refused is not a domain.                                          *)
LEMMA ScanRefuses ==
  ASSUME IInv, NEW d \in Nat, Scanned(d), domain # <<>>,
         \/ hyphen /\ prev = "."
         \/ unknown
         \/ dot /\ phase' = "rejected"
  PROVE  ~IsDomain(domain)
<1>1. /\ phase = "domain" /\ i <= Len(Checked)
  BY DEF hyphen, unknown, dot, Sees
<1>2. /\ TypeOK /\ i \in 1..Len(Checked) /\ Len(Checked) \in Nat /\ d \in 0..(i - 1)
      /\ d + 1 = i <=> prev = "."
      /\ \A r \in (d + 1)..(i - 1) : Checked[r] # "."
  BY <1>1, ScanFacts
<1>3. CASE dot /\ phase' = "rejected"
  <2>1. ~(prev \notin {".", "-"} /\ labelLen <= MaxLabel /\ hasAlphaNum)
    <3>1. labelLen \in Nat
      BY <1>2 DEF TypeOK
    <3>. QED BY <1>1, <1>3, <3>1, LimitsNat DEF dot, Turn
  <2>. QED BY <1>2, <1>3, <2>1, ScanLabel, NotDomain DEF dot
<1>4. CASE unknown \/ (hyphen /\ prev = ".")
  <2>1. Checked[i] # "."
    BY <1>4, DotAndHyphen DEF unknown, hyphen, Sees
  <2>2. PICK q \in Nat : NextDot(Checked, d, q)
    BY <1>2, DotFollows DEF Scanned
  <2>3. i \in (d + 1)..(q - 1)
    BY <1>2, <2>1, <2>2 DEF NextDot
  <2>4. Checked[i] \notin Letters \cup {"-"} \/ (d + 1 = i /\ Checked[i] = "-")
    BY <1>2, <1>4 DEF unknown, hyphen, Sees
  <2>5. ~LabelAt(Checked, d, q)
    BY <2>3, <2>4 DEF LabelAt
  <2>. QED BY <1>2, <2>2, <2>5, NotDomain
<1>. QED BY <1>3, <1>4

(* What is accepted is a domain.                                             *)
LEMMA ScanAccepts ==
  ASSUME IInv, NEW d \in Nat, Scanned(d), valid
  PROVE  IsDomain(domain)
<1>1. phase = "domain" /\ Len(domain) \in 1..MaxDomain /\ i > Len(Checked)
  BY DEF valid
<1>2. /\ TypeOK /\ Len(Checked) \in Nat /\ i = Len(Checked) + 1
      /\ d \in 0..(i - 1)
      /\ \A r \in (d + 1)..(i - 1) : Checked[r] # "."
  BY <1>1, ScanFacts
<1>3. domain # <<>>
  BY <1>1
<1>4. d = Len(Checked)
  BY <1>2, <1>3, EndsInDot
<1>5. \A p, q \in Nat : NextDot(Checked, p, q) => LabelAt(Checked, p, q)
  BY <1>2, <1>4 DEF NextDot, Scanned
<1>. QED BY <1>1, <1>2, <1>3, <1>5, DomainByLabels


(* Every step of the parser keeps the invariant of the domain loop.          *)
LEMMA InitScan == Init => ScanInv
  BY DEF Init, ScanInv, DomainDecided

(* Steps in the local part, which leave the domain empty or begin its loop.  *)
LEMMA LocalScan == IInv /\ ScanInv /\ ParseEmailAddress => ScanInv'
<1>. SUFFICES ASSUME IInv, ScanInv, ParseEmailAddress
              PROVE  ScanInv'
  OBVIOUS
<1>0. phase \in {"start", "local"} /\ domain = <<>> /\ ~hasAlphaNum
      /\ labelLen = 0 /\ UNCHANGED label
  BY DEF ParseEmailAddress, enter, Reject, unquoted, period, backslash,
         doubleQuote, atSign, nonAscii, other, noDomain, Reads, ScanInv, IInv,
         StartInv, LocalInv
<1>1. CASE phase' = "domain" /\ i' = 1 /\ prev' = "."
  <2>1. Scanned(0)'
    BY <1>0, <1>1, ScanBegins DEF label, IInv, TypeOK
  <2>. QED BY <1>1, <2>1 DEF ScanInv, DomainDecided
<1>2. CASE phase' \in {"local", "rejected"} /\ domain' = domain
  BY <1>0, <1>2 DEF ScanInv, DomainDecided, label
<1>3. CASE enter \/ noDomain
  BY <1>2, <1>3 DEF enter, noDomain, Refused, Reject, local
<1>4. CASE unquoted \/ period \/ other \/ nonAscii
  BY <1>2, <1>4 DEF unquoted, period, other, nonAscii, Reads, Write, Goes,
                    Refused, local
<1>5. CASE backslash \/ doubleQuote
  BY <1>2, <1>5 DEF backslash, doubleQuote, Reads, Write, Goes, Refused, local
<1>6. CASE atSign
  BY <1>1, <1>2, <1>6 DEF atSign, Reads, Write, Goes, Refused, local
<1>. QED BY <1>3, <1>4, <1>5, <1>6 DEF ParseEmailAddress

(* Turns of the domain loop and its end.                                     *)
LEMMA DomainScan == IInv /\ ScanInv /\ ValidateDomainPart => ScanInv'
<1>. SUFFICES ASSUME IInv, ScanInv, ValidateDomainPart
              PROVE  ScanInv'
  OBVIOUS
<1>1. phase = "domain" /\ domain' = domain
  BY DEF ValidateDomainPart, badLength, alphaNum, hyphen, dot, unknown, valid,
         Reject, Sees, local
<1>2. CASE badLength
  <2>1. phase' = "rejected" /\ ~IsDomain(domain)
    BY <1>2 DEF badLength, Reject, IsDomain
  <2>. QED BY <1>1, <2>1 DEF ScanInv, DomainDecided
<1>3. CASE ~badLength
  <2>1. domain # <<>>
    BY <1>3 DEF ValidateDomainPart, badLength, alphaNum, hyphen, dot, unknown,
                valid, Sees
  <2>2. PICK d \in Nat : Scanned(d)
    BY <1>1, <2>1 DEF ScanInv
  <2>3. CASE phase' = "rejected"
    <3>1. (hyphen /\ prev = ".") \/ unknown \/ (dot /\ phase' = "rejected")
      BY <1>1, <1>3, <2>3 DEF ValidateDomainPart, alphaNum, hyphen, valid, Turn
    <3>2. ~IsDomain(domain)
      BY <2>1, <2>2, <3>1, ScanRefuses
    <3>. QED BY <1>1, <2>3, <3>2 DEF ScanInv, DomainDecided
  <2>4. CASE phase' # "rejected" /\ ~valid
    <3>1. phase' = phase
      BY <1>1, <1>3, <2>4
         DEF ValidateDomainPart, alphaNum, hyphen, dot, unknown, Turn, Fails
    <3>2. \E e \in Nat : Scanned(e)'
      <4>1. alphaNum \/ (hyphen /\ prev # ".") \/ dot
        BY <1>3, <2>4 DEF ValidateDomainPart, hyphen, unknown, Fails
      <4>. QED BY <2>2, <3>1, <4>1, ScanLengthens, ScanGoesOn
    <3>. QED BY <1>1, <3>1, <3>2 DEF ScanInv, DomainDecided
  <2>5. CASE valid
    <3>1. IsDomain(domain) /\ phase' = "accepted"
      BY <2>2, <2>5, ScanAccepts DEF valid
    <3>. QED BY <1>1, <3>1 DEF ScanInv, DomainDecided
  <2>. QED BY <2>3, <2>4, <2>5
<1>. QED BY <1>2, <1>3

LEMMA NextScan == IInv /\ ScanInv /\ [Next]_vars => ScanInv'
<1>1. IInv /\ ScanInv /\ UNCHANGED vars => ScanInv'
  <2>. SUFFICES ASSUME ScanInv, UNCHANGED vars
                PROVE  ScanInv'
    OBVIOUS
  <2>1. Checked' = Checked
    BY DEF vars, Checked
  <2>2. \A d \in Nat : Scanned(d) => Scanned(d)'
    BY <2>1 DEF vars, Scanned
  <2>. QED BY <2>2 DEF vars, ScanInv, DomainDecided
<1>. QED BY <1>1, LocalScan, DomainScan DEF Next

(* The domain loop accepts the domains and refuses the rest, for quoted      *)
(* local parts too (utils.go:86-120).                                        *)
THEOREM DomainCorrect == Spec => []DomainDecided
<1>1. ScanInv => DomainDecided
  BY DEF ScanInv
<1>. QED BY Inductive, InitScan, NextScan, <1>1, PTL DEF Spec


-----------------------------------------------------------------------------
(* What quoting leaves of a local part, by recursion on its prefixes.        *)

(* The character in place p of s is part of the value.                       *)
Kept(s, p) ==
  \/ s[p] \notin {"\\", "\""}
  \/ s[p] = "\"" /\ p > 1 /\ s[p - 1] = "\\"

(* f[n] is what quoting leaves of the first n characters of s, n up to k.    *)
IsUpto(f, s, k) ==
  f = [n \in 0..k |-> IF n = 0 THEN <<>>
                      ELSE IF Kept(s, n) THEN Append(f[n - 1], s[n])
                      ELSE f[n - 1]]

(* There is such a function: the least length without one would be one more  *)
(* than a length that has one.                                               *)
LEMMA UptoExists ==
  ASSUME NEW s, NEW k \in Nat
  PROVE  \E f : IsUpto(f, s, k)
<1>. DEFINE T == {n \in Nat : ~\E f : IsUpto(f, s, n)}
<1>. SUFFICES ASSUME T # {}
              PROVE  FALSE
  OBVIOUS
<1>1. PICK n \in T : \A m \in T : n <= m
  BY Least
<1>2. n # 0
  <2>1. IsUpto([m \in 0..0 |-> <<>>], s, 0)
    BY DEF IsUpto
  <2>. QED BY <1>1, <2>1
<1>3. PICK f : IsUpto(f, s, n - 1)
  <2>1. n - 1 \in Nat /\ n - 1 \notin T
    BY <1>1, <1>2
  <2>. QED BY <2>1
<1>. DEFINE last == IF Kept(s, n) THEN Append(f[n - 1], s[n]) ELSE f[n - 1]
            g == [m \in 0..n |-> IF m = n THEN last ELSE f[m]]
<1>4. n \in Nat
  BY <1>1
<1>5. \A m \in 0..(n - 1) :
        f[m] = IF m = 0 THEN <<>>
               ELSE IF Kept(s, m) THEN Append(f[m - 1], s[m]) ELSE f[m - 1]
  BY <1>3 DEF IsUpto
<1>6. \A m \in 0..n :
        g[m] = IF m = 0 THEN <<>>
               ELSE IF Kept(s, m) THEN Append(g[m - 1], s[m]) ELSE g[m - 1]
  <2>. TAKE m \in 0..n
  <2>1. CASE m = n
    BY <1>2, <1>4, <2>1
  <2>2. CASE m # n
    BY <1>2, <1>4, <1>5, <2>2
  <2>. QED BY <2>1, <2>2
<1>7. IsUpto(g, s, n)
  BY <1>6 DEF IsUpto
<1>. QED BY <1>1, <1>7

(* It depends on no more of s than it describes.                             *)
LEMMA UptoUnique ==
  ASSUME NEW s, NEW t, NEW k \in Nat, NEW l \in Nat, NEW f, NEW g,
         IsUpto(f, s, k), IsUpto(g, t, l), k <= l,
         \A p \in 1..k : s[p] = t[p]
  PROVE  f[k] = g[k]
<1>. DEFINE T == {n \in 0..k : f[n] # g[n]}
<1>. SUFFICES ASSUME T # {}
              PROVE  FALSE
  OBVIOUS
<1>1. PICK n \in T : \A m \in T : n <= m
  <2>1. T \in SUBSET Nat
    OBVIOUS
  <2>. HIDE DEF T
  <2>. QED BY <2>1, Least
<1>2. \A m \in 0..k :
        /\ f[m] = IF m = 0 THEN <<>>
                  ELSE IF Kept(s, m) THEN Append(f[m - 1], s[m]) ELSE f[m - 1]
        /\ g[m] = IF m = 0 THEN <<>>
                  ELSE IF Kept(t, m) THEN Append(g[m - 1], t[m]) ELSE g[m - 1]
  <2>1. 0..k \subseteq 0..l
    OBVIOUS
  <2>. QED BY <2>1 DEF IsUpto
<1>3. n # 0 /\ n \in 1..k
  BY <1>1, <1>2
<1>4. f[n - 1] = g[n - 1]
  BY <1>1, <1>3
<1>5. Kept(s, n) <=> Kept(t, n)
  <2>1. s[n] = t[n] /\ (n > 1 => s[n - 1] = t[n - 1])
    BY <1>3
  <2>. QED BY <2>1 DEF Kept
<1>6. s[n] = t[n]
  BY <1>3
<1>. QED BY <1>1, <1>2, <1>3, <1>4, <1>5, <1>6

LEMMA UnescapedIs ==
  ASSUME NEW s, Len(s) \in Nat
  PROVE  \E f : IsUpto(f, s, Len(s)) /\ Unescaped(s) = f[Len(s)]
<1>. DEFINE f == CHOOSE f : IsUpto(f, s, Len(s))
<1>1. IsUpto(f, s, Len(s))
  BY UptoExists
<1>2. Unescaped(s) = f[Len(s)]
  BY DEF Unescaped, IsUpto, Kept
<1>. QED BY <1>1, <1>2

(* One character more leaves itself or nothing.                              *)
LEMMA UnescapedStep ==
  ASSUME NEW s \in Seq(Char), NEW n \in 1..Len(s)
  PROVE  Unescaped(SubSeq(s, 1, n)) =
           IF Kept(s, n) THEN Append(Unescaped(SubSeq(s, 1, n - 1)), s[n])
           ELSE Unescaped(SubSeq(s, 1, n - 1))
<1>. DEFINE t == SubSeq(s, 1, n)
            u == SubSeq(s, 1, n - 1)
<1>1. /\ Len(t) = n /\ \A p \in 1..n : t[p] = s[p]
      /\ Len(u) = n - 1 /\ \A p \in 1..(n - 1) : u[p] = s[p]
  OBVIOUS
<1>. HIDE DEF t, u
<1>2. PICK f : IsUpto(f, t, n) /\ Unescaped(t) = f[n]
  BY <1>1, UnescapedIs
<1>3. PICK g : IsUpto(g, u, n - 1) /\ Unescaped(u) = g[n - 1]
  BY <1>1, UnescapedIs
<1>4. f[n] = IF Kept(t, n) THEN Append(f[n - 1], t[n]) ELSE f[n - 1]
  <2>1. n \in 0..n /\ n # 0
    OBVIOUS
  <2>. QED BY <1>2, <2>1 DEF IsUpto
<1>5. g[n - 1] = f[n - 1]
  <2>1. PICK k \in Nat : k = n - 1
    OBVIOUS
  <2>2. n \in Nat /\ k <= n
    BY <2>1
  <2>3. \A p \in 1..k : u[p] = t[p]
    BY <1>1, <2>1
  <2>4. IsUpto(g, u, k) /\ IsUpto(f, t, n)
    BY <1>2, <1>3, <2>1
  <2>5. g[k] = f[k]
    BY <2>2, <2>3, <2>4, UptoUnique
  <2>. QED BY <2>1, <2>5
<1>6. Kept(t, n) <=> Kept(s, n)
  <2>1. t[n] = s[n] /\ (n > 1 => t[n - 1] = s[n - 1])
    BY <1>1
  <2>. QED BY <2>1 DEF Kept
<1>. QED BY <1>1, <1>2, <1>3, <1>4, <1>5, <1>6 DEF t, u

LEMMA UnescapedEmpty == Unescaped(<<>>) = <<>>
<1>1. PICK f : IsUpto(f, <<>>, 0) /\ Unescaped(<<>>) = f[0]
  BY UnescapedIs
<1>. QED BY <1>1 DEF IsUpto

-----------------------------------------------------------------------------
(* The value of the local part.                                              *)

(* inCharQuote remembers whether the last character was a backslash, and     *)
(* what has been written is what quoting leaves of what has been read.       *)
ValueInv ==
  /\ phase = "local" =>
       /\ inCharQuote <=> i > 1 /\ address[i - 1] = "\\"
       /\ buf = Unescaped(SubSeq(address, 1, i - 1))
  /\ LocalUnescaped


(* Only a backslash or a double quote is left out.                           *)
LEMMA QuotesAreApart ==
  Unquoted \cup Others \cup {".", "@"} \subseteq Char \ {"\\", "\""}
  BY AddressAssumption DEF Unquoted, Char

(* A character that is read is kept as Kept says.                            *)
LEMMA ValueStep ==
  ASSUME IInv, ValueInv, phase = "local", i <= Len(address),
         phase' = "local", UNCHANGED address, i' = i + 1,
         inCharQuote' <=> address[i] = "\\",
         buf' = IF Kept(address, i) THEN Append(buf, address[i]) ELSE buf
  PROVE  ValueInv'
<1>1. address \in Seq(Char) /\ i \in 1..Len(address)
  BY DEF IInv, TypeOK, LocalInv
<1>2. buf' = Unescaped(SubSeq(address, 1, i))
  BY <1>1, UnescapedStep DEF ValueInv
<1>3. i' > 1 /\ i' - 1 = i
  BY <1>1
<1>. QED BY <1>2, <1>3 DEF ValueInv, LocalUnescaped

(* The turns of the loop that write or pass over a character.                *)
LEMMA ValueTurns ==
  ASSUME IInv, ValueInv, phase' = "local",
         \/ unquoted \/ period \/ backslash \/ doubleQuote \/ atSign \/ other
  PROVE  ValueInv'
<1>1. /\ phase = "local" /\ i <= Len(address) /\ UNCHANGED address
      /\ i' = i + 1
  BY DEF unquoted, period, backslash, doubleQuote, atSign, other, Reads, Write,
         Goes, Refused
<1>2. inCharQuote <=> i > 1 /\ address[i - 1] = "\\"
  BY <1>1 DEF ValueInv
<1>3. CASE unquoted \/ period \/ atSign \/ other
  <2>1. address[i] \notin {"\\", "\""} /\ Write
    BY <1>3, QuotesAreApart
       DEF unquoted, period, atSign, other, Reads, Refused
  <2>2. Kept(address, i)
    BY <2>1 DEF Kept
  <2>. QED BY <1>1, <2>1, <2>2, ValueStep DEF Write
<1>4. CASE backslash
  <2>1. address[i] = "\\" /\ inCharQuote' = TRUE /\ buf' = buf
    BY <1>4 DEF backslash, Reads
  <2>2. ~Kept(address, i)
    BY <2>1 DEF Kept
  <2>. QED BY <1>1, <2>1, <2>2, ValueStep
<1>5. CASE doubleQuote
  <2>1. address[i] = "\""
    BY <1>5 DEF doubleQuote, Reads
  <2>2. Kept(address, i) <=> inCharQuote
    BY <1>2, <2>1 DEF Kept
  <2>3. /\ inCharQuote' = FALSE
        /\ buf' = IF inCharQuote THEN Append(buf, address[i]) ELSE buf
    BY <1>5 DEF doubleQuote, Write, Refused, IInv, TypeOK
  <2>. QED BY <1>1, <2>1, <2>2, <2>3, ValueStep
<1>. QED BY <1>3, <1>4, <1>5

(* Every step keeps it.                                                      *)
LEMMA NextValue == IInv /\ ValueInv /\ [Next]_vars => ValueInv'
<1>. SUFFICES ASSUME IInv, ValueInv, [Next]_vars
              PROVE  ValueInv'
  OBVIOUS
<1>1. CASE UNCHANGED vars
  BY <1>1 DEF vars, ValueInv, LocalUnescaped
<1>2. CASE ValidateDomainPart
  <2>1. /\ phase = "domain" /\ phase' \in {"domain", "accepted", "rejected"}
        /\ UNCHANGED <<address, local>>
    BY <1>2 DEF ValidateDomainPart, badLength, alphaNum, hyphen, dot, unknown,
                valid, Reject, Fails, Turn, Sees
  <2>. QED BY <2>1 DEF ValueInv, LocalUnescaped, local
<1>3. CASE phase' = "rejected"
  BY <1>3 DEF ValueInv, LocalUnescaped
<1>4. CASE enter /\ phase' = "local"
  <2>1. UNCHANGED <<address, i, buf, inCharQuote>> /\ i = 1 /\ buf = <<>>
        /\ ~inCharQuote
    BY <1>4 DEF enter, Reject, local, IInv, StartInv
  <2>2. SubSeq(address, 1, 0) = <<>>
    BY DEF IInv, TypeOK
  <2>3. SubSeq(address, 1, i - 1) = <<>> /\ ~(i > 1)
    BY <2>1, <2>2
  <2>4. buf = Unescaped(SubSeq(address, 1, i - 1))
    BY <2>1, <2>3, UnescapedEmpty
  <2>. QED BY <1>4, <2>1, <2>3, <2>4 DEF ValueInv, LocalUnescaped
<1>5. CASE atSign /\ phase' = "domain"
  <2>1. /\ phase = "local" /\ i \in 1..Len(address) /\ address[i] = "@"
        /\ address' = address /\ buf' = buf
        /\ domain' = SubSeq(address, i + 1, Len(address))
    BY <1>5 DEF atSign, Reads, Write, Goes, Refused, IInv, LocalInv
  <2>2. i \in Positions(address, {"@"})
    BY <2>1 DEF Positions, IInv, TypeOK
  <2>3. buf = Unescaped(SubSeq(address, 1, i - 1))
    BY <2>1 DEF ValueInv
  <2>. QED BY <1>5, <2>1, <2>2, <2>3 DEF ValueInv, LocalUnescaped
<1>6. CASE phase' = "local" /\ ~enter /\ ParseEmailAddress
  BY <1>6, ValueTurns DEF ParseEmailAddress, nonAscii, noDomain, Refused
<1>7. ParseEmailAddress => \/ phase' = "rejected" \/ phase' = "local"
                           \/ atSign /\ phase' = "domain"
  BY DEF ParseEmailAddress, enter, unquoted, period, backslash, doubleQuote,
         atSign, nonAscii, other, noDomain, Reads, Reject, Refused, Write, Goes
<1>. QED BY <1>1, <1>2, <1>3, <1>4, <1>5, <1>6, <1>7 DEF Next

(* The value of an address that gets past its local part is what quoting     *)
(* leaves of what stands before an "@", and the domain what stands after it  *)
(* (utils.go:150-219).                                                       *)
THEOREM ValueCorrect == Spec => []LocalUnescaped
<1>1. Init => ValueInv
  BY DEF Init, ValueInv, LocalUnescaped
<1>2. ValueInv => LocalUnescaped
  BY DEF ValueInv
<1>. QED BY Inductive, NextValue, <1>1, <1>2, PTL DEF Spec

-----------------------------------------------------------------------------
(* What the loop over the local part decides, if there are no quotes.        *)

(* Of the first n characters of the address none is a dot that begins it or  *)
(* that follows a dot.                                                       *)
SingleDots(n) ==
  /\ address[1] # "."
  /\ \A p \in 1..(n - 1) : address[p] # "." \/ address[p + 1] # "."

(* What stands before the place at needs no quotes.                          *)
DotAtomBefore(at) ==
  /\ at - 1 \in 1..MaxLocal
  /\ \A p \in 1..(at - 1) : address[p] \in PlainChar
  /\ SingleDots(at - 1) /\ address[at - 1] # "."

(* prev is the character before, the dots up to it are single, and where the *)
(* loop has stopped a dot-atom ends; what it has decided is right.           *)
PlainInv ==
  /\ phase = "start" => prev = "."
  /\ phase = "local" /\ Plain(address) =>
       /\ Len(address) >= 1
       /\ prev = IF i = 1 THEN "." ELSE address[i - 1]
       /\ SingleDots(i - 1)
  /\ phase \in {"domain", "accepted"} /\ Plain(address) =>
       \E at \in Nat : CutAt(at) /\ DotAtomBefore(at)
  /\ PlainDecided

(* What precedes the place at is a dot-atom if its characters are one.       *)
LEMMA DotAtomIs ==
  ASSUME TypeOK, NEW at \in 1..Len(address)
  PROVE  IsDotAtom(SubSeq(address, 1, at - 1)) <=> DotAtomBefore(at)
<1>. DEFINE s == SubSeq(address, 1, at - 1)
<1>1. /\ Len(address) \in Nat /\ s \in Seq(Char) /\ Len(s) = at - 1
      /\ \A p \in 1..(at - 1) : s[p] = address[p]
  BY DEF TypeOK
<1>. HIDE DEF s
<1>2. ToSet(s) \subseteq Unquoted \cup {"."}
        <=> \A p \in 1..(at - 1) : address[p] \in PlainChar
  <2>1. ToSet(s) = {s[p] : p \in 1..(at - 1)}
    BY <1>1 DEF ToSet
  <2>. QED BY <1>1, <2>1 DEF PlainChar
<1>3. CASE at - 1 \in 1..MaxLocal
  <2>1. Head(s) = address[1] /\ Last(s) = address[at - 1]
    BY <1>1, <1>3, LimitsNat DEF Last
  <2>2. (\A p \in 1..(Len(s) - 1) : <<s[p], s[p + 1]>> # <<".", ".">>)
          <=> \A p \in 1..(at - 2) : address[p] # "." \/ address[p + 1] # "."
    <3>1. \A p \in 1..(at - 2) : s[p] = address[p] /\ s[p + 1] = address[p + 1]
      BY <1>1
    <3>2. Len(s) - 1 = at - 2
      BY <1>1
    <3>. QED BY <3>1, <3>2
  <2>3. (at - 1) - 1 = at - 2
    OBVIOUS
  <2>. QED BY <1>1, <1>2, <1>3, <2>1, <2>2, <2>3
           DEF IsDotAtom, DotAtomBefore, SingleDots, s
<1>4. CASE at - 1 \notin 1..MaxLocal
  BY <1>1, <1>4 DEF IsDotAtom, DotAtomBefore, s
<1>. QED BY <1>3, <1>4

(* A plain address is a dot-atom, the first "@" and a domain.                *)
LEMMA PlainByParts ==
  ASSUME TypeOK, NEW at \in 1..Len(address), address[at] = "@",
         \A p \in 1..(at - 1) : address[p] # "@"
  PROVE  IsPlainAddress(address) <=>
           /\ Len(address) <= MaxAddress
           /\ DotAtomBefore(at)
           /\ IsDomain(SubSeq(address, at + 1, Len(address)))
<1>1. DOMAIN address = 1..Len(address) /\ Len(address) \in Nat /\ at \in Nat
  BY DEF TypeOK
<1>2. \A p \in DOMAIN address : address[p] = "@" => at <= p
  BY <1>1
<1>3. Cut(address, "@") = <<SubSeq(address, 1, at - 1),
                            SubSeq(address, at + 1, Len(address))>>
  BY <1>1, <1>2, CutFirst
<1>4. Contains(address, "@")
  BY DEF Contains
<1>5. /\ Cut(address, "@")[1] = SubSeq(address, 1, at - 1)
      /\ Cut(address, "@")[2] = SubSeq(address, at + 1, Len(address))
  BY <1>3
<1>6. IsPlainAddress(address) <=>
        /\ Len(address) <= MaxAddress
        /\ IsDotAtom(SubSeq(address, 1, at - 1))
        /\ IsDomain(SubSeq(address, at + 1, Len(address)))
  BY <1>4, <1>5 DEF IsPlainAddress
<1>. QED BY <1>6, DotAtomIs

(* So it has a first "@".                                                    *)
LEMMA PlainHasParts ==
  ASSUME TypeOK, IsPlainAddress(address)
  PROVE  \E at \in 1..Len(address) :
           /\ address[at] = "@" /\ \A p \in 1..(at - 1) : address[p] # "@"
           /\ Len(address) <= MaxAddress
           /\ DotAtomBefore(at)
<1>. DEFINE T == Positions(address, {"@"})
<1>1. /\ DOMAIN address = 1..Len(address) /\ Len(address) \in Nat
      /\ T = {p \in 1..Len(address) : address[p] = "@"}
  BY DEF TypeOK, Positions
<1>2. T # {} /\ T \in SUBSET Nat
  BY <1>1 DEF IsPlainAddress, Contains
<1>. HIDE DEF T
<1>3. PICK at \in T : \A q \in T : at <= q
  BY <1>2, Least
<1>4. /\ at \in 1..Len(address) /\ address[at] = "@"
      /\ \A p \in 1..(at - 1) : address[p] # "@"
  BY <1>1, <1>2, <1>3
<1>. QED BY <1>4, PlainByParts

(* An address is not plain if, before any "@", it has a character that needs *)
(* quotes, a dot that begins it, or a dot after a dot.                       *)
LEMMA NotPlain ==
  ASSUME TypeOK, NEW n \in 1..Len(address),
         \A p \in 1..n : address[p] # "@",
         \/ address[n] \notin PlainChar
         \/ address[1] = "."
         \/ n > 1 /\ address[n - 1] = "." /\ address[n] = "."
  PROVE  ~IsPlainAddress(address)
<1>. SUFFICES ASSUME IsPlainAddress(address) PROVE FALSE
  OBVIOUS
<1>1. PICK at \in 1..Len(address) : address[at] = "@" /\ DotAtomBefore(at)
  BY PlainHasParts
<1>2. n \in 1..(at - 1) /\ Len(address) \in Nat
  BY <1>1 DEF TypeOK
<1>3. n > 1 => n - 1 \in 1..((at - 1) - 1) /\ (n - 1) + 1 = n
  BY <1>2
<1>. QED BY <1>1, <1>2, <1>3 DEF DotAtomBefore, SingleDots

-----------------------------------------------------------------------------
(* A step of the loop.                                                       *)

(* Where the loop over the local part is, if there are no quotes.            *)
LEMMA PlainFacts ==
  ASSUME IInv, PlainInv, phase = "local", Plain(address)
  PROVE  /\ TypeOK /\ ~Quoted /\ i \in 1..(Len(address) + 1)
         /\ Len(address) \in 1..MaxAddress /\ address[1] \notin {"@", "."}
         /\ \A p \in 1..(i - 1) : address[p] \in PlainChar /\ address[p] # "@"
         /\ prev = IF i = 1 THEN "." ELSE address[i - 1]
         /\ SingleDots(i - 1)
<1>1. TypeOK /\ Len(address) \in Nat
  BY DEF IInv, TypeOK
<1>2. /\ ~Quoted /\ i \in 1..Len(address) + 1 /\ Len(address) <= MaxAddress
      /\ address[1] # "@" /\ \A p \in 1..i - 1 : address[p] \in PlainChar
  BY DEF IInv, LocalInv, Quoted
<1>3. Len(address) >= 1 /\ prev = (IF i = 1 THEN "." ELSE address[i - 1])
      /\ SingleDots(i - 1)
  BY DEF PlainInv
<1>4. Len(address) \in 1..MaxAddress
  BY <1>1, <1>2, <1>3, LimitsNat
<1>. QED BY <1>1, <1>2, <1>3, <1>4, Alphabet DEF SingleDots

(* A character is read that goes into the local part as it is.               *)
LEMMA PlainReads ==
  ASSUME IInv, PlainInv, phase = "local", i <= Len(address), UNCHANGED address,
         Goes, Plain(address) => address[i] # "." \/ prev # "."
  PROVE  PlainInv'
<1>1. phase' = "local" /\ i' = i + 1 /\ prev' = address[i]
  BY DEF Goes
<1>2. ASSUME Plain(address)
      PROVE  /\ Len(address) >= 1
             /\ prev' = IF i' = 1 THEN "." ELSE address[i' - 1]
             /\ SingleDots(i' - 1)
  <2>1. /\ i \in 1..Len(address) /\ Len(address) \in Nat /\ Len(address) >= 1
        /\ prev = IF i = 1 THEN "." ELSE address[i - 1]
        /\ SingleDots(i - 1)
    BY <1>2, PlainFacts DEF TypeOK
  <2>2. i' \in Nat /\ i' # 1 /\ i' - 1 = i
    BY <1>1, <2>1
  <2>3. ASSUME NEW p \in 1..(i - 1)
        PROVE  address[p] # "." \/ address[p + 1] # "."
    <3>1. CASE p = i - 1
      <4>1. prev = address[p] /\ p + 1 = i
        BY <2>1, <3>1
      <4>. QED BY <1>2, <4>1
    <3>2. CASE p # i - 1
      <4>1. p \in 1..((i - 1) - 1)
        BY <2>1, <3>2
      <4>. QED BY <2>1, <4>1 DEF SingleDots
    <3>. QED BY <3>1, <3>2
  <2>. QED BY <1>1, <2>1, <2>2, <2>3 DEF SingleDots
<1>3. Plain(address') = Plain(address) /\ address' = address
  BY DEF Plain
<1>4. SingleDots(i - 1)' <=> SingleDots(i' - 1)
  BY <1>3 DEF SingleDots
<1>. QED BY <1>1, <1>2, <1>3, <1>4 DEF PlainInv, PlainDecided

(* The loop begins with an address that is not empty, or refuses it.         *)
LEMMA PlainEnter == IInv /\ PlainInv /\ enter => PlainInv'
<1>. SUFFICES ASSUME IInv, PlainInv, enter PROVE PlainInv'
  OBVIOUS
<1>1. /\ phase = "start" /\ address' = address /\ prev' = prev /\ i' = i
      /\ phase' \in {"local", "rejected"} /\ (phase' = "local" <=> Startable)
      /\ TypeOK /\ Len(address) \in Nat /\ i = 1 /\ prev = "."
  BY DEF enter, Reject, IInv, TypeOK, StartInv, PlainInv
<1>2. CASE Startable
  <2>1. Len(address) >= 1 /\ address[1] # "."
    BY <1>1, <1>2, LimitsNat DEF Startable
  <2>2. SingleDots(i - 1)'
    BY <1>1, <2>1 DEF SingleDots
  <2>. QED BY <1>1, <1>2, <2>1, <2>2 DEF PlainInv, PlainDecided
<1>3. CASE ~Startable
  <2>1. SUFFICES ASSUME IsPlainAddress(address) PROVE FALSE
    BY <1>1, <1>3 DEF PlainInv, PlainDecided
  <2>2. PICK at \in 1..Len(address) :
          address[at] = "@" /\ Len(address) <= MaxAddress /\ DotAtomBefore(at)
    BY <1>1, <2>1, PlainHasParts
  <2>3. address[1] \in PlainChar /\ address[1] # "."
    BY <1>1, <2>2 DEF DotAtomBefore, SingleDots
  <2>. QED BY <1>1, <1>3, <2>2, <2>3, Alphabet, LimitsNat DEF Startable
<1>. QED BY <1>2, <1>3

(* What the loop over the local part refuses is not a plain address.         *)
LEMMA PlainRefused ==
  ASSUME IInv, PlainInv, Refused, Plain(address),
         \/ unquoted \/ period \/ backslash \/ doubleQuote \/ atSign
         \/ nonAscii \/ other \/ noDomain
  PROVE  ~IsPlainAddress(address)
<1>1. phase = "local"
  BY DEF unquoted, period, backslash, doubleQuote, atSign, nonAscii, other,
         noDomain, Reads
<1>2. phase' = "rejected" /\ i' = i
  BY DEF Refused
<1>3. /\ TypeOK /\ ~Quoted /\ i \in 1..(Len(address) + 1) /\ Len(address) \in Nat
      /\ Len(address) \in 1..MaxAddress /\ address[1] \notin {"@", "."}
      /\ \A p \in 1..(i - 1) : address[p] \in PlainChar /\ address[p] # "@"
      /\ prev = IF i = 1 THEN "." ELSE address[i - 1]
  BY <1>1, PlainFacts DEF TypeOK
<1>4. ~(Write \/ Goes)
  BY <1>1, <1>2 DEF Write, Goes
<1>5. CASE period
  <2>1. i \in 1..Len(address) /\ address[i] = "." /\ prev = "."
    BY <1>3, <1>4, <1>5 DEF period, Reads
  <2>2. i > 1 /\ address[i - 1] = "." /\ \A p \in 1..i : address[p] # "@"
    BY <1>3, <2>1
  <2>. QED BY <1>3, <2>1, <2>2, NotPlain
<1>6. CASE doubleQuote
  <2>0. address[i] = "\""
    BY <1>6 DEF doubleQuote, Reads
  <2>1. i <= Len(address)
    BY <1>6 DEF doubleQuote, Reads
  <2>2. i \in 1..Len(address)
    BY <1>3, <2>1
  <2>3. Contains(address, "\"")
    BY <2>0, <2>2 DEF Contains
  <2>. QED BY <2>3 DEF Plain
<1>7. CASE atSign
  <2>1. /\ i \in 1..Len(address) /\ address[i] = "@"
        /\ i - 1 > MaxLocal \/ prev = "."
    BY <1>2, <1>3, <1>4, <1>7 DEF atSign, Reads
  <2>2. i > 1 /\ prev = address[i - 1]
    BY <1>3, <2>1
  <2>3. ~DotAtomBefore(i)
    BY <1>3, <2>1, <2>2, LimitsNat DEF DotAtomBefore
  <2>. QED BY <1>3, <2>1, <2>3, PlainByParts
<1>8. CASE nonAscii \/ other
  <2>1. i \in 1..Len(address) /\ address[i] \in NonAscii \cup Others
    BY <1>3, <1>8 DEF nonAscii, other, Reads
  <2>2. address[i] \notin PlainChar /\ address[i] # "@"
    BY <2>1, AddressAssumption DEF PlainChar, Unquoted
  <2>3. \A p \in 1..i : address[p] # "@"
    BY <1>3, <2>1, <2>2
  <2>. QED BY <1>3, <2>1, <2>2, <2>3, NotPlain
<1>9. CASE noDomain
  <2>1. \A p \in 1..Len(address) : address[p] # "@"
    BY <1>3, <1>9 DEF noDomain
  <2>. QED BY <1>3, <2>1, PlainHasParts
<1>10. ~unquoted /\ ~backslash
  BY <1>4 DEF unquoted, backslash
<1>. QED BY <1>5, <1>6, <1>7, <1>8, <1>9, <1>10

(* The "@" that ends the local part follows a dot-atom.                      *)
LEMMA PlainEnds ==
  ASSUME IInv, PlainInv, atSign, phase' = "domain"
  PROVE  PlainInv'
<1>1. /\ phase = "local" /\ i <= Len(address) /\ address[i] = "@" /\ UNCHANGED address
      /\ i - 1 <= MaxLocal /\ prev # "."
  BY DEF atSign, Reads, Write, Goes, Refused
<1>2. Plain(address') = Plain(address)
  BY <1>1 DEF Plain
<1>3. ASSUME Plain(address)
      PROVE  \E at \in Nat : CutAt(at)' /\ DotAtomBefore(at)'
  <2>1. /\ i \in 1..Len(address) /\ Len(address) \in Nat /\ address[1] # "@"
        /\ \A p \in 1..(i - 1) : address[p] \in PlainChar
        /\ prev = IF i = 1 THEN "." ELSE address[i - 1]
        /\ SingleDots(i - 1)
    BY <1>1, <1>3, PlainFacts DEF TypeOK
  <2>2. i \in 2..Len(address) /\ i - 1 \in 1..MaxLocal /\ address[i - 1] # "."
    BY <1>1, <2>1, LimitsNat
  <2>3. PICK at \in Nat : at = i
    BY <2>1
  <2>4. DotAtomBefore(at)
    BY <2>1, <2>2, <2>3 DEF DotAtomBefore
  <2>5. DotAtomBefore(at)'
    BY <1>1, <2>4 DEF DotAtomBefore, SingleDots
  <2>6. domain' = SubSeq(address, i + 1, Len(address)) /\ buf' = buf
    BY DEF atSign, Write, Goes, Refused, Reads
  <2>7. CutAt(at)'
    <3>1. Len(buf) = i - 1
          /\ \A p \in 1..i - 1 : buf[p] = address[p] /\ address[p] \in PlainChar
      BY <1>1, <1>3 DEF IInv, LocalInv
    <3>. QED BY <1>1, <2>2, <2>3, <2>6, <3>1 DEF CutAt
  <2>. QED BY <2>5, <2>7
<1>. QED BY <1>2, <1>3 DEF PlainInv, PlainDecided

(* What the loop over the domain decides.                                    *)
LEMMA PlainDomain ==
  ASSUME IInv, IInv', PlainInv, ScanInv', ValidateDomainPart
  PROVE  PlainInv'
<1>1. /\ phase = "domain" /\ phase' \in {"domain", "accepted", "rejected"}
      /\ UNCHANGED <<address, domain, buf>>
      /\ phase' = "accepted" => Len(domain) \in 1..MaxDomain
      /\ domain = <<>> => phase' = "rejected"
  <2>1. Len(<<>>) \notin 1..MaxDomain
    OBVIOUS
  <2>. QED BY <2>1 DEF ValidateDomainPart, badLength, alphaNum, hyphen, dot, unknown,
                  valid, Reject, Fails, Turn, Sees, local
<1>2. CASE ~Plain(address)
  BY <1>1, <1>2 DEF PlainInv, PlainDecided, Plain
<1>3. CASE Plain(address)
  <2>1. PICK at \in Nat : CutAt(at) /\ DotAtomBefore(at)
    BY <1>1, <1>3 DEF PlainInv
  <2>2. CutAt(at)' /\ DotAtomBefore(at)'
    BY <1>1, <2>1 DEF CutAt, Plain, DotAtomBefore, SingleDots
  <2>3. /\ TypeOK /\ at \in 1..Len(address) /\ address[at] = "@"
        /\ domain = SubSeq(address, at + 1, Len(address))
        /\ \A p \in 1..(at - 1) : address[p] # "@"
        /\ Len(address) <= MaxAddress
    <3>1. TypeOK /\ Len(address) <= MaxAddress
      BY <1>1 DEF IInv, DomainInv
    <3>. QED BY <2>1, <3>1, Alphabet DEF CutAt, DotAtomBefore
  <2>4. IsPlainAddress(address) <=> IsDomain(domain)
    BY <2>1, <2>3, PlainByParts
  <2>5. domain = <<>> => ~IsDomain(domain)
    BY DEF IsDomain
  <2>6. /\ domain # <<>> /\ phase' = "accepted" => IsDomain(domain)
        /\ domain # <<>> /\ phase' = "rejected" => ~IsDomain(domain)
    <3>1. domain' = domain
      BY <1>1
    <3>. QED BY <3>1 DEF ScanInv, DomainDecided
  <2>7. PlainDecided'
    <3>1. phase' = "accepted" => IsPlainAddress(address)
      BY <1>1, <2>4, <2>6
    <3>2. phase' = "rejected" => ~IsPlainAddress(address)
      BY <2>4, <2>5, <2>6
    <3>. QED BY <1>1, <3>1, <3>2 DEF PlainDecided
  <2>. QED BY <1>1, <2>2, <2>7 DEF PlainInv
<1>. QED BY <1>2, <1>3

(* The turns of the loop over the local part.                                *)
LEMMA PlainLocal ==
  ASSUME IInv, PlainInv,
         \/ unquoted \/ period \/ backslash \/ doubleQuote \/ atSign
         \/ nonAscii \/ other \/ noDomain
  PROVE  PlainInv'
<1>1. phase = "local" /\ UNCHANGED address
  BY DEF unquoted, period, backslash, doubleQuote, atSign, nonAscii, other,
         noDomain, Reads
<1>2. CASE Refused
  <2>1. Plain(address) => ~IsPlainAddress(address)
    BY <1>2, PlainRefused
  <2>2. phase' = "rejected" /\ Plain(address') = Plain(address)
    BY <1>1, <1>2 DEF Refused, Plain
  <2>. QED BY <1>1, <2>1, <2>2 DEF PlainInv, PlainDecided
<1>3. CASE atSign /\ phase' = "domain"
  BY <1>3, PlainEnds
<1>4. CASE Goes
  <2>1. i <= Len(address)
    BY <1>1, <1>4 DEF unquoted, period, backslash, doubleQuote, atSign, nonAscii,
                      other, noDomain, Reads, Refused, Goes
  <2>2. address[i] # "." \/ prev # "."
    <3>1. CASE period
      BY <1>1, <1>4, <3>1 DEF period, Refused, Goes
    <3>2. CASE ~period
      BY <1>1, <1>4, <3>2, AddressAssumption
         DEF unquoted, backslash, doubleQuote, atSign, nonAscii,
             other, noDomain, Reads, Refused, Goes, Unquoted
    <3>. QED BY <3>1, <3>2
  <2>. QED BY <1>1, <1>4, <2>1, <2>2, PlainReads
<1>5. Refused \/ (atSign /\ phase' = "domain") \/ Goes
  BY DEF unquoted, period, backslash, doubleQuote, atSign, nonAscii, other,
         noDomain, Write
<1>. QED BY <1>2, <1>3, <1>4, <1>5

(* Every step keeps it.                                                      *)
LEMMA NextPlain == IInv /\ IInv' /\ ScanInv' /\ PlainInv /\ [Next]_vars => PlainInv'
<1>. SUFFICES ASSUME IInv, IInv', ScanInv', PlainInv, [Next]_vars
              PROVE  PlainInv'
  OBVIOUS
<1>1. CASE UNCHANGED vars
  <2>1. \A at \in Nat : CutAt(at) /\ DotAtomBefore(at) => (CutAt(at) /\ DotAtomBefore(at))'
    BY <1>1 DEF vars, CutAt, DotAtomBefore, SingleDots, Plain
  <2>. QED BY <1>1, <2>1 DEF vars, PlainInv, PlainDecided, SingleDots, Plain
<1>2. CASE ValidateDomainPart
  BY <1>2, PlainDomain
<1>3. CASE ParseEmailAddress
  BY <1>3, PlainEnter, PlainLocal DEF ParseEmailAddress
<1>. QED BY <1>1, <1>2, <1>3 DEF Next

(* Of the addresses without quotes exactly those are accepted that are a     *)
(* dot-atom, an "@" and a domain: one loop with its flags decides what the   *)
(* grammar says (utils.go:151-231).                                          *)
THEOREM PlainCorrect == Spec => []PlainDecided
<1>1. Init => PlainInv
  BY DEF Init, PlainInv, PlainDecided
<1>2. PlainInv => PlainDecided
  BY DEF PlainInv
<1>. QED BY Inductive, InitScan, NextScan, NextPlain, <1>1, <1>2, PTL DEF Spec
===============================================================================
