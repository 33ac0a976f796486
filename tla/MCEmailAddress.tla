---------------------------- MODULE MCEmailAddress ----------------------------
(* Instance of EmailAddress for TLC: every address of up to Short           *)
(* characters, every longer one of the characters that are common to both    *)
(* loops or quote, and one that exceeds the limit.                           *)
EXTENDS EmailAddress

CONSTANTS Short

Structural == {"a", ".", "-", "@", "\\", "\""}

TooLong == [p \in 1..(MaxAddress + 1) |-> IF p = 2 THEN "@" ELSE "a"]

MCInputs ==
  UNION {[1..n -> Char] : n \in 0..Short}
    \cup UNION {[1..n -> Structural] : n \in (Short + 1)..MaxAddress}
    \cup {TooLong}
=============================================================================
