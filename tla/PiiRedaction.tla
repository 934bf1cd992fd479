---------------------------- MODULE PiiRedaction ----------------------------
(***************************************************************************)
(* redact_pii (app/vault/pii_redaction.py), as a function of a text over   *)
(* classes of characters: a digit "d", a letter "x", and the signs that    *)
(* the patterns name; "*" and "#" are what masks put in.  The patterns are *)
(* scaled down: a social security number is d-dd instead of 3-2-4 digits,  *)
(* a card has 4 to 5 digits instead of 13 to 16, and a mask keeps 2 digits *)
(* instead of 4.                                                           *)
(***************************************************************************)
EXTENDS Integers, Sequences, FiniteSets, SequencesExt, Filtering

Pattern == {"email", "ssn", "credit_card"}
CardDigits == 4 .. 5
KeptDigits == 2

\* \b between the characters k and k + 1 of a text.
WordBoundary(t, k) ==
    LET word(i) == i \in DOMAIN t /\ t[i] \in {"d", "x"}
    IN  word(k) # word(k + 1)

\* The regular expressions without their \b, on the characters i to j.
Shape(pattern, t, i, j) ==
    CASE pattern = "email" ->
           \E at \in (i + 1) .. j, dot \in i .. (j - 2) :
              /\ t[at] = "@" /\ t[dot] = "." /\ at + 1 < dot
              /\ \A k \in (i .. (dot - 1)) \ {at} : t[k] \in {"d", "x", ".", "-"}
              /\ \A k \in (dot + 1) .. j : t[k] = "x"
      [] pattern = "ssn" -> SubSeq(t, i, j) = <<"d", "-", "d", "d">>
      [] pattern = "credit_card" ->
           /\ t[i] = "d"
           /\ \A k \in i .. j : t[k] = "d" \/ (t[k] \in {"-", " "} /\ t[k - 1] = "d")
           /\ Cardinality({k \in i .. j : t[k] = "d"}) \in CardDigits

\* Where the matches that begin at i end.
Ends(pattern, t, i) ==
    {j \in i .. Len(t) :
        WordBoundary(t, i - 1) /\ WordBoundary(t, j) /\ Shape(pattern, t, i, j)}

Found(pattern, t) == \E i \in DOMAIN t : Ends(pattern, t, i) # {}

\* What a mask shows of the text it replaces.
Mask(pattern, match, strategy) ==
    LET digits == Filter(match, {"d"})
        last == SubSeq(digits, Len(digits) - KeptDigits + 1, Len(digits))
        domain == SelectInSeq(match, LAMBDA c : c = "@")
    IN  IF strategy = "full" THEN <<"#">>
        ELSE IF pattern = "email" THEN <<match[1], "*">> \o SubSeq(match, domain, Len(match))
        ELSE <<"*", "-">> \o last

\* A match goes as far as it can; a character at which none begins is kept.
MatchEnd(pattern, t, i) ==
    IF Ends(pattern, t, i) = {} THEN i ELSE Max(Ends(pattern, t, i))

Replacement(pattern, t, strategy, i) ==
    IF Ends(pattern, t, i) = {} THEN <<t[i]>>
    ELSE Mask(pattern, SubSeq(t, i, MatchEnd(pattern, t, i)), strategy)

\* A bug: the search goes on one character after where the match began.
BugStepOne(pattern, t, strategy) ==
    LET from[i \in 1 .. (Len(t) + 1)] ==
            IF i > Len(t) THEN <<>> ELSE Replacement(pattern, t, strategy, i) \o from[i + 1]
    IN  from[1]

\* sub: the search goes on behind the match.
Sub(pattern, t, strategy) ==
    LET from[i \in 1 .. (Len(t) + 1)] ==
            IF i > Len(t) THEN <<>>
            ELSE Replacement(pattern, t, strategy, i) \o from[MatchEnd(pattern, t, i) + 1]
    IN  from[1]

\* Each pattern is applied to what the one before has left.
RedactPii(t, strategy) ==
    LET noEmail == Sub("email", t, strategy)
        noSsn == Sub("ssn", noEmail, strategy)
    IN  [redacted_text |-> Sub("credit_card", noSsn, strategy),
         categories_found |->
             (IF Found("email", t) THEN {"email"} ELSE {})
             \cup (IF Found("ssn", noEmail) THEN {"ssn"} ELSE {})
             \cup (IF Found("credit_card", noSsn) THEN {"credit_card"} ELSE {})]

\* An address directly before another "@".
Chained(t) ==
    \E i \in DOMAIN t : \E j \in Ends("email", t, i) : j < Len(t) /\ t[j + 1] = "@"

(* Nothing that a pattern knows is left behind by full masking, and by     *)
(* partial masking no social security number, and an address only where    *)
(* the domain that a mask keeps was directly before another "@" and now    *)
(* reads as the name of what follows (a@b.com@c.com becomes                *)
(* a***@b.com@c.com); and a text is changed exactly if it is said what was *)
(* found in it.  (Partial masking keeps digits, and with digits that       *)
(* follow they may look like a card again.)                                *)
MasksAll(t) ==
    \A strategy \in {"full", "partial"} :
        LET result == RedactPii(t, strategy)
            left == {p \in Pattern : Found(p, result.redacted_text)}
            kept == IF Chained(t) THEN {"credit_card", "email"} ELSE {"credit_card"}
        IN  /\ left \subseteq IF strategy = "full" THEN {} ELSE kept
            /\ result.categories_found = {} <=> result.redacted_text = t

=============================================================================
