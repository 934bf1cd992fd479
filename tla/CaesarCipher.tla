---------------------------- MODULE CaesarCipher ----------------------------
(***************************************************************************)
(* The legacy cipher of app/vault/caesar_cipher.py and the cracker that    *)
(* tries every shift.  A text is a sequence of numbers: an alphabet of     *)
(* capitals, the same in small letters, then what isalpha takes for a      *)
(* letter although it is not in the alphabet; NoLetter stands for the      *)
(* rest.  Scores are compared among texts with as many letters, so they    *)
(* are scaled by that number and stay integers.                            *)
(***************************************************************************)
EXTENDS Integers, Sequences, FiniteSets, FiniteSetsExt

CONSTANTS
    AlphabetSize,
    LetterFrequency  \* percent of each letter in English text

ASSUME CaesarAssumption ==
    /\ AlphabetSize \in Nat \ {0, 1}
    /\ LetterFrequency \in [0 .. (AlphabetSize - 1) -> Nat]

NoLetter == -1
IsAlpha(c) == c >= 0
IsUpper(c) == c \in 0 .. (AlphabetSize - 1)
InAlphabet(c) == c \in 0 .. (2 * AlphabetSize - 1)

Base(c) == IF IsUpper(c) THEN 0 ELSE AlphabetSize

\* A bug: letters that pass the end of the alphabet are not wrapped around.
BugNoWrap(text, shift) ==
    [i \in DOMAIN text |-> IF IsAlpha(text[i]) THEN text[i] + shift ELSE text[i]]

\* Shifts every letter within the alphabet of its case.
ShiftText(text, shift) ==
    [i \in DOMAIN text |->
        IF IsAlpha(text[i])
        THEN Base(text[i]) + ((text[i] - Base(text[i]) + shift) % AlphabetSize)
        ELSE text[i]]

CaesarEncrypt(text, shift) == ShiftText(text, shift)
CaesarDecrypt(text, shift) == ShiftText(text, -shift)

LetterCount(text) == Cardinality({i \in DOMAIN text : IsAlpha(text[i])})

\* How often a letter occurs in the text, large or small.
Observed(text, letter) ==
    Cardinality({i \in DOMAIN text : InAlphabet(text[i]) /\ text[i] % AlphabetSize = letter})

\* The distance from English, times the square of the number of letters; 0 without letters.
EnglishLikenessScore(text) ==
    LET distance(letter) ==
            100 * Observed(text, letter) - LetterCount(text) * LetterFrequency[letter]
    IN  MapThenSumSet(LAMBDA letter : distance(letter) * distance(letter), 0 .. (AlphabetSize - 1))

Shifts == 1 .. (AlphabetSize - 1)

\* A bug: range stops a shift too early.
BugLastShift(ciphertext) ==
    LET score(s) == EnglishLikenessScore(CaesarDecrypt(ciphertext, s))
    IN  CHOOSE s \in Shifts \ {AlphabetSize - 1} :
            \A other \in Shifts \ {AlphabetSize - 1} :
                score(s) < score(other) \/ (score(s) = score(other) /\ s <= other)

\* brute_force_crack: the shift with the lowest score, the first of equals.
BestShift(ciphertext) ==
    LET score(s) == EnglishLikenessScore(CaesarDecrypt(ciphertext, s))
    IN  CHOOSE s \in Shifts :
            \A other \in Shifts :
                score(s) < score(other) \/ (score(s) = score(other) /\ s <= other)

BestPlaintext(ciphertext) == CaesarDecrypt(ciphertext, BestShift(ciphertext))

-----------------------------------------------------------------------------

\* Another shift of the text looks at least as English.  The ciphertext itself is not tried.
HasRival(text, key) ==
    \E s \in Shifts \ {key} :
        EnglishLikenessScore(ShiftText(text, s)) <= EnglishLikenessScore(text)

(* "no key is needed at all to recover the plaintext, just the ciphertext  *)
(* itself and a frequency table" (brute_force_crack): whatever the shift,  *)
(* the cracker gets the text and the shift back unless another shift of    *)
(* the text is as English; what it returns is never less English than the  *)
(* text was.  Texts with a letter that is not in the alphabet are left     *)
(* out: isalpha lets them through, and no shift brings them back.          *)
CracksText(text) ==
    (\A i \in DOMAIN text : IsAlpha(text[i]) => InAlphabet(text[i])) =>
    \A key \in Shifts :
        LET ciphertext == CaesarEncrypt(text, key)
        IN  /\ CaesarDecrypt(ciphertext, key) = text
            /\ EnglishLikenessScore(BestPlaintext(ciphertext)) <= EnglishLikenessScore(text)
            /\ ~HasRival(text, key) => BestShift(ciphertext) = key

=============================================================================
