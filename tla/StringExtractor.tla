--------------------------- MODULE StringExtractor ---------------------------
(***************************************************************************)
(* app/forensics/string_extractor.py over classes of bytes: "nul" does not *)
(* print, "space" prints, "u" and "k" are the characters of URLs and of    *)
(* API keys, which stand for the three kinds of indicators.  An indicator  *)
(* is a run of such characters that is long enough.                        *)
(***************************************************************************)
EXTENDS Integers, Sequences, FiniteSets, SequencesExt

CONSTANTS
    MIN_STRING_LENGTH,
    IndicatorLength  \* the least length of what the patterns match

ASSUME StringExtractorAssumption ==
    MIN_STRING_LENGTH \in Nat \ {0} /\ IndicatorLength \in Nat \ {0}

Flush(s) == IF Len(s.run) >= MIN_STRING_LENGTH THEN Append(s.found, s.run) ELSE s.found

\* A byte that does not print ends the run.
ScanByte(s, byte) ==
    IF byte # "nul" THEN [s EXCEPT !.run = Append(@, byte)]
    ELSE [run |-> <<>>, found |-> Flush(s)]

Scan(data) == FoldLeft(ScanByte, [run |-> <<>>, found |-> <<>>], data)

\* A bug: the run at the end of the data is left out.
BugNoLastRun(data) == Scan(data).found

\* One pass; the end of the data ends the run, too.
ExtractStrings(data) == Flush(Scan(data))

\* findall: the longest runs of c, from the left.
FindAll(c, text) ==
    LET ends(i) == {j \in i .. Len(text) : \A k \in i .. j : text[k] = c}
        begins(i) == Cardinality(ends(i)) >= IndicatorLength /\ (i = 1 \/ text[i - 1] # c)
    IN  FlattenSeq([i \in DOMAIN text |->
            IF begins(i) THEN <<SubSeq(text, i, Max(ends(i)))>> ELSE <<>>])

FilterIocs(strings) ==
    [kind \in {"u", "k"} |-> FlattenSeq([i \in DOMAIN strings |-> FindAll(kind, strings[i])])]

CrossReferenceIocs(indicators, known) ==
    (ToSet(indicators["u"]) \cup ToSet(indicators["k"])) \cap known

\* The strings that the rule lists, one of which must occur.
GenerateYaraRule(indicators) == indicators["u"] \o indicators["k"]

Fires(rule, data) ==
    \E i \in DOMAIN rule, j \in DOMAIN data : SubSeq(data, j, j + Len(rule[i]) - 1) = rule[i]

(* What the extractor reports is what the data holds: the indicators of    *)
(* the extracted strings are those of the data, each as often and in the   *)
(* order it occurs; the known ones among them are matched; and the rule    *)
(* made of them fires on the data they come from, unless there are none.   *)
(* (This takes a least string length that no indicator falls short of.)    *)
FindsIndicators(data) ==
    LET indicators == FilterIocs(ExtractStrings(data))
    IN  MIN_STRING_LENGTH <= IndicatorLength =>
        /\ \A kind \in {"u", "k"} : indicators[kind] = FindAll(kind, data)
        /\ \A known \in SUBSET {<<"u", "u">>, <<"k", "k">>} :
              CrossReferenceIocs(indicators, known) =
                  {ioc \in known : \E kind \in {"u", "k"} : ioc \in ToSet(FindAll(kind, data))}
        /\ Fires(GenerateYaraRule(indicators), data) <=>
              \E kind \in {"u", "k"} : FindAll(kind, data) # <<>>

=============================================================================
