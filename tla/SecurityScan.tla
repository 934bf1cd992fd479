---------------------------- MODULE SecurityScan ----------------------------
(***************************************************************************)
(* The scanner of the project's own source (app/audit/security_scan.py)    *)
(* and its report (app/audit/sarif.py).  A file is a syntax tree, given as *)
(* the sequence of its nodes, each with its class, the number of its       *)
(* parent (0 is the module) and the fields that the checks look at.        *)
(***************************************************************************)
EXTENDS Integers, Sequences, FiniteSets, Filtering

DEFAULT_EXCLUDED_PATHS == {"insecure"}

RuleSeverity ==
    [unsafe_eval_exec |-> "CRITICAL", weak_hash_algorithm |-> "HIGH",
     debug_mode_enabled |-> "MEDIUM", hardcoded_secret |-> "CRITICAL", bare_except |-> "LOW"]

Rules == DOMAIN RuleSeverity

\* Two of the names that the scanner suspects.
SUSPICIOUS_SECRET_VARIABLE_NAMES == {"password", "secret"}

\* Where in a node a rule may be broken: at a keyword of a call or at a target
\* of an assignment, and there may be several; else at the node, which is 1.
Positions(node) ==
    {1} \cup CASE node.class = "Call" -> DOMAIN node.keywords
               [] node.class = "Assign" -> DOMAIN node.targets
               [] OTHER -> {}

\* The conditions of the checks, and the class at which each is made.
Meets(node, rule, k) ==
    CASE rule = "unsafe_eval_exec" ->
           node.class = "Call" /\ k = 1 /\ node.func \in {<<"eval">>, <<"exec">>}
      [] rule = "weak_hash_algorithm" ->
           node.class = "Call" /\ k = 1 /\ node.func \in {<<"hashlib", "md5">>, <<"hashlib", "sha1">>}
      [] rule = "debug_mode_enabled" ->
           node.class = "Call" /\ k \in DOMAIN node.keywords /\ node.keywords[k] = "debug=True"
      [] rule = "hardcoded_secret" ->
           /\ node.class = "Assign" /\ node.value = "literal"
           /\ k \in DOMAIN node.targets /\ node.targets[k] \in SUSPICIOUS_SECRET_VARIABLE_NAMES
      [] rule = "bare_except" ->
           node.class = "ExceptHandler" /\ k = 1 /\ node.type = "None"

\* The checks that visit_Call, visit_Assign and visit_ExceptHandler make of a
\* node, in their order: a rule, and the position it is looked for at.
Checks(node) ==
    CASE node.class = "Call" ->
           <<<<"unsafe_eval_exec", 1>>, <<"weak_hash_algorithm", 1>>>>
               \o [k \in DOMAIN node.keywords |-> <<"debug_mode_enabled", k>>]
      [] node.class = "Assign" -> [k \in DOMAIN node.targets |-> <<"hardcoded_secret", k>>]
      [] node.class = "ExceptHandler" -> <<<<"bare_except", 1>>>>
      [] OTHER -> <<>>

\* The findings of a node.  The message, which names the target, is its position.
Own(tree, i) ==
    LET all == Checks(tree[i])
        met == Filter(all, {c \in ToSet(all) : Meets(tree[i], c[1], c[2])})
    IN  [n \in DOMAIN met |->
            [rule_id |-> met[n][1], severity |-> RuleSeverity[met[n][1]], line |-> i, position |-> met[n][2]]]

\* A bug: visit_Assign does not walk on into the value that is assigned.
BugStopAtAssign(tree, i) ==
    IF i # 0 /\ tree[i].class = "Assign" THEN {}
    ELSE {c \in DOMAIN tree : tree[c].parent = i}

\* generic_visit goes on to the children, which come behind their parent.
Children(tree, i) == {c \in DOMAIN tree : tree[c].parent = i}

ScanFile(tree) ==
    LET below[i \in 0 .. Len(tree)] ==
            FlattenSeq([c \in DOMAIN tree |->
                IF c \in Children(tree, i) THEN Own(tree, c) \o below[c] ELSE <<>>])
    IN  below[0]

Aborted == <<"SyntaxError">>

\* The files in the order of their names; one that does not parse ends the scan.
ScanDirectory(files) ==
    LET scanned == Filter(files, {f \in ToSet(files) : ToSet(f.parts) \cap DEFAULT_EXCLUDED_PATHS = {}})
    IN  IF \E i \in DOMAIN scanned : ~scanned[i].parses THEN Aborted
        ELSE FlattenSeq([i \in DOMAIN scanned |-> ScanFile(scanned[i].tree)])

HasCriticalFindings(findings) == \E i \in DOMAIN findings : findings[i].severity = "CRITICAL"

SeverityToSarifLevel ==
    [CRITICAL |-> "error", HIGH |-> "error", MEDIUM |-> "warning", LOW |-> "note"]

\* Each rule once, in the order in which the findings name them.
DeclareRule(rules, f) == IF Contains(rules, f.rule_id) THEN rules ELSE Append(rules, f.rule_id)

BuildRuleMetadata(findings) == FoldLeft(DeclareRule, <<>>, findings)

FindingsToSarif(findings) ==
    [rules |-> BuildRuleMetadata(findings),
     results |-> [i \in DOMAIN findings |->
                     [ruleId |-> findings[i].rule_id, level |-> SeverityToSarifLevel[findings[i].severity],
                      startLine |-> findings[i].line]]]

\* The rules that the nodes of a tree break, by node, rule and position.
Breaches(tree) ==
    UNION {{i} \X {c \in Rules \X Positions(tree[i]) : Meets(tree[i], c[1], c[2])} : i \in DOMAIN tree}

\* What the findings are about.
Reported(findings) ==
    {<<findings[n].line, <<findings[n].rule_id, findings[n].position>>>> : n \in DOMAIN findings}

(* Whatever the nesting, a file's findings are every rule that a node of   *)
(* its breaks, once for every position that breaks it (password = secret = *)
(* "x" has two findings); a critical one is an error of the report, which  *)
(* declares each rule of its results once ("every ruleId that appears in   *)
(* results to also be declared once", _build_rule_metadata); and beside an *)
(* excluded file or a clean one a directory has the same findings.         *)
ReportsEveryNode(tree) ==
    LET findings == ScanFile(tree)
        report == FindingsToSarif(findings)
        beside(dir) == [parts |-> <<dir, "a.py">>, parses |-> dir # "insecure", tree |-> <<>>]
    IN  /\ Reported(findings) = Breaches(tree) /\ Len(findings) = Cardinality(Breaches(tree))
        /\ HasCriticalFindings(findings) =>
              \E n \in DOMAIN report.results : report.results[n].level = "error"
        /\ ToSet(report.rules) = {report.results[n].ruleId : n \in DOMAIN report.results}
        /\ Len(report.rules) = Cardinality(ToSet(report.rules))
        /\ \A dir \in {"insecure", "app"} :
              ScanDirectory(<<beside(dir), [parts |-> <<"app", "b.py">>, parses |-> TRUE, tree |-> tree]>>)
                  = findings

=============================================================================
