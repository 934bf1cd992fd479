---------------------------- MODULE PrivateReport ----------------------------
(***************************************************************************)
(* GET /reports/aggregated (app/privacy/routes.py) and the report it takes *)
(* from app/privacy/differential_privacy.py, as functions of the users.    *)
(* The noise is any integer that the distribution may yield.               *)
(***************************************************************************)
EXTENDS Integers, Sequences, FiniteSets, SequencesExt

CONSTANT K  \* the k of the route

ASSUME PrivateReportAssumption == K \in Nat \ {0}

\* The route's quasi-identifiers of a user.
QuasiIdentifiers(user) ==
    [role |-> user.role, username_length_bucket |-> user.length \div 5]

\* A bug: a group of one user is not counted up to one.
BugFirstIsFree(records) ==
    FoldLeft(LAMBDA groups, key :
                 IF key \in DOMAIN groups THEN [groups EXCEPT ![key] = @ + 1]
                 ELSE [g \in DOMAIN groups \cup {key} |-> IF g = key THEN K ELSE groups[g]],
             <<>>, records)

\* One pass that counts the records of each group.
Groups(records) ==
    FoldLeft(LAMBDA groups, key :
                 [g \in DOMAIN groups \cup {key} |->
                     (IF g \in DOMAIN groups THEN groups[g] ELSE 0) + (IF g = key THEN 1 ELSE 0)],
             <<>>, records)

CheckKAnonymity(records) ==
    {[group |-> g, group_size |-> Groups(records)[g], required_k |-> K] :
        g \in {key \in DOMAIN Groups(records) : Groups(records)[key] < K}}

ServerError == "500"

\* add_laplace_noise raises for an epsilon that is not positive, and nothing
\* catches it; smaller ones only mean more noise.
AggregatedReport(users, epsilon, noise) ==
    IF epsilon <= 0 THEN ServerError
    ELSE [noisy_user_count |-> Len(users) + noise,
          k_anonymity_violations |->
             Cardinality(CheckKAnonymity([i \in DOMAIN users |-> QuasiIdentifiers(users[i])]))]

(* The report counts as violations the groups of users that somebody who   *)
(* knows role and length of name can tell down to fewer than K, so none    *)
(* means that each user is like K - 1 others ("an empty list means the     *)
(* dataset satisfies k-anonymity"), whatever the noise on their number;    *)
(* and no report is made without noise.                                    *)
SinglesOut(users) ==
    LET alike(i) == {j \in DOMAIN users : QuasiIdentifiers(users[j]) = QuasiIdentifiers(users[i])}
        few == {i \in DOMAIN users : Cardinality(alike(i)) < K}
    IN  \A epsilon \in {-1, 0, 1}, noise \in {-1, 0, 2} :
            LET report == AggregatedReport(users, epsilon, noise)
            IN  IF epsilon <= 0 THEN report = ServerError
                ELSE report.k_anonymity_violations = Cardinality({alike(i) : i \in few})

=============================================================================
