----------------------------- MODULE MCWorkers -----------------------------
(***************************************************************************)
(* Four small components for TLC, each with its own few workers: the two   *)
(* limiters, the registration and the zero-knowledge login.  A behaviour   *)
(* runs one of them.                                                       *)
(***************************************************************************)
EXTENDS TokenBucket, FiniteSets, TLC

CONSTANTS
    Thread, MaxRequests, Window,
    Request, Payload, MaxFaults,
    Call, Identifier, Secret, Random, SafePrime, MaxCrashes

VARIABLES
    job,  \* the component that runs
    clock, window, pc, seen, admitted,
    users, payload, handler, looked, faulted,
    file, registered, raced, prover, call, params, proof, crashes

windowVars == <<clock, window, pc, seen, admitted>>
registrationVars == <<users, payload, handler, looked, faulted>>
loginVars == <<file, registered, raced, prover, call, params, proof, crashes>>

Username(text, length, matches) == [text |-> text, length |-> length, matches |-> matches]
Email(text) == [text |-> text, length |-> 20, matches |-> TRUE]
Password(text, head, length, bytes, classes) ==
    [text |-> text, head |-> head, length |-> length, bytes |-> bytes, classes |-> classes]

AllClasses == {"uppercase", "lowercase", "number", "special"}
Strong == Password("strong", "strong", 10, 10, AllClasses)

\* Good ones that share a name or an address, of passwords of as many bytes as
\* bcrypt takes and, in fewer characters, of one more; and one bad field each.
Payloads ==
    { [username |-> Username("ann", 3, TRUE), email |-> Email("a@x"), password |-> Strong],
      [username |-> Username("bob", 30, TRUE), email |-> Email("a@x"), password |-> Strong],
      [username |-> Username("bob", 30, TRUE), email |-> Email("b@x"),
       password |-> Password("phrase-acute", "phras", 72, 73, AllClasses)],
      [username |-> Username("bob newline", 30, TRUE), email |-> Email("b@x"),
       password |-> Password("phrase", "phrase", 72, 72, AllClasses)],
      [username |-> Username("al", 2, TRUE), email |-> Email("c@x"), password |-> Strong],
      [username |-> Username("a b", 3, FALSE), email |-> Email("d@x"),
       password |-> Password("weak", "weak", 10, 10, AllClasses \ {"special"})] }

ASSUME SlidingWindowAssumption ==
    /\ IsFiniteSet(Thread) /\ Thread # {}
    /\ MaxRequests \in Nat /\ Window \in Nat

Sliding == INSTANCE SlidingWindow WITH now <- clock
Register == INSTANCE Registration WITH pc <- handler
Proving == INSTANCE ZeroKnowledge WITH pc <- prover

\* What OpenSSL gives: q is prime, and the order of the squared generator divides
\* it (schnorr.py, _generate_group_parameters).
ASSUME GroupAssumption ==
    \A p \in SafePrime :
        LET G == Proving!GroupParameters(p)
        IN  /\ p \in Nat /\ p > 4
            /\ \A d \in 2 .. G.q - 1 : G.q % d # 0
            /\ Proving!Pow(G.g, G.q, p) = 1

Challenge(x, r, G) ==
    Proving!FiatShamirChallenge(G, Proving!Public(x, G), Proving!Pow(G.g, r, G.p))

\* The hash is ideal: no two secrets answer for each other by chance, one in q.
ASSUME HashAssumption ==
    /\ Secret \subseteq Nat /\ Random \subseteq Nat
    /\ \A p \in SafePrime, x, z \in Secret, r \in Random :
          LET G == Proving!GroupParameters(p)
          IN  x # z => (r + Challenge(x, r, G) * x) % G.q # (r + Challenge(z, r, G) * z) % G.q

WorkersInit ==
    /\ job \in {"bucket", "window", "registration", "login"}
    /\ Init /\ Sliding!Init /\ Register!Init /\ Proving!Init

RunBucket ==
    /\ job = "bucket" /\ Next
    /\ UNCHANGED <<job, windowVars, registrationVars, loginVars>>

RunWindow ==
    /\ job = "window" /\ Sliding!Next
    /\ UNCHANGED <<job, vars, registrationVars, loginVars>>

RunRegistration ==
    /\ job = "registration" /\ Register!Next
    /\ UNCHANGED <<job, vars, windowVars, loginVars>>

RunLogin ==
    /\ job = "login" /\ Proving!Next
    /\ UNCHANGED <<job, vars, windowVars, registrationVars>>

WorkersSpec ==
    WorkersInit /\ [][RunBucket \/ RunWindow \/ RunRegistration \/ RunLogin]_<<job, vars, windowVars, registrationVars, loginVars>>

CallerSymmetry == Permutations(Request)

-----------------------------------------------------------------------------

\* See SlidingWindow.
OffByThreadsOnly == Sliding!OffByThreadsOnly

\* See Registration.
OutcomeTold == Register!OutcomeTold

\* See ZeroKnowledge.
KnowledgeIsVerified == Proving!KnowledgeIsVerified

=============================================================================
