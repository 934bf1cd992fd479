---------------------------- MODULE ZeroKnowledge ----------------------------
(***************************************************************************)
(* The zero-knowledge login (app/zkp/routes.py, app/zkp/schnorr.py): calls *)
(* that enrol a public value or prove the knowledge of a secret, each with *)
(* its client and its handler in turn; and calls that send a proof again   *)
(* that somebody else has sent.  Client and handler take the group from    *)
(* one file, which whoever finds it missing creates.  The hash is ideal:   *)
(* it is never zero.                                                       *)
(***************************************************************************)
EXTENDS Integers

CONSTANTS
    Call,
    Identifier,
    Secret,      \* the x of the provers
    Random,      \* the r they may draw
    SafePrime,   \* the p that OpenSSL may come up with
    MaxCrashes   \* bound on the calls that end half-way

VARIABLES
    file,       \* zkp_group_params.txt
    registered, \* _registered_public_values, with the secrets and groups behind them
    raced,      \* whether a call opened the file that another had opened before
    pc,         \* the next step of each call, or its status code
    call,       \* what it is for, and what its handler has found
    params,     \* the group it has loaded
    proof,      \* the (t, s) it was sent with, and of what secret and group it was made
    crashes

vars == <<file, registered, raced, pc, call, params, proof, crashes>>

None == [none |-> TRUE]
Empty == [empty |-> TRUE]

Init ==
    /\ file = None
    /\ registered = [i \in Identifier |-> None]
    /\ raced = FALSE
    /\ pc = [c \in Call |-> "idle"]
    /\ call = [c \in Call |-> None]
    /\ params = [c \in Call |-> None]
    /\ proof = [c \in Call |-> None]
    /\ crashes = 0

-----------------------------------------------------------------------------
(* schnorr.py *)

Pow(base, exponent, p) ==
    LET power[n \in 0 .. exponent] == IF n = 0 THEN 1 ELSE (power[n - 1] * base) % p
    IN  power[exponent]

\* A safe prime, the order of its subgroup and the square of OpenSSL's generator.
GroupParameters(p) == [p |-> p, q |-> (p - 1) \div 2, g |-> Pow(2, 2, p)]

Public(x, G) == Pow(G.g, x, G.p)

FiatShamirChallenge(G, y, t) == 1 + ((3 * G.g + 5 * y + 7 * t) % (G.q - 1))

\* A bug: the exponent is reduced by the modulus, not by the order.
BugWrongOrder(x, r, c, G) == (r + c * x) % G.p

CreateResponse(x, r, c, G) == (r + c * x) % G.q

Prove(x, r, G) ==
    LET t == Pow(G.g, r, G.p)
    IN  [t |-> t, s |-> CreateResponse(x, r, FiatShamirChallenge(G, Public(x, G), t), G)]

Verify(y, pf, G) ==
    Pow(G.g, pf.s, G.p) = (pf.t * Pow(y, FiatShamirChallenge(G, y, pf.t), G.p)) % G.p

-----------------------------------------------------------------------------
(* _load_or_create_group_parameters, for the client and for the handler *)

At(c, step) == pc[c] = step
Go(c, step) == pc' = [pc EXCEPT ![c] = step]

\* The module looks for the file, and generates a group if there is none.
Look(c) ==
    /\ At(c, "look")
    /\ \/ /\ file # None
          /\ Go(c, "read")
          /\ UNCHANGED params
       \/ /\ file = None
          /\ \E p \in SafePrime : params' = [params EXCEPT ![c] = GroupParameters(p)]
          /\ Go(c, "open")
    /\ UNCHANGED <<file, registered, raced, call, proof, crashes>>

\* A file without three numbers raises: a 500 of the handler, no request of the client.
Read(c) ==
    /\ At(c, "read")
    /\ IF file = Empty
       THEN Go(c, "500") /\ UNCHANGED params
       ELSE Go(c, "use") /\ params' = [params EXCEPT ![c] = file]
    /\ UNCHANGED <<file, registered, raced, call, proof, crashes>>

Open(c) ==
    /\ At(c, "open")
    /\ raced' = (raced \/ file # None)
    /\ file' = Empty
    /\ Go(c, "write")
    /\ UNCHANGED <<registered, call, params, proof, crashes>>

Write(c) ==
    /\ At(c, "write")
    /\ file' = params[c]
    /\ Go(c, "use")
    /\ UNCHANGED <<registered, raced, call, params, proof, crashes>>

-----------------------------------------------------------------------------
(* The calls *)

Start(c, op, i, x) ==
    /\ At(c, "idle")
    /\ call' = [call EXCEPT ![c] = [op |-> op, id |-> i, x |-> x, found |-> None]]
    /\ Go(c, "look")
    /\ UNCHANGED <<file, registered, raced, params, proof, crashes>>

\* register, and POST /auth/zkp/register, which replaces an older value.
Enrol(c) ==
    LET k == call[c]
    IN  /\ At(c, "use") /\ k.op = "enrol"
        /\ registered' = [registered EXCEPT ![k.id] =
                           [y |-> Public(k.x, params[c]), x |-> k.x, group |-> params[c]]]
        /\ Go(c, "200")
        /\ UNCHANGED <<file, raced, call, params, proof, crashes>>

\* non_interactive_prove, of the client.
Send(c) ==
    /\ At(c, "use") /\ call[c].op = "prove" /\ proof[c] = None
    /\ \E r \in Random :
          proof' = [proof EXCEPT ![c] = [sent |-> Prove(call[c].x, r, params[c]),
                                         x |-> call[c].x, group |-> params[c]]]
    /\ Go(c, "find")
    /\ UNCHANGED <<file, registered, raced, call, params, crashes>>

\* Nothing in a request says who sends it: a proof that was sent once may be
\* sent again by anybody, for any identifier, without a group or a secret.
Replay(c, i, d) ==
    /\ At(c, "idle") /\ proof[d] # None
    /\ call' = [call EXCEPT ![c] = [op |-> "replay", id |-> i, found |-> None]]
    /\ proof' = [proof EXCEPT ![c] = proof[d]]
    /\ Go(c, "find")
    /\ UNCHANGED <<file, registered, raced, params, crashes>>

\* prove_identity, and then non_interactive_verify, which loads the group anew.
Find(c) ==
    /\ At(c, "find")
    /\ call' = [call EXCEPT ![c].found = registered[call[c].id]]
    /\ Go(c, IF registered[call[c].id] = None THEN "404" ELSE "look")
    /\ UNCHANGED <<file, registered, raced, params, proof, crashes>>

Judge(c) ==
    /\ At(c, "use") /\ proof[c] # None
    /\ Go(c, IF Verify(call[c].found.y, proof[c].sent, params[c]) THEN "200" ELSE "401")
    /\ UNCHANGED <<file, registered, raced, call, params, proof, crashes>>

-----------------------------------------------------------------------------
(* Processes that end *)

Working == {c \in Call : pc[c] \in {"look", "read", "open", "write", "use", "find"}}

\* A client is killed.
Kill(c) ==
    /\ c \in Working /\ proof[c] = None
    /\ crashes < MaxCrashes
    /\ crashes' = crashes + 1
    /\ Go(c, "killed")
    /\ UNCHANGED <<file, registered, raced, call, params, proof>>

\* The application restarts, and with it the registry and what it handles.
Restart ==
    /\ crashes < MaxCrashes
    /\ crashes' = crashes + 1
    /\ registered' = [i \in Identifier |-> None]
    /\ pc' = [c \in Call |-> IF c \in Working /\ proof[c] # None THEN "killed" ELSE pc[c]]
    /\ UNCHANGED <<file, raced, call, params, proof>>

Work(c) ==
    \/ Look(c) \/ Read(c) \/ Open(c) \/ Write(c)
    \/ Enrol(c) \/ Send(c) \/ Find(c) \/ Judge(c)

Next ==
    \/ \E c \in Call :
          \/ \E op \in {"enrol", "prove"}, i \in Identifier, x \in Secret : Start(c, op, i, x)
          \/ \E i \in Identifier, d \in Call : Replay(c, i, d)
          \/ Work(c)
          \/ Kill(c)
    \/ Restart

Spec == Init /\ [][Next]_vars

-----------------------------------------------------------------------------

\* What was registered, the proof and its check are of one group.
OneGroup(c) == proof[c].group = call[c].found.group /\ proof[c].group = params[c]

(* In one group, a proof is accepted exactly if it was made of the secret  *)
(* that is behind the value found registered, whoever sends it, for        *)
(* whichever identifier and whether for the first time or again: that      *)
(* somebody knew the secret is verified, not that the sender does ("the    *)
(* same (y, t, s) verifies every time", docs/5, section 2).  And there is  *)
(* one group ("persisting it to disk and reusing it"), through kills and   *)
(* restarts and enrolments, unless two calls both found the file missing   *)
(* and both opened it: only then may a true prover be refused.             *)
KnowledgeIsVerified ==
    \A c \in Call :
        proof[c] # None /\ pc[c] \in {"200", "401"} =>
            /\ ~raced => OneGroup(c)
            /\ OneGroup(c) => (pc[c] = "200" <=> call[c].found.x = proof[c].x)

=============================================================================
