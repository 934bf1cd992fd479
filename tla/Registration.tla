---------------------------- MODULE Registration ----------------------------
(***************************************************************************)
(* POST /auth/register (app/auth/routes.py) with its validation            *)
(* (middleware/validation.py), its hashing (auth/hashing.py) and the       *)
(* unique columns of users (models.py), in concurrent handler threads.     *)
(* Texts are records: what they say, their length in characters, a         *)
(* password's also in bytes of UTF-8, and whether they match the pattern   *)
(* of their field.                                                         *)
(***************************************************************************)
EXTENDS Integers, FiniteSets

CONSTANTS
    Request,   \* requests, each handled by a thread of its own
    Payload,   \* what they may carry
    MaxFaults  \* bound on the statements that the database fails

VARIABLES
    users,    \* table users
    payload,
    pc,       \* the next step of each request, or its status code
    looked,   \* the users there were when it looked
    faulted   \* the requests that met a failing database

vars == <<users, payload, pc, looked, faulted>>

None == [none |-> TRUE]
BcryptBytes == 72

Init ==
    /\ users = {}
    /\ payload = [r \in Request |-> None]
    /\ pc = [r \in Request |-> "idle"]
    /\ looked = [r \in Request |-> {}]
    /\ faulted = {}

-----------------------------------------------------------------------------

\* "$" passes over a newline at the end, which the length then leaves out.
ValidUsername(u) == u.length \in 3 .. 30 /\ u.matches

ValidEmail(e) == e.length \in 1 .. 255 /\ e.matches

ValidPassword(p) ==
    p.length >= 10 /\ {"uppercase", "lowercase", "number", "special"} \subseteq p.classes

\* validate_registration_input: every error, not the first one only.
Errors(p) ==
    {field \in {"username", "email", "password"} :
        ~CASE field = "username" -> ValidUsername(p.username)
           [] field = "email" -> ValidEmail(p.email)
           [] field = "password" -> ValidPassword(p.password)}

\* A password that is encoded in more bytes than bcrypt takes, whatever its
\* length: from version 5 it raises, before it drops the rest, and
\* requirements.txt admits both.
TooLong(p) == p.bytes > BcryptBytes

\* hash_password, salt and cost aside: the head is what the bytes it takes say.
HashPassword(p) == IF TooLong(p) THEN p.head ELSE p.text

VerifyPassword(p, hash) == HashPassword(p) = hash

\* The unique columns of users.
Conflicts(user, p) ==
    user.username = p.username.text \/ user.email = p.email.text

-----------------------------------------------------------------------------

At(r, step) == pc[r] = step
Go(r, step) == pc' = [pc EXCEPT ![r] = step]

\* A statement fails, for a lock or a full disk; get_db closes the session,
\* which rolls back.
Fault(r) ==
    /\ pc[r] \in {"look", "insert", "refresh"}
    /\ Cardinality(faulted) < MaxFaults
    /\ faulted' = faulted \cup {r}
    /\ Go(r, "500")
    /\ UNCHANGED <<users, payload, looked>>

Post(r, p) ==
    /\ At(r, "idle")
    /\ payload' = [payload EXCEPT ![r] = p]
    /\ Go(r, IF Errors(p) = {} THEN "look" ELSE "422")
    /\ UNCHANGED <<users, looked, faulted>>

\* A bug: only the name is looked for.
BugNameOnly(r) ==
    /\ At(r, "look")
    /\ looked' = [looked EXCEPT ![r] = users]
    /\ Go(r, IF \E u \in users : u.username = payload[r].username.text THEN "409" ELSE "hash")
    /\ UNCHANGED <<users, payload, faulted>>

LookUp(r) ==
    /\ At(r, "look")
    /\ looked' = [looked EXCEPT ![r] = users]
    /\ Go(r, IF \E u \in users : Conflicts(u, payload[r]) THEN "409" ELSE "hash")
    /\ UNCHANGED <<users, payload, faulted>>

Hash(r) ==
    /\ At(r, "hash")
    /\ \/ Go(r, "insert")
       \/ TooLong(payload[r].password) /\ Go(r, "500")
    /\ UNCHANGED <<users, payload, looked, faulted>>

\* add and commit: INSERT takes SQLite's write lock, and breaks on a name or an
\* address that is there by now.
Insert(r) ==
    LET p == payload[r]
    IN  /\ At(r, "insert")
        /\ IF \E u \in users : Conflicts(u, p)
           THEN Go(r, "500") /\ UNCHANGED users
           ELSE /\ users' = users \cup
                     {[username |-> p.username.text, email |-> p.email.text,
                       hash |-> HashPassword(p.password), by |-> r]}
                /\ Go(r, "refresh")
        /\ UNCHANGED <<payload, looked, faulted>>

Refresh(r) ==
    /\ At(r, "refresh")
    /\ Go(r, "201")
    /\ UNCHANGED <<users, payload, looked, faulted>>

Serve(r) == LookUp(r) \/ Hash(r) \/ Insert(r) \/ Refresh(r)

Next ==
    \E r \in Request : (\E p \in Payload : Post(r, p)) \/ Serve(r) \/ Fault(r)

Spec == Init /\ [][Next]_vars

-----------------------------------------------------------------------------

Own(r) == {u \in users : u.by = r}

(* What a registration is answered is what happened, whoever registers at  *)
(* the same time: 201 for the one that holds its name and its address, and *)
(* whose password logs in; 409 when somebody else held one of them, and    *)
(* 422 for bad input, with nothing stored; and 500 only if the database or *)
(* bcrypt failed, or somebody took the name between look-up and insert.    *)
OutcomeTold ==
    \A r \in Request :
        LET p == payload[r]
            takenBy(others) == \E u \in others : Conflicts(u, p) /\ u.by # r
        IN  /\ At(r, "201") =>
                 \E u \in Own(r) : /\ u.username = p.username.text /\ u.email = p.email.text
                                   /\ VerifyPassword(p.password, u.hash)
                                   /\ \A v \in users \ {u} : ~Conflicts(v, p)
            /\ At(r, "409") => Own(r) = {} /\ takenBy(looked[r])
            /\ At(r, "422") => Own(r) = {} /\ Errors(p) # {}
            /\ At(r, "500") =>
                 \/ r \in faulted
                 \/ TooLong(p.password)
                 \/ Own(r) = {} /\ takenBy(users \ looked[r])

=============================================================================
