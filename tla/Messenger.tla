----------------------------- MODULE Messenger -----------------------------
(***************************************************************************)
(* The command-line messenger (app/cli/messenger.py) over                  *)
(* app/messenger/e2e.py.  Its commands run as processes of their own, at   *)
(* the same time and on the same directory of keys: keygen replaces the    *)
(* two files of a user in place, send encrypts for the recipient's public  *)
(* key and signs with the sender's private one, receive verifies, then     *)
(* decrypts.  A process may be killed between any two steps, and the       *)
(* message file may be damaged on its way.                                 *)
(***************************************************************************)
EXTENDS Integers, Sequences, FiniteSets, FiniteSetsExt

CONSTANTS
    User,
    Terminal,    \* processes at the same time
    MaxKeygens,  \* bound on the keygens of all users
    MaxSends,    \* bound on the messages sent
    MaxDamages   \* bound on the damages to message files

VARIABLES
    private,  \* <user>.pem
    public,   \* <user>.pub.pem
    file,     \* the message file
    at,       \* the next step of each process
    job,      \* what it was called with and holds in memory
    keygens,  \* keygens begun, by user
    quiet,    \* the users whose last keygen ran to its end, by itself
    sent,     \* the messages that send wrote, with the keygens begun when it was called
    damages   \* damages so far

keys == <<private, public>>
past == <<keygens, quiet, sent, damages>>
vars == <<keys, file, at, job, past>>

\* A key is its user's n-th; a file without a key is missing or empty.
Key == User \X (1..MaxKeygens)
Missing == <<>>
Empty == <<0>>

GenerateKeyPair(u, n) == <<u, n>>

\* The JSON of a message: the claimed sender, the key it is encrypted for, the
\* key it is signed by, whether the bytes are as written; id is its text.
Payload == [sender : User, key : Key, by : Key, intact : BOOLEAN, id : 1..MaxSends]
NoFile == [id |-> 0]
TornFile == [id |-> -1]

Idle == [command |-> "none"]
Started == {"write_private", "put_private", "open_public", "put_public"}
Verdicts == {"shown", "rejected", "undecryptable"}

-----------------------------------------------------------------------------

Init ==
    /\ private = [u \in User |-> Missing]
    /\ public = [u \in User |-> Missing]
    /\ file = NoFile
    /\ at = [p \in Terminal |-> "idle"]
    /\ job = [p \in Terminal |-> Idle]
    /\ keygens = [u \in User |-> 0]
    /\ quiet = {}
    /\ sent = <<>>
    /\ damages = 0

Goto(p, step) == at' = [at EXCEPT ![p] = step]

\* The command is over, with or without a complaint.
Exit(p) == Goto(p, "idle") /\ job' = [job EXCEPT ![p] = Idle]

-----------------------------------------------------------------------------
(* keygen *)

KeygensBegun == MapThenSumSet(LAMBDA u : keygens[u], User)

\* Nobody is at work on the key files of u.
NoKeygenOf(u) == \A q \in Terminal : at[q] \in Started => job[q].user # u

\* The passphrase is asked for and the pair made before a file is touched.
\* Nothing keeps two keygens of one user apart; whether it began by itself is
\* noted for the properties.
Keygen(p, u) ==
    /\ at[p] = "idle" /\ KeygensBegun < MaxKeygens
    /\ Goto(p, "write_private")
    /\ keygens' = [keygens EXCEPT ![u] = @ + 1]
    /\ quiet' = quiet \ {u}
    /\ job' = [job EXCEPT ![p] = [command |-> "keygen", user |-> u, alone |-> NoKeygenOf(u),
                               made |-> GenerateKeyPair(u, keygens'[u])]]
    /\ UNCHANGED <<keys, file, sent, damages>>

\* It began by itself, and none of its user has begun since.
ByItself(p) == job[p].alone /\ job[p].made = <<job[p].user, keygens[job[p].user]>>

\* The users with a whole pair once p has ended.
QuietAfter(p) == IF ByItself(p) THEN quiet \cup {job[p].user} ELSE quiet

\* write_bytes empties the file, then writes it.
OpenPrivate(p) ==
    /\ at[p] = "write_private"
    /\ private' = [private EXCEPT ![job[p].user] = Empty]
    /\ Goto(p, "put_private")
    /\ UNCHANGED <<public, file, job, past>>

WritePrivate(p) ==
    /\ at[p] = "put_private"
    /\ private' = [private EXCEPT ![job[p].user] = job[p].made]
    /\ Goto(p, "open_public")
    /\ UNCHANGED <<public, file, job, past>>

OpenPublic(p) ==
    /\ at[p] = "open_public"
    /\ public' = [public EXCEPT ![job[p].user] = Empty]
    /\ Goto(p, "put_public")
    /\ UNCHANGED <<private, file, job, past>>

\* A bug: the public file keeps the first key it ever held.
BugKeepPublic(p) ==
    /\ at[p] = "put_public"
    /\ public' = [public EXCEPT ![job[p].user] = <<job[p].user, 1>>]
    /\ quiet' = QuietAfter(p)
    /\ Exit(p)
    /\ UNCHANGED <<private, file, keygens, sent, damages>>

WritePublic(p) ==
    /\ at[p] = "put_public"
    /\ public' = [public EXCEPT ![job[p].user] = job[p].made]
    /\ quiet' = QuietAfter(p)
    /\ Exit(p)
    /\ UNCHANGED <<private, file, keygens, sent, damages>>

-----------------------------------------------------------------------------
(* send *)

\* Called; without a public file of the recipient the command ends at once.
Send(p, s, r) ==
    /\ at[p] = "idle" /\ Len(sent) < MaxSends
    /\ public[r] # Missing
    /\ job' = [job EXCEPT ![p] = [command |-> "send", user |-> s, peer |-> r,
                               since |-> keygens, settled |-> {s, r} \subseteq quiet,
                               with |-> Missing, payload |-> NoFile]]
    /\ Goto(p, "unlock")
    /\ UNCHANGED <<keys, file, past>>

\* The ciphertext is what is signed; which message it is, is settled when it is sent.
EncryptAndSign(sender, key, by) ==
    [sender |-> sender, key |-> key, by |-> by, intact |-> TRUE, id |-> 0]

\* The public key is loaded, the message encrypted and signed.  The command
\* ends here for an empty public key, and for a message too long for RSA.
Encrypt(p) ==
    LET s == job[p].user
        r == job[p].peer
    IN  /\ at[p] = "encrypt"
        /\ \/ Exit(p)
           \/ /\ public[r] \in Key
              /\ job' = [job EXCEPT ![p].payload = EncryptAndSign(s, public[r], job[p].with)]
              /\ Goto(p, "open_message")
        /\ UNCHANGED <<keys, file, past>>

\* write_text empties the file, then writes it.
OpenMessage(p) ==
    /\ at[p] = "open_message"
    /\ file' = TornFile
    /\ Goto(p, "put_message")
    /\ UNCHANGED <<keys, job, past>>

PutMessage(p) ==
    /\ at[p] = "put_message" /\ Len(sent) < MaxSends
    /\ file' = [job[p].payload EXCEPT !.id = Len(sent) + 1]
    /\ sent' = Append(sent, [from |-> job[p].user, to |-> job[p].peer,
                             keygens |-> job[p].since, quiet |-> job[p].settled])
    /\ Exit(p)
    /\ UNCHANGED <<keys, keygens, quiet, damages>>

-----------------------------------------------------------------------------
(* Both unlock a private key *)

\* After the prompt the user's private key is read, and stays in memory.  The
\* command ends if the file is missing, or does not yield a key: an empty file
\* fails like a wrong passphrase does.
UnlockPrivate(p) ==
    LET pem == private[job[p].user]
    IN  /\ at[p] = "unlock"
        /\ \/ Exit(p)
           \/ /\ pem \in Key
              /\ job' = [job EXCEPT ![p].with = pem]
              /\ Goto(p, IF job[p].command = "send" THEN "encrypt" ELSE "verify")
        /\ UNCHANGED <<keys, file, past>>

-----------------------------------------------------------------------------
(* receive *)

\* The message is read; the command ends at once if it does not parse, or
\* without a public file of the claimed sender.
Receive(p, r) ==
    /\ at[p] = "idle"
    /\ file \in Payload /\ public[file.sender] # Missing
    /\ job' = [job EXCEPT ![p] = [command |-> "receive", user |-> r,
                               with |-> Missing, payload |-> file]]
    /\ Goto(p, "unlock")
    /\ UNCHANGED <<keys, file, past>>

\* A bug: the message is decrypted although its signature is another's.
BugSkipVerify(payload, pub, priv) ==
    IF ~payload.intact \/ payload.key # priv THEN "undecryptable" ELSE "shown"

\* verify_and_decrypt: the signature first.
Verdict(payload, pub, priv) ==
    IF ~payload.intact \/ payload.by # pub
    THEN "rejected"
    ELSE IF payload.key # priv THEN "undecryptable" ELSE "shown"

\* The claimed sender's public key is read now, long after it was found to exist.
Verify(p) ==
    LET pub == public[job[p].payload.sender]
    IN  /\ at[p] = "verify"
        /\ IF pub \in {Missing, Empty}
           THEN Exit(p)
           ELSE Goto(p, Verdict(job[p].payload, pub, job[p].with)) /\ UNCHANGED job
        /\ UNCHANGED <<keys, file, past>>

-----------------------------------------------------------------------------
(* The world *)

\* The verdict is read from the terminal.
Leave(p) ==
    /\ at[p] \in Verdicts
    /\ Exit(p)
    /\ UNCHANGED <<keys, file, past>>

\* A command is killed half-way.
Kill(p) ==
    /\ at[p] \in Started \cup {"unlock", "encrypt", "open_message", "put_message", "verify"}
    /\ Exit(p)
    /\ UNCHANGED <<keys, file, past>>

\* On its way a message gets other bytes, or another sender's name.  (One who
\* signs it anew with a key of his own sends it, as far as the code can tell.)
Damage ==
    /\ file \in Payload /\ damages < MaxDamages
    /\ damages' = damages + 1
    /\ \/ file' = [file EXCEPT !.intact = FALSE]
       \/ \E u \in User \ {file.sender} : file' = [file EXCEPT !.sender = u]
    /\ UNCHANGED <<keys, at, job, keygens, quiet, sent>>

RunKeygen(p) ==
    \/ \E u \in User : Keygen(p, u)
    \/ OpenPrivate(p) \/ WritePrivate(p) \/ OpenPublic(p) \/ WritePublic(p)

RunSend(p) ==
    \/ \E s, r \in User : Send(p, s, r)
    \/ Encrypt(p) \/ OpenMessage(p) \/ PutMessage(p)

RunReceive(p) ==
    \/ \E r \in User : Receive(p, r)
    \/ Verify(p)

Next ==
    \/ \E p \in Terminal :
        \/ RunKeygen(p) \/ RunSend(p) \/ RunReceive(p) \/ UnlockPrivate(p)
        \/ Leave(p) \/ Kill(p)
    \/ Damage

Spec == Init /\ [][Next]_vars

-----------------------------------------------------------------------------

(* "From {sender} (signature verified)": what receive shows was sent by    *)
(* the user it names to the user who reads it, whatever happened to the    *)
(* file and to the keys in between.                                        *)
ShownWasSent ==
    \A p \in Terminal : at[p] = "shown" =>
        LET m == sent[job[p].payload.id]
        IN  m.from = job[p].payload.sender /\ m.to = job[p].user

(* A message reaches the one it was meant for: if the last keygen of both  *)
(* had run to its end when send was called, overlapping with no other of   *)
(* the same user, neither user has begun one since, and the file is not    *)
(* damaged, then the recipient's receive neither rejects it nor fails to   *)
(* decrypt it, whatever other commands ran or were killed.  Without the    *)
(* precondition it does not hold: nothing keeps two keygens of one user    *)
(* apart, and they may leave the halves of different pairs.                *)
IntactIsShown ==
    \A p \in Terminal :
        /\ at[p] \in {"rejected", "undecryptable"}
        /\ job[p].payload.intact
        => LET m == sent[job[p].payload.id]
           IN  \/ job[p].payload.sender # m.from \/ job[p].user # m.to
               \/ ~m.quiet
               \/ \E u \in {m.from, m.to} : keygens[u] > m.keygens[u]

=============================================================================
