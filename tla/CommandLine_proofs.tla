------------------------- MODULE CommandLine_proofs -------------------------
(***************************************************************************)
(* Proofs about the two command-line programs, for every number of users,  *)
(* terminals and processes: first the messenger, then the password         *)
(* manager.  MCCommandLine runs one of the two; what is proved of each     *)
(* holds of it.                                                            *)
(***************************************************************************)
EXTENDS MCCommandLine, FiniteSetTheorems, SequenceTheorems, WellFoundedInduction, TLAPS

-----------------------------------------------------------------------------
(* The messenger *)

Contents == {Missing, Empty} \cup (User \X Nat)
Sent == [from : User, to : User, keygens : [User -> Nat], quiet : BOOLEAN]

Steps == {"idle", "unlock", "encrypt", "open_message", "put_message", "verify"} \cup Started \cup Verdicts

\* The variables that have a type of their own.
Typing ==
    /\ private \in [User -> Contents] /\ public \in [User -> Contents]
    /\ at \in [Terminal -> Steps]
    /\ job = [p \in Terminal |-> job[p]]
    /\ keygens \in [User -> Nat]
    /\ quiet \subseteq User
    /\ sent \in Seq(Sent)

\* A key file holds its owner's keys only, and a user whose last keygen ran to
\* its end has both halves of the newest pair.
KeysOwn ==
    \A u \in User :
        /\ private[u] \in {Missing, Empty} \cup ({u} \X Nat)
        /\ public[u] \in {Missing, Empty} \cup ({u} \X Nat)
        /\ u \in quiet => private[u] = <<u, keygens[u]>> /\ public[u] = <<u, keygens[u]>>

\* A keygen at work has made a pair of its user; one that runs by itself is
\* the only one of its user, and its private key stays where it was put.
KeygenAlone ==
    \A p \in Terminal : at[p] \in Started =>
        LET u == job[p].user
        IN  /\ u \in User \ quiet
            /\ job[p].made = <<u, job[p].made[2]>>
            /\ job[p].made[2] \in Nat /\ job[p].made[2] <= keygens[u]
            /\ ByItself(p) =>
                  /\ at[p] \in {"open_public", "put_public"} => private[u] = job[p].made
                  /\ \A q \in Terminal \ {p} : at[q] \in Started => job[q].user # u

\* Nobody among users has begun a keygen since, and none was under way.
Current(since, settled, users) ==
    settled /\ \A u \in users : keygens[u] <= since[u]

\* What was noted when send was called is not ahead of the keygens, and where
\* it is not behind them either, the users still have the keys of then.
Noted(since, settled, users) ==
    /\ since \in [User -> Nat]
    /\ \A u \in User : since[u] <= keygens[u]
    /\ Current(since, settled, users) => users \subseteq quiet

\* A message is encrypted for a key of the user to and signed by one of from;
\* where those two have the keys of then, for and by these.
Keyed(m, from, to, current) ==
    /\ m.key \in {to} \X Nat /\ m.by \in {from} \X Nat
    /\ current => m.key = <<to, keygens[to]>> /\ m.by = <<from, keygens[from]>>

SendOK(p) ==
    LET k == job[p]
        current == Current(k.since, k.settled, {k.user, k.peer})
    IN  /\ {"with", "payload"} \subseteq DOMAIN k
        /\ k.user \in User /\ k.peer \in User /\ k.settled \in BOOLEAN
        /\ Noted(k.since, k.settled, {k.user, k.peer})
        /\ at[p] \in {"encrypt", "open_message", "put_message"} =>
              /\ k.with \in {k.user} \X Nat
              /\ current => k.with = <<k.user, keygens[k.user]>>
        /\ at[p] \in {"open_message", "put_message"} =>
              /\ k.payload = EncryptAndSign(k.user, k.payload.key, k.with)
              /\ Keyed(k.payload, k.user, k.peer, current)

\* The message has been sent as the keys it names say.
Carried(m) ==
    /\ m \in Payload /\ m.id \in DOMAIN sent
    /\ LET s == sent[m.id]
       IN  Keyed(m, s.from, s.to, Current(s.keygens, s.quiet, {s.from, s.to}))

ReceiveOK(p) ==
    LET k == job[p]
        m == k.payload
        s == sent[m.id]
    IN  /\ {"with", "payload"} \subseteq DOMAIN k
        /\ k.user \in User /\ Carried(m)
        /\ at[p] = "verify" =>
              /\ k.with \in {k.user} \X Nat
              /\ k.user = s.to /\ Current(s.keygens, s.quiet, {s.from, s.to}) =>
                    k.with = <<s.to, keygens[s.to]>>
        /\ at[p] = "shown" => m.by[1] = m.sender /\ m.key[1] = k.user
        /\ at[p] \in {"rejected", "undecryptable"} /\ m.intact /\ m.sender = s.from /\ k.user = s.to =>
              ~Current(s.keygens, s.quiet, {s.from, s.to})

Jobs ==
    \A p \in Terminal :
        /\ at[p] = "unlock" => job[p].command \in {"send", "receive"}
        /\ at[p] \in {"encrypt", "open_message", "put_message"} => job[p].command = "send"
        /\ at[p] \in {"verify"} \cup Verdicts => job[p].command = "receive"
        /\ at[p] \in {"unlock", "encrypt", "open_message", "put_message"} /\ job[p].command = "send" => SendOK(p)
        /\ at[p] \in {"unlock", "verify"} \cup Verdicts /\ job[p].command = "receive" => ReceiveOK(p)

Messages ==
    /\ \A i \in DOMAIN sent :
          Noted(sent[i].keygens, sent[i].quiet, {sent[i].from, sent[i].to})
    /\ file \in Payload => Carried(file)

MessengerInv == Typing /\ KeysOwn /\ KeygenAlone /\ Jobs /\ Messages

-----------------------------------------------------------------------------

\* Another keygen takes what was noted of its user out of date, and leaves
\* what was noted of others as it was.
LEMMA KeygenOutdates ==
    ASSUME Typing, NEW u \in User,
           keygens' = [keygens EXCEPT ![u] = @ + 1], quiet' = quiet \ {u},
           NEW since, NEW settled, NEW users \in SUBSET User,
           Noted(since, settled, users)
    PROVE  /\ Noted(since, settled, users)'
           /\ Current(since, settled, users)' =>
                 /\ Current(since, settled, users)
                 /\ \A v \in users : keygens'[v] = keygens[v]
  <1>1. \A v \in User : keygens[v] \in Nat /\ since[v] \in Nat /\ since[v] <= keygens[v]
    BY DEF Typing, Noted
  <1>2. \A v \in User : keygens'[v] = IF v = u THEN keygens[v] + 1 ELSE keygens[v]
    BY DEF Typing
  <1>3. Current(since, settled, users)' =>
           Current(since, settled, users) /\ u \notin users
    BY <1>1, <1>2 DEF Current
  <1> QED
    BY <1>1, <1>2, <1>3 DEF Noted

\* The state that a job and a message are judged by.
Background == <<keygens, quiet, sent>>

LEMMA SameJob ==
    ASSUME UNCHANGED Background, NEW q, at'[q] = at[q], job'[q] = job[q]
    PROVE  SendOK(q)' = SendOK(q) /\ ReceiveOK(q)' = ReceiveOK(q)
  BY DEF Background, SendOK, ReceiveOK, Noted, Current, Keyed, Carried

LEMMA SameMessage ==
    ASSUME UNCHANGED Background, NEW m
    PROVE  Carried(m)' = Carried(m)
  BY DEF Background, Current, Keyed, Carried

\* A process takes a step that touches no key, and that the others see nothing of.
LEMMA OwnStep ==
    ASSUME MessengerInv, NEW p \in Terminal, NEW step, NEW k,
           UNCHANGED <<keys, Background>>,
           at' = [at EXCEPT ![p] = step], job' = [job EXCEPT ![p] = k],
           step \in {"idle", "unlock", "encrypt", "open_message", "put_message", "verify"} \cup Verdicts,
           file' \in Payload => Carried(file'),
           step = "unlock" => k.command \in {"send", "receive"},
           step \in {"encrypt", "open_message", "put_message"} => k.command = "send",
           step \in {"verify"} \cup Verdicts => k.command = "receive",
           step \in {"unlock", "encrypt", "open_message", "put_message"} /\ k.command = "send" => SendOK(p)',
           step \in {"unlock", "verify"} \cup Verdicts /\ k.command = "receive" => ReceiveOK(p)'
    PROVE  MessengerInv'
  <1> USE DEF MessengerInv, Steps, Started, Verdicts
  <1>1. /\ \A q \in Terminal \ {p} : at'[q] = at[q] /\ job'[q] = job[q]
        /\ at'[p] = step /\ job'[p] = k
    BY DEF Typing
  <1>2. Typing'
    BY DEF Typing, keys, Background
  <1>3. KeysOwn'
    BY DEF KeysOwn, keys, Background
  <1>4. KeygenAlone'
    BY <1>1 DEF KeygenAlone, ByItself, keys, Background
  <1>5. Jobs'
    <2> SUFFICES ASSUME NEW q \in Terminal, q # p
                 PROVE  /\ at'[q] = "unlock" => job'[q].command \in {"send", "receive"}
                        /\ at'[q] \in {"encrypt", "open_message", "put_message"} => job'[q].command = "send"
                        /\ at'[q] \in {"verify"} \cup Verdicts => job'[q].command = "receive"
                        /\ at'[q] \in {"unlock", "encrypt", "open_message", "put_message"} /\ job'[q].command = "send" => SendOK(q)'
                        /\ at'[q] \in {"unlock", "verify"} \cup Verdicts /\ job'[q].command = "receive" => ReceiveOK(q)'
      BY <1>1 DEF Jobs
    <2>1. SendOK(q)' = SendOK(q) /\ ReceiveOK(q)' = ReceiveOK(q)
      BY <1>1, SameJob
    <2> QED
      BY <1>1, <2>1 DEF Jobs
  <1>6. Messages'
    <2>1. \A i \in DOMAIN sent : Noted(sent[i].keygens, sent[i].quiet, {sent[i].from, sent[i].to})'
      BY DEF Messages, Noted, Current, Background
    <2>2. file' \in Payload => Carried(file)'
      BY SameMessage DEF Carried, Keyed, Current, Background
    <2> QED
      BY <2>1, <2>2 DEF Messages, Background
  <1> QED
    BY <1>2, <1>3, <1>4, <1>5, <1>6


-----------------------------------------------------------------------------

LEMMA SentTyped ==
    ASSUME Typing, NEW i \in DOMAIN sent
    PROVE  sent[i] \in Sent
  <1>1. DOMAIN sent = 1..Len(sent)
    BY DEF Typing
  <1> QED
    BY <1>1 DEF Typing

LEMMA MessengerStarts == Init => MessengerInv
  <1> SUFFICES ASSUME Init PROVE MessengerInv
    OBVIOUS
  <1> USE DEF Init, Steps, Started, Verdicts
  <1>1. Typing /\ KeysOwn /\ KeygenAlone /\ Jobs
    BY DEF Typing, KeysOwn, KeygenAlone, Jobs, Contents, Missing, Idle
  <1>2. Messages
    BY DEF Messages, NoFile, Payload
  <1> QED
    BY <1>1, <1>2 DEF MessengerInv

\* The command ends, and leaves no message or a broken one.
LEMMA ExitKeeps ==
    ASSUME MessengerInv, NEW p \in Terminal, Exit(p), UNCHANGED <<keys, past>>,
           UNCHANGED file
    PROVE  MessengerInv'
  <1>1. file' \in Payload => Carried(file')
    BY DEF MessengerInv, Messages
  <1>2. UNCHANGED <<keys, Background>> /\ at' = [at EXCEPT ![p] = "idle"] /\ job' = [job EXCEPT ![p] = Idle]
    BY DEF Exit, Goto, past, Background
  <1> QED
    BY <1>1, <1>2, OwnStep DEF Verdicts

LEMMA SendKeeps ==
    ASSUME MessengerInv, NEW p \in Terminal, NEW s \in User, NEW r \in User, Send(p, s, r)
    PROVE  MessengerInv'
  <1> DEFINE k == [command |-> "send", user |-> s, peer |-> r,
                   since |-> keygens, settled |-> {s, r} \subseteq quiet,
                   with |-> Missing, payload |-> NoFile]
  <1>1. /\ UNCHANGED <<keys, Background>>
        /\ at' = [at EXCEPT ![p] = "unlock"] /\ job' = [job EXCEPT ![p] = k]
    BY DEF Send, Goto, past, Background
  <1>2. file' \in Payload => Carried(file')
    BY DEF Send, MessengerInv, Messages
  <1>3. at'[p] = "unlock" /\ job'[p] = k
    BY <1>1 DEF MessengerInv, Typing
  <1>4. SendOK(p)'
    <2>1. keygens \in [User -> Nat] /\ {s, r} \subseteq User
      BY DEF MessengerInv, Typing
    <2>2. Noted(keygens, {s, r} \subseteq quiet, {s, r})'
      BY <1>1, <2>1 DEF Noted, Current, Background
    <2>3. k.user = s /\ k.peer = r /\ k.since = keygens /\ k.settled = ({s, r} \subseteq quiet)
          /\ {"with", "payload"} \subseteq DOMAIN k
      OBVIOUS
    <2> HIDE DEF k
    <2> QED
      BY <1>1, <1>3, <2>2, <2>3 DEF SendOK, Background
  <1> HIDE DEF k
  <1>5. k.command = "send"
    BY DEF k
  <1> QED
    BY <1>1, <1>2, <1>4, <1>5, OwnStep DEF Verdicts

LEMMA UnlockPrivateKeeps ==
    ASSUME MessengerInv, NEW p \in Terminal, UnlockPrivate(p)
    PROVE  MessengerInv'
  <1>1. CASE Exit(p)
    BY <1>1, ExitKeeps DEF UnlockPrivate
  <1>2. CASE ~Exit(p)
    <2> DEFINE pem == private[job[p].user]
               k == [job[p] EXCEPT !.with = pem]
               step == IF job[p].command = "send" THEN "encrypt" ELSE "verify"
    <2>1. /\ at[p] = "unlock" /\ pem \in Key
          /\ UNCHANGED <<keys, Background>> /\ UNCHANGED file
          /\ at' = [at EXCEPT ![p] = step] /\ job' = [job EXCEPT ![p] = k]
      BY <1>2 DEF UnlockPrivate, Goto, past, Background
    <2>2. file' \in Payload => Carried(file')
      BY <2>1 DEF MessengerInv, Messages
    <2>3. at'[p] = step /\ job'[p] = k
      BY <2>1 DEF MessengerInv, Typing
    <2>4. job[p].command \in {"send", "receive"} /\ job[p].user \in User
      BY <2>1 DEF MessengerInv, Jobs, SendOK, ReceiveOK
    <2>5. /\ pem \in {job[p].user} \X Nat
          /\ job[p].user \in quiet => pem = <<job[p].user, keygens[job[p].user]>>
      BY <2>1, <2>4 DEF MessengerInv, KeysOwn, Key, Missing, Empty
    <2>6. ASSUME job[p].command = "send"
          PROVE  SendOK(p)'
      <3>1. SendOK(p)
        BY <2>1, <2>6 DEF MessengerInv, Jobs
      <3>2. k.user = job[p].user /\ k.peer = job[p].peer /\ k.since = job[p].since
            /\ k.settled = job[p].settled /\ step = "encrypt"
        BY <2>6
      <3>3. k.with = pem
        BY <2>6
      <3>4. {"with", "payload"} \subseteq DOMAIN k
        BY <3>1 DEF SendOK
      <3> HIDE DEF k, pem
      <3> QED
        BY <2>1, <2>3, <2>5, <3>1, <3>2, <3>3, <3>4 DEF SendOK, Noted, Current, Background
    <2>7. ASSUME job[p].command = "receive"
          PROVE  ReceiveOK(p)'
      <3>1. ReceiveOK(p)
        BY <2>1, <2>7 DEF MessengerInv, Jobs
      <3>2. k.user = job[p].user /\ k.payload = job[p].payload /\ step = "verify"
        BY <2>7
      <3>3. k.with = pem
        BY <2>7
      <3> DEFINE m == job[p].payload
                 s == sent[m.id]
      <3>4. Carried(m)' = Carried(m)
        BY <2>1, SameMessage
      <3>5. Current(s.keygens, s.quiet, {s.from, s.to}) => s.to \in quiet
        BY <3>1 DEF MessengerInv, Messages, Noted, ReceiveOK, Carried
      <3>6. {"with", "payload"} \subseteq DOMAIN k
        BY <3>1 DEF ReceiveOK
      <3> HIDE DEF k, pem
      <3>7. ASSUME k.user = s.to, Current(s.keygens, s.quiet, {s.from, s.to})
            PROVE  pem = <<s.to, keygens[s.to]>>
        BY <2>5, <3>2, <3>5, <3>7
      <3>8. /\ at'[p] = "verify" /\ job'[p].payload = m /\ job'[p].user = job[p].user
            /\ job'[p].with = pem /\ {"with", "payload"} \subseteq DOMAIN job'[p]
            /\ sent' = sent /\ keygens' = keygens
        BY <2>1, <2>3, <3>2, <3>3, <3>6 DEF Background
      <3>9. Carried(job[p].payload)' /\ job'[p].user \in User /\ pem \in {job'[p].user} \X Nat
        BY <2>4, <2>5, <3>1, <3>4, <3>8 DEF ReceiveOK
      <3>10. job'[p].user = s.to /\ Current(s.keygens, s.quiet, {s.from, s.to}) =>
                pem = <<s.to, keygens[s.to]>>
        BY <3>2, <3>7, <3>8
      <3> QED
        BY <3>8, <3>9, <3>10 DEF ReceiveOK, Current
    <2>8. k.command = job[p].command
      OBVIOUS
    <2> HIDE DEF k
    <2> QED
      BY <2>1, <2>2, <2>4, <2>6, <2>7, <2>8, OwnStep DEF Verdicts
  <1> QED
    BY <1>1, <1>2


LEMMA EncryptKeeps ==
    ASSUME MessengerInv, NEW p \in Terminal, Encrypt(p)
    PROVE  MessengerInv'
  <1>1. CASE Exit(p)
    BY <1>1, ExitKeeps DEF Encrypt
  <1>2. CASE ~Exit(p)
    <2> DEFINE u == job[p].user
               r == job[p].peer
               m == EncryptAndSign(u, public[r], job[p].with)
               k == [job[p] EXCEPT !.payload = m]
    <2>1. /\ at[p] = "encrypt" /\ public[r] \in Key
          /\ UNCHANGED <<keys, Background>> /\ UNCHANGED file
          /\ at' = [at EXCEPT ![p] = "open_message"] /\ job' = [job EXCEPT ![p] = k]
      BY <1>2 DEF Encrypt, Goto, past, Background
    <2>2. file' \in Payload => Carried(file')
      BY <2>1 DEF MessengerInv, Messages
    <2>3. at'[p] = "open_message" /\ job'[p] = k
      BY <2>1 DEF MessengerInv, Typing
    <2>4. job[p].command = "send" /\ SendOK(p)
      BY <2>1 DEF MessengerInv, Jobs
    <2>5. /\ public[r] \in {r} \X Nat
          /\ r \in quiet => public[r] = <<r, keygens[r]>>
      BY <2>1, <2>4 DEF SendOK, MessengerInv, KeysOwn, Key, Missing, Empty
    <2>6. /\ k.user = u /\ k.peer = r /\ k.since = job[p].since /\ k.settled = job[p].settled
          /\ k.with = job[p].with /\ k.payload = m /\ k.command = job[p].command
          /\ DOMAIN k = DOMAIN job[p]
      OBVIOUS
    <2>7. m.key = public[r] /\ m.by = job[p].with /\ m = EncryptAndSign(u, m.key, job[p].with)
      BY DEF EncryptAndSign
    <2> HIDE DEF k, m
    <2>8. Keyed(m, u, r, Current(job[p].since, job[p].settled, {u, r}))
      BY <2>1, <2>4, <2>5, <2>7 DEF SendOK, Keyed, Noted
    <2>9. SendOK(p)'
      BY <2>1, <2>3, <2>4, <2>6, <2>7, <2>8 DEF SendOK, Noted, Current, Keyed, Background
    <2> QED
      BY <2>1, <2>2, <2>4, <2>6, <2>9, OwnStep DEF Verdicts
  <1> QED
    BY <1>1, <1>2

LEMMA OpenMessageKeeps ==
    ASSUME MessengerInv, NEW p \in Terminal, OpenMessage(p)
    PROVE  MessengerInv'
  <1> DEFINE k == job[p]
  <1>1. /\ at[p] = "open_message" /\ at' = [at EXCEPT ![p] = "put_message"]
        /\ UNCHANGED <<keys, Background>> /\ file' = TornFile /\ job' = job
    BY DEF OpenMessage, Goto, past, Background
  <1>2. job' = [job EXCEPT ![p] = k] /\ at'[p] = "put_message" /\ job'[p] = k
    BY <1>1 DEF MessengerInv, Typing
  <1>3. file' \notin Payload
    BY <1>1 DEF TornFile, Payload
  <1>4. k.command = "send" /\ SendOK(p)
    BY <1>1 DEF MessengerInv, Jobs
  <1>5. SendOK(p)'
    BY <1>1, <1>2, <1>4 DEF SendOK, Noted, Current, Keyed, Background
  <1> QED
    BY <1>1, <1>2, <1>3, <1>4, <1>5, OwnStep DEF Verdicts

LEMMA ReceiveKeeps ==
    ASSUME MessengerInv, NEW p \in Terminal, NEW r \in User, Receive(p, r)
    PROVE  MessengerInv'
  <1> DEFINE k == [command |-> "receive", user |-> r, with |-> Missing, payload |-> file]
  <1>1. /\ UNCHANGED <<keys, Background>> /\ UNCHANGED file
        /\ at' = [at EXCEPT ![p] = "unlock"] /\ job' = [job EXCEPT ![p] = k]
    BY DEF Receive, Goto, past, Background
  <1>2. Carried(file) /\ (file' \in Payload => Carried(file'))
    BY <1>1 DEF Receive, MessengerInv, Messages
  <1>3. at'[p] = "unlock" /\ job'[p] = k
    BY <1>1 DEF MessengerInv, Typing
  <1>4. k.command = "receive" /\ k.user = r /\ k.payload = file /\ {"with", "payload"} \subseteq DOMAIN k
    OBVIOUS
  <1> HIDE DEF k
  <1>5. Carried(file)' = Carried(file)
    BY <1>1, SameMessage DEF Carried, Keyed, Current, Background
  <1>6. ReceiveOK(p)'
    BY <1>1, <1>2, <1>3, <1>4, <1>5 DEF ReceiveOK
  <1> QED
    BY <1>1, <1>2, <1>4, <1>6, OwnStep DEF Verdicts

LEMMA VerifyKeeps ==
    ASSUME MessengerInv, NEW p \in Terminal, Verify(p)
    PROVE  MessengerInv'
  <1> DEFINE k == job[p]
             m == k.payload
             s == sent[m.id]
             pub == public[m.sender]
             verdict == Verdict(m, pub, k.with)
  <1>1. CASE pub \in {Missing, Empty}
    BY <1>1, ExitKeeps DEF Verify
  <1>2. CASE pub \notin {Missing, Empty}
    <2>1. /\ at[p] = "verify"
          /\ UNCHANGED <<keys, Background>> /\ UNCHANGED <<file, job>>
          /\ at' = [at EXCEPT ![p] = verdict]
      BY <1>2 DEF Verify, Goto, past, Background
    <2>2. file' \in Payload => Carried(file')
      BY <2>1 DEF MessengerInv, Messages
    <2>3. at'[p] = verdict /\ job' = [job EXCEPT ![p] = k] /\ job'[p] = k
      <3>1. job = [q \in Terminal |-> job[q]]
        BY DEF MessengerInv, Typing
      <3>2. job = [job EXCEPT ![p] = job[p]]
        BY <3>1
      <3> HIDE DEF verdict
      <3> QED
        BY <2>1, <3>2 DEF MessengerInv, Typing
    <2>4. k.command = "receive" /\ ReceiveOK(p)
      BY <2>1 DEF MessengerInv, Jobs
    <2>5. /\ m \in Payload /\ m.id \in DOMAIN sent /\ k.user \in User
          /\ m.by \in {s.from} \X Nat /\ m.key \in {s.to} \X Nat
          /\ k.with \in {k.user} \X Nat
      BY <2>1, <2>4 DEF ReceiveOK, Carried, Keyed
    <2>6. m.sender \in User /\ s.from \in User /\ s.to \in User
      <3>1. s \in Sent
        BY <2>5, SentTyped DEF MessengerInv
      <3>2. m.sender \in User
        BY <2>5 DEF Payload
      <3> QED
        BY <3>1, <3>2 DEF Sent
    <2>7. /\ pub \in {m.sender} \X Nat
          /\ m.sender \in quiet => pub = <<m.sender, keygens[m.sender]>>
      BY <1>2, <2>6 DEF MessengerInv, KeysOwn
    <2>8. verdict = "shown" => m.by[1] = m.sender /\ m.key[1] = k.user
      BY <2>5, <2>7 DEF Verdict
    <2>9. ASSUME m.intact, m.sender = s.from, k.user = s.to,
                 Current(s.keygens, s.quiet, {s.from, s.to})
          PROVE  verdict = "shown"
      <3>1. s.from \in quiet
        BY <2>5, <2>9 DEF MessengerInv, Messages, Noted
      <3>2. m.key = <<s.to, keygens[s.to]>> /\ m.by = <<s.from, keygens[s.from]>>
        BY <2>4, <2>9 DEF ReceiveOK, Carried, Keyed
      <3>3. k.with = <<s.to, keygens[s.to]>>
        BY <2>1, <2>4, <2>9 DEF ReceiveOK
      <3>4. pub = <<s.from, keygens[s.from]>>
        BY <2>7, <2>9, <3>1
      <3> QED
        BY <2>9, <3>2, <3>3, <3>4 DEF Verdict
    <2>10. verdict \in Verdicts
      BY DEF Verdict, Verdicts
    <2> HIDE DEF verdict
    <2>11. Carried(m)' = Carried(m)
      BY <2>1, SameMessage DEF Background
    <2>12. ReceiveOK(p)'
      BY <2>1, <2>3, <2>4, <2>8, <2>9, <2>10, <2>11 DEF ReceiveOK, Current, Background, Verdicts
    <2> QED
      BY <2>1, <2>2, <2>3, <2>4, <2>10, <2>12, OwnStep DEF Verdicts
  <1> QED
    BY <1>1, <1>2


\* A step that changes no job but at most ends that of a keygen, with the
\* messages left alone.
LEMMA KeygenStep ==
    ASSUME MessengerInv, NEW p \in Terminal, NEW step \in Started \cup {"idle"}, NEW k,
           at[p] \in Started,
           at' = [at EXCEPT ![p] = step], job' = [job EXCEPT ![p] = k],
           UNCHANGED <<file, keygens, sent>>, quiet \subseteq quiet', quiet' \subseteq User
    PROVE  /\ Jobs' /\ Messages'
           /\ at'[p] = step /\ job'[p] = k
           /\ \A q \in Terminal \ {p} : at'[q] = at[q] /\ job'[q] = job[q]
           /\ at' \in [Terminal -> Steps]
           /\ job' = [q \in Terminal |-> job'[q]]
  <1> USE DEF MessengerInv, Steps, Started, Verdicts
  <1>1. /\ \A q \in Terminal \ {p} : at'[q] = at[q] /\ job'[q] = job[q]
        /\ at'[p] = step /\ job'[p] = k
        /\ at' \in [Terminal -> Steps]
        /\ job' = [q \in Terminal |-> job'[q]]
    BY DEF Typing
  <1>2. ASSUME NEW since, NEW settled, NEW users
        PROVE  /\ Current(since, settled, users)' = Current(since, settled, users)
               /\ Noted(since, settled, users) => Noted(since, settled, users)'
    BY DEF Current, Noted
  <1>3. ASSUME NEW m PROVE Carried(m)' = Carried(m)
    BY DEF Carried, Keyed, Current
  <1>4. ASSUME NEW q \in Terminal \ {p}
        PROVE  (SendOK(q) => SendOK(q)') /\ ReceiveOK(q)' = ReceiveOK(q)
    <2>1. at'[q] = at[q] /\ job'[q] = job[q]
      BY <1>1
    <2>2. SendOK(q) => SendOK(q)'
      BY <2>1, <1>2 DEF SendOK, Keyed
    <2>3. ReceiveOK(q)' = ReceiveOK(q)
      BY <2>1, <1>2, <1>3 DEF ReceiveOK
    <2> QED
      BY <2>2, <2>3
  <1>5. Jobs'
    BY <1>1, <1>4 DEF Jobs
  <1>6. Messages'
    BY <1>2, <1>3 DEF Messages
  <1> QED
    BY <1>1, <1>5, <1>6

\* A keygen takes a step on the files of its own user.
LEMMA KeygenAloneStays ==
    ASSUME MessengerInv, NEW p \in Terminal, NEW step \in Started, at[p] \in Started,
           at' = [at EXCEPT ![p] = step], UNCHANGED <<job, keygens, quiet>>,
           \A v \in User \ {job[p].user} : private'[v] = private[v],
           ByItself(p) /\ step \in {"open_public", "put_public"} =>
              private'[job[p].user] = job[p].made
    PROVE  KeygenAlone'
  <1> USE DEF MessengerInv
  <1>1. at'[p] = step /\ \A q \in Terminal \ {p} : at'[q] = at[q]
    BY DEF Typing
  <1>2. ASSUME NEW q \in Terminal PROVE ByItself(q)' = ByItself(q)
    BY DEF ByItself
  <1>3. ASSUME NEW q \in Terminal, at'[q] \in Started
        PROVE  /\ at[q] \in Started
               /\ ByItself(q) /\ at'[q] \in {"open_public", "put_public"} =>
                     private'[job[q].user] = job[q].made
    <2>1. CASE q = p
      BY <1>1, <2>1
    <2>2. CASE q # p
      <3>1. at[q] \in Started /\ at'[q] = at[q] /\ job[q].user \in User
        BY <1>1, <1>3, <2>2 DEF KeygenAlone
      <3>2. ByItself(q) => job[p].user # job[q].user
        BY <2>2, <3>1 DEF KeygenAlone
      <3> QED
        BY <3>1, <3>2 DEF KeygenAlone
    <2> QED
      BY <2>1, <2>2
  <1>4. \A q \in Terminal : at[q] \in Started <=> at'[q] \in Started
    BY <1>1
  <1> QED
    BY <1>2, <1>3, <1>4 DEF KeygenAlone

LEMMA OpenPrivateKeeps ==
    ASSUME MessengerInv, NEW p \in Terminal, OpenPrivate(p)
    PROVE  MessengerInv'
  <1>1. /\ at[p] = "write_private" /\ at' = [at EXCEPT ![p] = "put_private"]
        /\ private' = [private EXCEPT ![job[p].user] = Empty]
        /\ UNCHANGED <<public, file, job, keygens, quiet, sent>>
    BY DEF OpenPrivate, Goto, past
  <1>2. job' = [job EXCEPT ![p] = job[p]] /\ quiet \subseteq User
    BY <1>1 DEF MessengerInv, Typing
  <1>3. at[p] \in Started /\ "put_private" \in Started \cup {"idle"}
    BY <1>1 DEF Started
  <1>4. quiet \subseteq quiet' /\ quiet' \subseteq User
    BY <1>1, <1>2 DEF MessengerInv, Typing
  <1>5. /\ Jobs' /\ Messages' /\ at'[p] = "put_private"
        /\ \A q \in Terminal \ {p} : at'[q] = at[q]
        /\ at' \in [Terminal -> Steps]
    BY <1>1, <1>2, <1>3, <1>4, KeygenStep
  <1>6. job[p].user \in User \ quiet
    BY <1>1 DEF MessengerInv, KeygenAlone, Started
  <1>7. Typing'
    BY <1>1, <1>5 DEF MessengerInv, Typing, Contents
  <1>8. KeysOwn'
    BY <1>1, <1>6 DEF MessengerInv, KeysOwn, Typing
  <1>9. KeygenAlone'
    <2>1. \A v \in User \ {job[p].user} : private'[v] = private[v]
      BY <1>1, <1>6 DEF MessengerInv, Typing
    <2>2. at[p] \in Started /\ "put_private" \in Started
      BY <1>1 DEF Started
    <2>3. ByItself(p) /\ "put_private" \in {"open_public", "put_public"} =>
             private'[job[p].user] = job[p].made
      BY <1>1, <2>2 DEF MessengerInv, KeygenAlone
    <2> QED
      BY <1>1, <2>1, <2>2, <2>3, KeygenAloneStays
  <1> QED
    BY <1>5, <1>7, <1>8, <1>9 DEF MessengerInv

LEMMA WritePrivateKeeps ==
    ASSUME MessengerInv, NEW p \in Terminal, WritePrivate(p)
    PROVE  MessengerInv'
  <1> DEFINE u == job[p].user
  <1>1. /\ at[p] = "put_private" /\ at' = [at EXCEPT ![p] = "open_public"]
        /\ private' = [private EXCEPT ![u] = job[p].made]
        /\ UNCHANGED <<public, file, job, keygens, quiet, sent>>
    BY DEF WritePrivate, Goto, past
  <1>2. job' = [job EXCEPT ![p] = job[p]] /\ quiet \subseteq User
    BY <1>1 DEF MessengerInv, Typing
  <1>3. at[p] \in Started /\ "open_public" \in Started \cup {"idle"}
    BY <1>1 DEF Started
  <1>4. quiet \subseteq quiet' /\ quiet' \subseteq User
    BY <1>1, <1>2 DEF MessengerInv, Typing
  <1>5. /\ Jobs' /\ Messages' /\ at'[p] = "open_public"
        /\ \A q \in Terminal \ {p} : at'[q] = at[q]
        /\ at' \in [Terminal -> Steps]
    BY <1>1, <1>2, <1>3, <1>4, KeygenStep
  <1>6. /\ u \in User \ quiet /\ job[p].made = <<u, job[p].made[2]>>
        /\ job[p].made[2] \in Nat
    BY <1>1 DEF MessengerInv, KeygenAlone, Started
  <1> DEFINE made == job[p].made
  <1>7. made \in {u} \X Nat
    BY <1>6
  <1> HIDE DEF made
  <1>8. \A v \in User : private'[v] = IF v = u THEN made ELSE private[v]
    BY <1>1, <1>6 DEF MessengerInv, Typing, made
  <1>9. made \in Contents
    BY <1>6, <1>7 DEF Contents
  <1>10. Typing'
    BY <1>1, <1>2, <1>5, <1>9 DEF MessengerInv, Typing, made
  <1>11. KeysOwn'
    BY <1>1, <1>6, <1>7, <1>8 DEF MessengerInv, KeysOwn
  <1>12. KeygenAlone'
    <2>1. at[p] \in Started /\ "open_public" \in Started
      BY <1>1 DEF Started
    <2>2. private'[u] = job[p].made /\ \A v \in User \ {u} : private'[v] = private[v]
      BY <1>6, <1>8 DEF made
    <2> QED
      BY <1>1, <2>1, <2>2, KeygenAloneStays
  <1> QED
    BY <1>5, <1>10, <1>11, <1>12 DEF MessengerInv

LEMMA OpenPublicKeeps ==
    ASSUME MessengerInv, NEW p \in Terminal, OpenPublic(p)
    PROVE  MessengerInv'
  <1>1. /\ at[p] = "open_public" /\ at' = [at EXCEPT ![p] = "put_public"]
        /\ public' = [public EXCEPT ![job[p].user] = Empty]
        /\ UNCHANGED <<private, file, job, keygens, quiet, sent>>
    BY DEF OpenPublic, Goto, past
  <1>2. job' = [job EXCEPT ![p] = job[p]] /\ quiet \subseteq User
    BY <1>1 DEF MessengerInv, Typing
  <1>3. at[p] \in Started /\ "put_public" \in Started \cup {"idle"}
    BY <1>1 DEF Started
  <1>4. quiet \subseteq quiet' /\ quiet' \subseteq User
    BY <1>1, <1>2 DEF MessengerInv, Typing
  <1>5. /\ Jobs' /\ Messages' /\ at'[p] = "put_public"
        /\ \A q \in Terminal \ {p} : at'[q] = at[q]
        /\ at' \in [Terminal -> Steps]
    BY <1>1, <1>2, <1>3, <1>4, KeygenStep
  <1>6. job[p].user \in User \ quiet
    BY <1>1 DEF MessengerInv, KeygenAlone, Started
  <1>7. Typing'
    BY <1>1, <1>5 DEF MessengerInv, Typing, Contents
  <1>8. KeysOwn'
    BY <1>1, <1>6 DEF MessengerInv, KeysOwn, Typing
  <1>9. KeygenAlone'
    <2>1. \A v \in User \ {job[p].user} : private'[v] = private[v]
      BY <1>1, <1>6 DEF MessengerInv, Typing
    <2>2. at[p] \in Started /\ "put_public" \in Started
      BY <1>1 DEF Started
    <2>3. ByItself(p) /\ "put_public" \in {"open_public", "put_public"} =>
             private'[job[p].user] = job[p].made
      BY <1>1, <2>2 DEF MessengerInv, KeygenAlone
    <2> QED
      BY <1>1, <2>1, <2>2, <2>3, KeygenAloneStays
  <1> QED
    BY <1>5, <1>7, <1>8, <1>9 DEF MessengerInv

LEMMA WritePublicKeeps ==
    ASSUME MessengerInv, NEW p \in Terminal, WritePublic(p)
    PROVE  MessengerInv'
  <1> DEFINE u == job[p].user
             made == job[p].made
  <1>1. /\ at[p] = "put_public" /\ at' = [at EXCEPT ![p] = "idle"]
        /\ public' = [public EXCEPT ![u] = made]
        /\ quiet' = QuietAfter(p)
        /\ job' = [job EXCEPT ![p] = Idle]
        /\ UNCHANGED <<private, file, keygens, sent>>
    BY DEF WritePublic, Exit, Goto
  <1>2. at[p] \in Started /\ "idle" \in Started \cup {"idle"}
    BY <1>1 DEF Started
  <1>3. /\ u \in User \ quiet /\ made = <<u, made[2]>> /\ made[2] \in Nat
        /\ ByItself(p) =>
              /\ private[u] = made /\ made = <<u, keygens[u]>>
              /\ \A q \in Terminal \ {p} : at[q] \in Started => job[q].user # u
    BY <1>1, <1>2 DEF MessengerInv, KeygenAlone, ByItself
  <1>4. /\ quiet \subseteq quiet' /\ quiet' \subseteq User
        /\ quiet' \subseteq quiet \cup {u} /\ (u \in quiet' => ByItself(p))
    BY <1>1, <1>3 DEF QuietAfter, MessengerInv, Typing
  <1>5. /\ Jobs' /\ Messages' /\ at'[p] = "idle"
        /\ \A q \in Terminal \ {p} : at'[q] = at[q] /\ job'[q] = job[q]
        /\ at' \in [Terminal -> Steps]
        /\ job' = [q \in Terminal |-> job'[q]]
    BY <1>1, <1>2, <1>4, KeygenStep
  <1>6. made \in {u} \X Nat
    BY <1>3
  <1> HIDE DEF made
  <1>7. Typing'
    BY <1>1, <1>3, <1>4, <1>5, <1>6 DEF MessengerInv, Typing, Contents
  <1>8. \A v \in User : public'[v] = IF v = u THEN made ELSE public[v]
    BY <1>1, <1>3 DEF MessengerInv, Typing
  <1>9. KeysOwn'
    BY <1>1, <1>3, <1>4, <1>6, <1>8 DEF MessengerInv, KeysOwn
  <1>10. KeygenAlone'
    <2> SUFFICES ASSUME NEW q \in Terminal, at'[q] \in Started
                 PROVE  LET v == job'[q].user
                        IN  /\ v \in User \ quiet'
                            /\ job'[q].made = <<v, job'[q].made[2]>>
                            /\ job'[q].made[2] \in Nat /\ job'[q].made[2] <= keygens'[v]
                            /\ ByItself(q)' =>
                                  /\ at'[q] \in {"open_public", "put_public"} =>
                                        private'[v] = job'[q].made
                                  /\ \A r \in Terminal \ {q} :
                                        at'[r] \in Started => job'[r].user # v
      BY DEF KeygenAlone
    <2>1. q # p /\ at'[q] = at[q] /\ job'[q] = job[q] /\ ByItself(q)' = ByItself(q)
      BY <1>1, <1>5 DEF Started, ByItself
    <2>2. job[q].user \notin quiet'
      BY <1>3, <1>4, <2>1 DEF MessengerInv, KeygenAlone
    <2>3. \A r \in Terminal : at'[r] \in Started => at[r] \in Started /\ job'[r] = job[r]
      BY <1>5 DEF Started
    <2> QED
      BY <1>1, <2>1, <2>2, <2>3 DEF MessengerInv, KeygenAlone
  <1> QED
    BY <1>5, <1>7, <1>9, <1>10 DEF MessengerInv


LEMMA KeygenKeeps ==
    ASSUME MessengerInv, NEW p \in Terminal, NEW u \in User, Keygen(p, u)
    PROVE  MessengerInv'
  <1> DEFINE k == [command |-> "keygen", user |-> u, alone |-> NoKeygenOf(u),
                   made |-> <<u, keygens'[u]>>]
  <1>1. /\ at[p] = "idle" /\ at' = [at EXCEPT ![p] = "write_private"]
        /\ keygens' = [keygens EXCEPT ![u] = @ + 1] /\ quiet' = quiet \ {u}
        /\ job' = [job EXCEPT ![p] = k]
        /\ UNCHANGED <<private, public, file, sent>>
    BY DEF Keygen, Goto, GenerateKeyPair, keys
  <1>2. k.user = u /\ k.made = <<u, keygens'[u]>> /\ k.made[2] = keygens'[u] /\ k.alone = NoKeygenOf(u)
    OBVIOUS
  <1> HIDE DEF k
  <1>3. /\ at'[p] = "write_private" /\ job'[p] = k
        /\ \A q \in Terminal \ {p} : at'[q] = at[q] /\ job'[q] = job[q]
        /\ keygens'[u] = keygens[u] + 1 /\ \A v \in User \ {u} : keygens'[v] = keygens[v]
    BY <1>1 DEF MessengerInv, Typing
  <1>4. Typing'
    <2>1. keygens' \in [User -> Nat]
      BY <1>1 DEF MessengerInv, Typing
    <2>2. at' \in [Terminal -> Steps]
      BY <1>1 DEF MessengerInv, Typing, Steps, Started
    <2>3. job' = [q \in Terminal |-> job'[q]]
      BY <1>1 DEF MessengerInv, Typing
    <2> QED
      BY <1>1, <2>1, <2>2, <2>3 DEF MessengerInv, Typing
  <1>5. KeysOwn'
    BY <1>1, <1>3 DEF MessengerInv, KeysOwn
  <1>6. KeygenAlone'
    <2> SUFFICES ASSUME NEW q \in Terminal, at'[q] \in Started
                 PROVE  LET v == job'[q].user
                        IN  /\ v \in User \ quiet'
                            /\ job'[q].made = <<v, job'[q].made[2]>>
                            /\ job'[q].made[2] \in Nat /\ job'[q].made[2] <= keygens'[v]
                            /\ ByItself(q)' =>
                                  /\ at'[q] \in {"open_public", "put_public"} =>
                                        private'[v] = job'[q].made
                                  /\ \A r \in Terminal \ {q} :
                                        at'[r] \in Started => job'[r].user # v
      BY DEF KeygenAlone
    <2>1. keygens[u] \in Nat /\ keygens'[u] \in Nat /\ keygens'[u] = keygens[u] + 1
      BY <1>3 DEF MessengerInv, Typing
    <2>2. CASE q = p
      <3>1. k.alone => \A r \in Terminal \ {p} : at'[r] \in Started => job'[r].user # u
        BY <1>2, <1>3 DEF NoKeygenOf
      <3>2. at'[p] \notin {"open_public", "put_public"}
        BY <1>3
      <3>3. ByItself(p)' => k.alone
        BY <1>3 DEF ByItself
      <3> QED
        BY <1>1, <1>2, <1>3, <2>1, <2>2, <3>1, <3>2, <3>3
    <2>3. CASE q # p
      <3> DEFINE v == job[q].user
      <3>1. at'[q] = at[q] /\ job'[q] = job[q]
        BY <1>3, <2>3
      <3>2. /\ v \in User \ quiet /\ job[q].made = <<v, job[q].made[2]>>
            /\ job[q].made[2] \in Nat /\ job[q].made[2] <= keygens[v] /\ keygens[v] \in Nat
        BY <3>1 DEF MessengerInv, KeygenAlone, Typing
      <3>3. keygens[v] <= keygens'[v] /\ keygens'[v] \in Nat
        BY <1>3, <2>1, <3>2
      <3>4. job[q].made[2] <= keygens'[v]
        BY <3>2, <3>3
      <3>5. ByItself(q)' => ByItself(q) /\ v # u
        <4>1. ASSUME ByItself(q)' PROVE job[q].alone /\ job[q].made = <<v, keygens'[v]>>
          BY <3>1, <4>1 DEF ByItself
        <4>2. ASSUME ByItself(q)' PROVE job[q].made[2] = keygens'[v]
          BY <4>1, <4>2
        <4>3. ASSUME ByItself(q)' PROVE v # u
          BY <2>1, <3>2, <4>2, <4>3
        <4> QED
          BY <1>3, <3>2, <4>1, <4>3 DEF ByItself
      <3>6. v \in User \ quiet'
        BY <1>1, <3>2
      <3>7. ByItself(q)' =>
               /\ at'[q] \in {"open_public", "put_public"} => private'[v] = job[q].made
               /\ \A r \in Terminal \ {q} : at'[r] \in Started => job'[r].user # v
        BY <1>1, <1>2, <1>3, <3>1, <3>5 DEF MessengerInv, KeygenAlone
      <3> QED
        BY <3>1, <3>2, <3>4, <3>6, <3>7
    <2> QED
      BY <2>2, <2>3
  <1>7. ASSUME NEW since, NEW settled, NEW users \in SUBSET User, Noted(since, settled, users)
        PROVE  /\ Noted(since, settled, users)'
               /\ Current(since, settled, users)' =>
                     /\ Current(since, settled, users)
                     /\ \A v \in users : keygens'[v] = keygens[v]
    BY <1>1, <1>7, KeygenOutdates DEF MessengerInv
  <1>8. \A i \in DOMAIN sent :
           /\ sent[i] \in Sent
           /\ Noted(sent[i].keygens, sent[i].quiet, {sent[i].from, sent[i].to})
           /\ {sent[i].from, sent[i].to} \in SUBSET User
    BY SentTyped DEF MessengerInv, Messages, Sent
  <1>9. ASSUME NEW m, Carried(m) PROVE Carried(m)'
    <2>1. m.id \in DOMAIN sent /\ m \in Payload /\ sent' = sent
      BY <1>1, <1>9 DEF Carried
    <2> DEFINE s == sent[m.id]
               both == {s.from, s.to}
    <2>2. Noted(s.keygens, s.quiet, both) /\ both \in SUBSET User
      BY <1>8, <2>1
    <2> HIDE DEF s
    <2>3. Current(s.keygens, s.quiet, both)' =>
             /\ Current(s.keygens, s.quiet, both)
             /\ keygens'[s.from] = keygens[s.from] /\ keygens'[s.to] = keygens[s.to]
      <3>1. s' = s
        BY <2>1 DEF s
      <3> QED
        BY <1>7, <2>2, <3>1
    <2>4. Keyed(m, s.from, s.to, Current(s.keygens, s.quiet, both))
      BY <1>9 DEF Carried, s
    <2>5. Keyed(m, s.from, s.to, Current(s.keygens, s.quiet, both))'
      <3>1. s' = s
        BY <2>1 DEF s
      <3> QED
        BY <2>3, <2>4, <3>1 DEF Keyed
    <2> QED
      BY <2>1, <2>5 DEF Carried, s
  <1>10. Messages'
    BY <1>1, <1>7, <1>8, <1>9 DEF MessengerInv, Messages
  <1>11. ASSUME NEW q \in Terminal \ {p}
         PROVE  (SendOK(q) => SendOK(q)') /\ (ReceiveOK(q) => ReceiveOK(q)')
    <2> DEFINE j == job[q]
               m == j.payload
               s == sent[m.id]
    <2>1. at'[q] = at[q] /\ job'[q] = j
      BY <1>3
    <2>2. ASSUME SendOK(q) PROVE SendOK(q)'
      <3>0. {j.user, j.peer} \in SUBSET User /\ Noted(j.since, j.settled, {j.user, j.peer})
        BY <2>2 DEF SendOK
      <3>1. /\ Noted(j.since, j.settled, {j.user, j.peer})'
            /\ Current(j.since, j.settled, {j.user, j.peer})' =>
                  /\ Current(j.since, j.settled, {j.user, j.peer})
                  /\ keygens'[j.user] = keygens[j.user] /\ keygens'[j.peer] = keygens[j.peer]
        BY <1>7, <2>1, <3>0
      <3> QED
        BY <2>1, <2>2, <3>1 DEF SendOK, Keyed
    <2>3. ASSUME ReceiveOK(q) PROVE ReceiveOK(q)'
      <3>1. Carried(m) /\ Carried(m)' /\ m.id \in DOMAIN sent
        BY <1>9, <2>1, <2>3 DEF ReceiveOK, Carried
      <3>2. Current(s.keygens, s.quiet, {s.from, s.to})' =>
               /\ Current(s.keygens, s.quiet, {s.from, s.to})
               /\ keygens'[s.to] = keygens[s.to]
        <4>1. sent' = sent /\ m' = m
          BY <1>1, <2>1
        <4>2. Noted(s.keygens, s.quiet, {s.from, s.to}) /\ {s.from, s.to} \in SUBSET User
          BY <1>8, <3>1
        <4> HIDE DEF m
        <4> QED
          BY <1>7, <4>1, <4>2
      <3> QED
        BY <1>1, <2>1, <2>3, <3>1, <3>2 DEF ReceiveOK
    <2> QED
      BY <2>2, <2>3
  <1>12. Jobs'
    BY <1>3, <1>11 DEF MessengerInv, Jobs, Verdicts
  <1> QED
    BY <1>4, <1>5, <1>6, <1>10, <1>12 DEF MessengerInv


LEMMA PutMessageKeeps ==
    ASSUME MessengerInv, NEW p \in Terminal, PutMessage(p)
    PROVE  MessengerInv'
  <1> DEFINE k == job[p]
             n == Len(sent) + 1
             new == [from |-> k.user, to |-> k.peer, keygens |-> k.since, quiet |-> k.settled]
             m == [k.payload EXCEPT !.id = n]
  <1>1. /\ at[p] = "put_message"
        /\ at' = [at EXCEPT ![p] = "idle"] /\ job' = [job EXCEPT ![p] = Idle]
        /\ file' = m /\ sent' = Append(sent, new)
        /\ UNCHANGED <<private, public, keygens, quiet>>
    BY DEF PutMessage, Exit, Goto, keys
  <1>2. /\ at'[p] = "idle" /\ job'[p] = Idle
        /\ \A q \in Terminal \ {p} : at'[q] = at[q] /\ job'[q] = job[q]
    BY <1>1 DEF MessengerInv, Typing
  <1>3. SendOK(p)
    BY <1>1 DEF MessengerInv, Jobs
  <1>4. k.payload = EncryptAndSign(k.user, k.payload.key, k.with)
    BY <1>1, <1>3 DEF SendOK
  <1>5. m.key = k.payload.key /\ m.by = k.payload.by /\ m.id = n
    BY <1>4 DEF EncryptAndSign
  <1>6. new \in Sent /\ new.from = k.user /\ new.to = k.peer /\ new.keygens = k.since /\ new.quiet = k.settled
    BY <1>3 DEF SendOK, Noted, Sent
  <1> HIDE DEF new, m
  <1>7. /\ sent' \in Seq(Sent) /\ DOMAIN sent' = DOMAIN sent \cup {n}
        /\ sent'[n] = new /\ \A i \in DOMAIN sent : sent'[i] = sent[i]
    BY <1>1, <1>6 DEF MessengerInv, Typing
  <1>8. Typing'
    <2>1. at' \in [Terminal -> Steps]
      BY <1>1 DEF MessengerInv, Typing, Steps
    <2>2. job' = [q \in Terminal |-> job'[q]]
      BY <1>1 DEF MessengerInv, Typing
    <2> QED
      BY <1>1, <1>7, <2>1, <2>2 DEF MessengerInv, Typing
  <1>9. KeysOwn'
    BY <1>1 DEF MessengerInv, KeysOwn
  <1>10. KeygenAlone'
    BY <1>1, <1>2 DEF MessengerInv, KeygenAlone, ByItself, Started
  <1>11. ASSUME NEW q \in Terminal \ {p}
         PROVE  (SendOK(q) => SendOK(q)') /\ (ReceiveOK(q) => ReceiveOK(q)')
    <2>1. at'[q] = at[q] /\ job'[q] = job[q]
      BY <1>2
    <2>2. SendOK(q)' = SendOK(q)
      BY <1>1, <2>1 DEF SendOK, Noted, Current, Keyed
    <2>3. ASSUME ReceiveOK(q) PROVE ReceiveOK(q)'
      <3>1. job[q].payload.id \in DOMAIN sent
        BY <2>3 DEF ReceiveOK, Carried
      <3>2. job[q].payload.id \in DOMAIN sent' /\ sent'[job[q].payload.id] = sent[job[q].payload.id]
        BY <1>7, <3>1
      <3>3. keygens' = keygens /\ job'[q].payload = job[q].payload /\ job'[q].user = job[q].user
        BY <1>1, <2>1
      <3>4. Carried(job[q].payload)'
        <4>1. Carried(job[q].payload)
          BY <2>3 DEF ReceiveOK
        <4> QED
          BY <3>2, <3>3, <4>1 DEF Carried, Keyed, Current
      <3> QED
        BY <2>1, <2>3, <3>2, <3>3, <3>4 DEF ReceiveOK, Current
    <2> QED
      BY <2>2, <2>3
  <1>12. Jobs'
    BY <1>2, <1>11 DEF MessengerInv, Jobs, Verdicts
  <1>13. Messages'
    <2>1. ASSUME NEW since, NEW settled, NEW users
          PROVE  /\ Noted(since, settled, users)' = Noted(since, settled, users)
                 /\ Current(since, settled, users)' = Current(since, settled, users)
      BY <1>1 DEF Noted, Current
    <2>2. ASSUME NEW i \in DOMAIN sent'
          PROVE  Noted(sent[i].keygens, sent[i].quiet, {sent[i].from, sent[i].to})'
      <3>1. CASE i = n
        <4>1. Noted(new.keygens, new.quiet, {new.from, new.to})
          BY <1>3, <1>6 DEF SendOK
        <4>2. sent'[i] = new
          BY <1>7, <3>1
        <4> QED
          BY <2>1, <4>1, <4>2
      <3>2. CASE i \in DOMAIN sent
        <4>1. Noted(sent[i].keygens, sent[i].quiet, {sent[i].from, sent[i].to})
          BY <3>2 DEF MessengerInv, Messages
        <4>2. sent'[i] = sent[i]
          BY <1>7, <3>2
        <4> QED
          BY <2>1, <4>1, <4>2
      <3> QED
        BY <1>7, <3>1, <3>2
    <2>3. Keyed(m, k.user, k.peer, Current(k.since, k.settled, {k.user, k.peer}))
      BY <1>1, <1>3, <1>5 DEF SendOK, Keyed
    <2>4. file' \in Payload => Carried(file)'
      <3>1. Keyed(m, new.from, new.to, Current(new.keygens, new.quiet, {new.from, new.to}))
        BY <1>6, <2>3
      <3>2. /\ file'.key = m.key /\ file'.by = m.by /\ file'.id = n
            /\ sent'[n] = new /\ n \in DOMAIN sent'
        BY <1>1, <1>5, <1>7
      <3> QED
        BY <1>1, <2>1, <3>1, <3>2 DEF Carried, Keyed
    <2> QED
      BY <2>2, <2>4 DEF Messages
  <1> QED
    BY <1>8, <1>9, <1>10, <1>12, <1>13 DEF MessengerInv

LEMMA DamageKeeps ==
    ASSUME MessengerInv, Damage
    PROVE  MessengerInv'
  <1>1. /\ file \in Payload
        /\ UNCHANGED <<keys, at, job, keygens, quiet, sent>>
        /\ \/ file' = [file EXCEPT !.intact = FALSE]
           \/ \E u \in User : file' = [file EXCEPT !.sender = u]
    BY DEF Damage
  <1>2. Carried(file)
    BY <1>1 DEF MessengerInv, Messages
  <1>3. file' \in Payload /\ file'.id = file.id /\ file'.key = file.key /\ file'.by = file.by
    BY <1>1 DEF Payload
  <1>4. Carried(file)'
    BY <1>1, <1>2, <1>3 DEF Carried, Keyed, Current
  <1>5. Typing' /\ KeysOwn' /\ KeygenAlone'
    BY <1>1 DEF MessengerInv, Typing, KeysOwn, KeygenAlone, ByItself, keys
  <1>6. \A q \in Terminal : SendOK(q)' = SendOK(q) /\ ReceiveOK(q)' = ReceiveOK(q)
    BY <1>1, SameJob DEF Background
  <1>7. Jobs'
    BY <1>1, <1>6 DEF MessengerInv, Jobs
  <1>8. Messages'
    BY <1>1, <1>4 DEF MessengerInv, Messages, Noted, Current
  <1> QED
    BY <1>5, <1>7, <1>8 DEF MessengerInv

LEMMA MessengerSteps == MessengerInv /\ [Next]_vars => MessengerInv'
  <1> SUFFICES ASSUME MessengerInv, [Next]_vars PROVE MessengerInv'
    OBVIOUS
  <1>1. ASSUME NEW p \in Terminal, RunKeygen(p) PROVE MessengerInv'
    BY <1>1, KeygenKeeps, OpenPrivateKeeps, WritePrivateKeeps, OpenPublicKeeps, WritePublicKeeps
       DEF RunKeygen
  <1>2. ASSUME NEW p \in Terminal, RunSend(p) PROVE MessengerInv'
    BY <1>2, SendKeeps, EncryptKeeps, OpenMessageKeeps, PutMessageKeeps DEF RunSend
  <1>3. ASSUME NEW p \in Terminal, RunReceive(p) PROVE MessengerInv'
    BY <1>3, ReceiveKeeps, VerifyKeeps DEF RunReceive
  <1>4. ASSUME NEW p \in Terminal, UnlockPrivate(p) PROVE MessengerInv'
    BY <1>4, UnlockPrivateKeeps
  <1>5. ASSUME NEW p \in Terminal, Leave(p) \/ Kill(p) PROVE MessengerInv'
    BY <1>5, ExitKeeps DEF Leave, Kill
  <1>6. CASE Damage
    BY <1>6, DamageKeeps
  <1>7. CASE UNCHANGED vars
    <2>1. UNCHANGED <<keys, file, at, job, keygens, quiet, sent>>
      BY <1>7 DEF vars, past
    <2>2. Typing' /\ KeysOwn' /\ KeygenAlone'
      BY <2>1 DEF MessengerInv, Typing, KeysOwn, KeygenAlone, ByItself, keys
    <2>3. \A q \in Terminal : SendOK(q)' = SendOK(q) /\ ReceiveOK(q)' = ReceiveOK(q)
      BY <2>1, SameJob DEF Background
    <2>4. Jobs'
      BY <2>1, <2>3 DEF MessengerInv, Jobs
    <2>5. Messages'
      BY <2>1 DEF MessengerInv, Messages, Noted, Current, Carried, Keyed
    <2> QED
      BY <2>2, <2>4, <2>5 DEF MessengerInv
  <1> QED
    BY <1>1, <1>2, <1>3, <1>4, <1>5, <1>6, <1>7 DEF Next

LEMMA MessengerProves == MessengerInv => ShownWasSent /\ IntactIsShown
  <1> SUFFICES ASSUME MessengerInv PROVE ShownWasSent /\ IntactIsShown
    OBVIOUS
  <1>1. ASSUME NEW p \in Terminal, at[p] \in Verdicts
        PROVE  /\ ReceiveOK(p) /\ job[p].payload.id \in DOMAIN sent
               /\ sent[job[p].payload.id] \in Sent
    BY <1>1, SentTyped DEF MessengerInv, Jobs, ReceiveOK, Carried, Verdicts
  <1>2. ShownWasSent
    <2> SUFFICES ASSUME NEW p \in Terminal, at[p] = "shown"
                 PROVE  LET m == sent[job[p].payload.id]
                        IN  m.from = job[p].payload.sender /\ m.to = job[p].user
      BY DEF ShownWasSent
    <2>1. at[p] \in Verdicts
      BY DEF Verdicts
    <2> QED
      BY <1>1, <2>1 DEF ReceiveOK, Carried, Keyed
  <1>3. IntactIsShown
    <2> SUFFICES ASSUME NEW p \in Terminal, at[p] \in {"rejected", "undecryptable"},
                        job[p].payload.intact,
                        job[p].payload.sender = sent[job[p].payload.id].from,
                        job[p].user = sent[job[p].payload.id].to,
                        sent[job[p].payload.id].quiet,
                        \A u \in {sent[job[p].payload.id].from, sent[job[p].payload.id].to} :
                           ~(keygens[u] > sent[job[p].payload.id].keygens[u])
                 PROVE  FALSE
      BY DEF IntactIsShown
    <2> DEFINE s == sent[job[p].payload.id]
    <2>1. at[p] \in Verdicts
      BY DEF Verdicts
    <2>2. ~Current(s.keygens, s.quiet, {s.from, s.to})
      BY <1>1, <2>1 DEF ReceiveOK
    <2>3. \A u \in {s.from, s.to} : keygens[u] \in Nat /\ s.keygens[u] \in Nat
      BY <1>1, <2>1 DEF MessengerInv, Typing, Sent
    <2>4. s.quiet
      OBVIOUS
    <2>5. ASSUME NEW u \in {s.from, s.to} PROVE keygens[u] <= s.keygens[u]
      <3>1. ~(keygens[u] > s.keygens[u])
        OBVIOUS
      <3>2. keygens[u] \in Nat /\ s.keygens[u] \in Nat
        BY <2>3, Zenon
      <3> QED
        BY <3>1, <3>2
    <2> QED
      BY <2>2, <2>4, <2>5 DEF Current
  <1> QED
    BY <1>2, <1>3

-----------------------------------------------------------------------------

(* Whoever of any number of users runs whatever at any number of terminals, *)
(* what a receive shows as verified was sent by the user it names to the    *)
(* one who reads it (verify_and_decrypt of app/messenger/e2e.py).           *)
THEOREM MessengerShownWasSent == CommandLineSpec => []ShownWasSent
  <1>1. CommandLineInit => MessengerInv
    BY MessengerStarts DEF CommandLineInit
  <1>2. MessengerInv /\ [RunPasswordManager \/ RunMessenger]_<<program, vars, managerVars>> => MessengerInv'
    BY MessengerSteps DEF RunPasswordManager, RunMessenger
  <1> QED
    BY <1>1, <1>2, MessengerProves, PTL DEF CommandLineSpec

(* And an undamaged message reaches the one it was meant for, as long as   *)
(* neither of the two has begun a keygen since.                            *)
THEOREM MessengerIntactIsShown == CommandLineSpec => []IntactIsShown
  <1>1. CommandLineInit => MessengerInv
    BY MessengerStarts DEF CommandLineInit
  <1>2. MessengerInv /\ [RunPasswordManager \/ RunMessenger]_<<program, vars, managerVars>> => MessengerInv'
    BY MessengerSteps DEF RunPasswordManager, RunMessenger
  <1> QED
    BY <1>1, <1>2, MessengerProves, PTL DEF CommandLineSpec


-----------------------------------------------------------------------------
(* The password manager *)

Thread == [step : {"sleep", "clear"}, text : Secret, due : Nat]

RowsTyped == rows \in Seq(Manager!Row)
AnswersTyped == answers \in [Owner \X Site -> SUBSET Secret]
ClipboardTyped ==
    /\ now \in Nat
    /\ clipboard \in [text : Secret \cup Other \cup {""}, by : Process \cup {Manager!Nobody}, at : Nat]
PcTyped == pc \in [Process -> Manager!Step]
ProcessesTyped ==
    /\ command \in [Process -> Manager!Command \cup {Manager!NoCommand}]
    /\ password \in [Process -> Secret \cup {Manager!NoPassword}]
    /\ clearer \in [Process -> Thread \cup {Manager!NoThread, Manager!FailedThread}]

Types == RowsTyped /\ AnswersTyped /\ ClipboardTyped /\ PcTyped /\ ProcessesTyped

\* What a process works with, it has.
Holds(p) ==
    /\ pc[p] # "off" => command[p] \in Manager!Command
    /\ pc[p] = "copy" => password[p] \in Secret
    /\ clearer[p].step # "none" => pc[p] = "done"

IsOf(i, k) == rows[i].owner = k[1] /\ rows[i].site = k[2]
IsFirst(i, k) == IsOf(i, k) /\ \A j \in DOMAIN rows : j < i => ~IsOf(j, k)

\* An answer is the password of the first row, which stays the first.
Answered ==
    \A k \in Owner \X Site : \A x \in answers[k] :
        \E i \in DOMAIN rows : IsFirst(i, k) /\ rows[i].password = x

\* Who has put a password on the clipboard has a thread that waits for it.
Guards(p) ==
    /\ clipboard.by = p => pc[p] = "done"
    /\ clipboard.by = p /\ clipboard.text \in Secret =>
          /\ clearer[p].step # "none"
          /\ clearer[p].step # "failed" =>
                /\ clearer[p].text = clipboard.text
                /\ clearer[p].step = "sleep" => clearer[p].due = clipboard.at + Delay
                /\ now <= clipboard.at + Delay

\* A thread that is about to clear has just compared.
Compared(p) ==
    clearer[p].step = "clear" => clipboard.text = clearer[p].text \/ clipboard.at = now

Each(p) == Holds(p) /\ Guards(p) /\ Compared(p)

ManagerInv == Types /\ Answered /\ \A p \in Process : Each(p)

-----------------------------------------------------------------------------

LEMMA LeastOf ==
    ASSUME NEW S \in SUBSET Nat, S # {}
    PROVE  \E m \in S : \A k \in S : m <= k
  <1> DEFINE R == {r \in Nat \X Nat : r[1] < r[2]}
  <1>1. IsWellFoundedOn(R, Nat)
    BY NatLessThanWellFounded DEF OpToRel
  <1> HIDE DEF R
  <1>2. PICK m \in S : \A k \in S : <<k, m>> \notin R
    BY <1>1, WFMin
  <1>3. \A k \in S : ~(k < m)
    BY <1>2 DEF R
  <1> QED
    BY <1>3

LEMMA RowsDomain ==
    ASSUME RowsTyped
    PROVE  DOMAIN rows = 1 .. Len(rows) /\ Len(rows) \in Nat /\ DOMAIN rows \subseteq Nat
  BY DEF RowsTyped

\* The row that get takes is the first of its user and site.
LEMMA FirstIsFirst ==
    ASSUME RowsTyped, NEW k \in Owner \X Site,
           NEW found, found = {i \in DOMAIN rows : IsOf(i, k)}, found # {}
    PROVE  Manager!First(found) \in DOMAIN rows /\ IsFirst(Manager!First(found), k)
  <1>1. found \in SUBSET Nat
    BY RowsDomain
  <1>2. \E m \in found : \A j \in found : m <= j
    BY <1>1, LeastOf
  <1>3. Manager!First(found) \in found /\ \A j \in found : Manager!First(found) <= j
    BY <1>2 DEF Manager!First
  <1>4. ASSUME NEW j \in DOMAIN rows, j < Manager!First(found) PROVE ~IsOf(j, k)
    BY <1>1, <1>3, <1>4
  <1> QED
    BY <1>3, <1>4 DEF IsFirst

LEMMA ManagerStarts == Manager!Init => ManagerInv
  <1> SUFFICES ASSUME Manager!Init PROVE ManagerInv
    OBVIOUS
  <1> USE PasswordManagerAssumption
  <1>1. RowsTyped
    <2>1. rows = << >>
      BY DEF Manager!Init
    <2> QED
      BY <2>1, EmptySeq DEF RowsTyped
  <1>2. AnswersTyped
    BY DEF AnswersTyped, Manager!Init
  <1>3. ClipboardTyped
    BY DEF ClipboardTyped, Manager!Init
  <1>4. PcTyped /\ ProcessesTyped
    BY DEF PcTyped, ProcessesTyped, Manager!Step, Manager!Init
  <1>5. Answered /\ \A p \in Process : Each(p)
    BY DEF Answered, Each, Holds, Guards, Compared, Manager!NoThread, Manager!Nobody, Manager!Init
  <1> QED
    BY <1>1, <1>2, <1>3, <1>4, <1>5 DEF ManagerInv, Types

LEMMA SameRows == ASSUME Answered, UNCHANGED <<rows, answers>> PROVE Answered'
  BY DEF Answered, IsFirst, IsOf

\* The rows that are stored stay, as far as who they are of and what they say,
\* and others come after them.
LEMMA FirstStays ==
    ASSUME RowsTyped, RowsTyped', Answered, UNCHANGED answers,
           DOMAIN rows \subseteq DOMAIN rows',
           \A i \in DOMAIN rows' : i \notin DOMAIN rows => \A j \in DOMAIN rows : j < i,
           \A i \in DOMAIN rows : /\ rows'[i].owner = rows[i].owner /\ rows'[i].site = rows[i].site
                                  /\ rows'[i].password = rows[i].password
    PROVE  Answered'
  <1>1. DOMAIN rows \subseteq Nat
    BY RowsDomain
  <1>2. DOMAIN rows' \subseteq Nat
    BY DEF RowsTyped
  <1>3. ASSUME NEW k \in Owner \X Site, NEW x \in answers[k]
        PROVE  \E i \in DOMAIN rows' : IsFirst(i, k)' /\ rows'[i].password = x
    <2>1. PICK i \in DOMAIN rows : IsFirst(i, k) /\ rows[i].password = x
      BY DEF Answered
    <2>2. IsOf(i, k)'
      BY <2>1 DEF IsFirst, IsOf
    <2>3. ASSUME NEW j \in DOMAIN rows', j < i PROVE ~IsOf(j, k)'
      <3>1. j \in DOMAIN rows
        BY <1>1, <1>2, <2>3
      <3>2. ~IsOf(j, k)
        BY <2>1, <2>3, <3>1 DEF IsFirst
      <3> QED
        BY <3>1, <3>2 DEF IsOf
    <2> QED
      BY <2>1, <2>2, <2>3 DEF IsFirst
  <1> QED
    BY <1>3 DEF Answered

\* What a process has to do with the clipboard and its own variables is not
\* touched by a step of another that leaves the clipboard to it.
LEMMA OthersKeep ==
    ASSUME NEW q, Each(q), pc'[q] = pc[q], command'[q] = command[q], password'[q] = password[q],
           clearer'[q] = clearer[q],
           UNCHANGED now,
           \/ UNCHANGED clipboard
           \/ clipboard'.by # q /\ clipboard'.at = now
           \/ clipboard'.by # q /\ clipboard'.at = clipboard.at /\ clipboard'.text = clipboard.text
    PROVE  Each(q)'
  BY DEF Each, Holds, Guards, Compared

LEMMA ThreadOrNone ==
    ASSUME ProcessesTyped, NEW p \in Process
    PROVE  /\ \/ clearer[p] \in Thread
              \/ clearer[p] = Manager!NoThread
              \/ clearer[p] = Manager!FailedThread
           /\ clearer[p].step \notin {"none", "failed"} => clearer[p] \in Thread
           /\ clearer[p].step \in {"sleep", "clear", "none", "failed"}
           /\ Manager!NoThread.step = "none"
           /\ Manager!FailedThread.step = "failed"
  BY DEF ProcessesTyped, Thread, Manager!NoThread, Manager!FailedThread

LEMMA RunKeeps ==
    ASSUME ManagerInv, NEW p \in Process, NEW c \in Manager!Command, Manager!Run(p, c)
    PROVE  ManagerInv'
  <1> USE DEF ManagerInv, Types
  <1>1. /\ pc[p] = "off" /\ pc' = [pc EXCEPT ![p] = "authenticate"]
        /\ command' = [command EXCEPT ![p] = c]
        /\ UNCHANGED <<now, rows, clipboard, password, clearer, answers>>
    BY DEF Manager!Run, Manager!Goto
  <1>2. /\ PcTyped' /\ pc'[p] = "authenticate"
        /\ \A q \in Process \ {p} : pc'[q] = pc[q]
    BY <1>1 DEF PcTyped, Manager!Step
  <1>3. /\ ProcessesTyped' /\ command'[p] = c
        /\ \A q \in Process \ {p} : command'[q] = command[q]
    BY <1>1 DEF ProcessesTyped
  <1>4. RowsTyped' /\ AnswersTyped' /\ ClipboardTyped'
    BY <1>1 DEF RowsTyped, AnswersTyped, ClipboardTyped
  <1>5. \A q \in Process \ {p} : Each(q)'
    BY <1>1, <1>2, <1>3, OthersKeep
  <1>6. Each(p)'
    BY <1>1, <1>2, <1>3 DEF Each, Holds, Guards, Compared
  <1> QED
    BY <1>1, <1>2, <1>3, <1>4, <1>5, <1>6, SameRows

LEMMA AuthenticateKeeps ==
    ASSUME ManagerInv, NEW p \in Process, Manager!Authenticate(p)
    PROVE  ManagerInv'
  <1> USE DEF ManagerInv, Types
  <1>1. PICK step \in {"done", "find", "store"} :
           /\ pc[p] = "authenticate" /\ pc' = [pc EXCEPT ![p] = step]
           /\ UNCHANGED <<now, rows, clipboard, command, password, clearer, answers>>
    BY DEF Manager!Authenticate, Manager!Goto
  <1>2. /\ PcTyped' /\ pc'[p] = step
        /\ \A q \in Process \ {p} : pc'[q] = pc[q]
    BY <1>1 DEF PcTyped, Manager!Step
  <1>3. RowsTyped' /\ AnswersTyped' /\ ClipboardTyped' /\ ProcessesTyped'
    BY <1>1 DEF RowsTyped, AnswersTyped, ClipboardTyped, ProcessesTyped
  <1>4. \A q \in Process \ {p} : Each(q)'
    BY <1>1, <1>2, OthersKeep
  <1>5. Each(p)'
    BY <1>1, <1>2 DEF Each, Holds, Guards, Compared
  <1> QED
    BY <1>1, <1>2, <1>3, <1>4, <1>5, SameRows

LEMMA AddCredentialKeeps ==
    ASSUME ManagerInv, NEW p \in Process, Manager!AddCredential(p)
    PROVE  ManagerInv'
  <1> USE DEF ManagerInv, Types
  <1> DEFINE row == [owner |-> command[p].user, site |-> command[p].site,
                     password |-> command[p].password, whole |-> TRUE]
  <1>1. PICK step \in {"done", "copy"} :
           /\ pc[p] = "store" /\ pc' = [pc EXCEPT ![p] = step]
           /\ UNCHANGED <<now, clipboard, command, clearer, answers>>
           /\ \/ /\ rows' = Append(rows, row)
                 /\ password' = [password EXCEPT ![p] = command[p].password]
              \/ step = "done" /\ UNCHANGED <<rows, password>>
    BY DEF Manager!AddCredential, Manager!Goto
  <1>2. /\ PcTyped' /\ pc'[p] = step
        /\ \A q \in Process \ {p} : pc'[q] = pc[q]
    BY <1>1 DEF PcTyped, Manager!Step
  <1>3. /\ command[p].user \in Owner /\ command[p].site \in Site /\ command[p].password \in Secret
    BY <1>1 DEF Each, Holds, Manager!Command
  <1>4. row \in Manager!Row
    BY <1>3 DEF Manager!Row
  <1> HIDE DEF row
  <1>5. /\ ProcessesTyped'
        /\ step = "copy" => password'[p] \in Secret
        /\ \A q \in Process \ {p} : password'[q] = password[q]
    BY <1>1, <1>3 DEF ProcessesTyped
  <1>6. RowsTyped' /\ Answered'
    <2>1. CASE UNCHANGED rows
      BY <1>1, <2>1, SameRows DEF RowsTyped
    <2>2. CASE rows' = Append(rows, row)
      <3>1. /\ RowsTyped'
            /\ DOMAIN rows = 1 .. Len(rows) /\ DOMAIN rows' = 1 .. Len(rows) + 1 /\ Len(rows) \in Nat
            /\ \A i \in DOMAIN rows : rows'[i] = rows[i]
        BY <1>4, <2>2 DEF RowsTyped
      <3> QED
        BY <1>1, <3>1, FirstStays
    <2> QED
      BY <1>1, <2>1, <2>2
  <1>7. AnswersTyped' /\ ClipboardTyped'
    BY <1>1 DEF AnswersTyped, ClipboardTyped
  <1>8. \A q \in Process \ {p} : Each(q)'
    BY <1>1, <1>2, <1>5, OthersKeep
  <1>9. Each(p)'
    BY <1>1, <1>2, <1>5 DEF Each, Holds, Guards, Compared
  <1> QED
    BY <1>2, <1>5, <1>6, <1>7, <1>8, <1>9

LEMMA GetCredentialKeeps ==
    ASSUME ManagerInv, NEW p \in Process, Manager!GetCredential(p)
    PROVE  ManagerInv'
  <1> USE DEF ManagerInv, Types
  <1> DEFINE c == command[p]
             found == {i \in DOMAIN rows : rows[i].owner = c.user /\ rows[i].site = c.site}
             first == Manager!First(found)
             k == <<c.user, c.site>>
  <1>1. PICK step \in {"done", "copy"} :
           /\ pc[p] = "find" /\ pc' = [pc EXCEPT ![p] = step]
           /\ UNCHANGED <<now, rows, clipboard, command, clearer>>
           /\ \/ /\ found # {}
                 /\ password' = [password EXCEPT ![p] = rows[first].password]
                 /\ answers' = [answers EXCEPT ![k] = @ \cup {rows[first].password}]
              \/ step = "done" /\ UNCHANGED <<password, answers>>
    BY DEF Manager!GetCredential, Manager!Goto
  <1>2. /\ PcTyped' /\ pc'[p] = step
        /\ \A q \in Process \ {p} : pc'[q] = pc[q]
    BY <1>1 DEF PcTyped, Manager!Step
  <1>3. k \in Owner \X Site
    BY <1>1 DEF Each, Holds, Manager!Command
  <1>4. found = {i \in DOMAIN rows : IsOf(i, k)}
    BY DEF IsOf
  <1> HIDE DEF found, k
  <1>5. ASSUME found # {}
        PROVE  first \in DOMAIN rows /\ IsFirst(first, k) /\ rows[first].password \in Secret
    <2>1. first \in DOMAIN rows /\ IsFirst(first, k)
      BY <1>3, <1>4, <1>5, FirstIsFirst
    <2>2. rows[first] \in Manager!Row
      BY <2>1, RowsDomain DEF RowsTyped
    <2> QED
      BY <2>1, <2>2 DEF Manager!Row
  <1> HIDE DEF first
  <1>6. /\ ProcessesTyped'
        /\ step = "copy" => password'[p] \in Secret
        /\ \A q \in Process \ {p} : password'[q] = password[q]
    BY <1>1, <1>5 DEF ProcessesTyped
  <1>7. AnswersTyped' /\ Answered'
    <2>1. CASE UNCHANGED answers
      BY <1>1, <2>1, SameRows DEF AnswersTyped
    <2>2. CASE found # {} /\ answers' = [answers EXCEPT ![k] = @ \cup {rows[first].password}]
      <3>1. AnswersTyped'
        BY <1>3, <1>5, <2>2 DEF AnswersTyped
      <3>2. ASSUME NEW l \in Owner \X Site, NEW x, x \in answers'[l]
            PROVE  x \in answers[l] \/ (l = k /\ x = rows[first].password)
        <4> DEFINE D == Owner \X Site
        <4>1. k \in D /\ l \in D /\ answers \in [D -> SUBSET Secret]
          BY <1>3 DEF AnswersTyped
        <4> HIDE DEF D
        <4>2. CASE l = k
          <5>1. answers'[l] = answers[l] \cup {rows[first].password}
            BY <2>2, <4>1, <4>2
          <5> QED
            BY <3>2, <4>2, <5>1
        <4>3. CASE l # k
          <5>1. answers'[l] = answers[l]
            BY <2>2, <4>1, <4>3
          <5> QED
            BY <3>2, <5>1
        <4> QED
          BY <4>2, <4>3
      <3>3. \A l \in Owner \X Site : \A x \in answers'[l] :
               \E i \in DOMAIN rows : IsFirst(i, l) /\ rows[i].password = x
        BY <1>5, <2>2, <3>2 DEF Answered
      <3>4. \A l, i : IsFirst(i, l)' <=> IsFirst(i, l)
        BY <1>1 DEF IsFirst, IsOf
      <3> QED
        BY <1>1, <3>1, <3>3, <3>4 DEF Answered
    <2> QED
      BY <1>1, <2>1, <2>2
  <1>8. RowsTyped' /\ ClipboardTyped'
    BY <1>1 DEF RowsTyped, ClipboardTyped
  <1>9. \A q \in Process \ {p} : Each(q)'
    BY <1>1, <1>2, <1>6, OthersKeep
  <1>10. Each(p)'
    BY <1>1, <1>2, <1>6 DEF Each, Holds, Guards, Compared
  <1> QED
    BY <1>2, <1>6, <1>7, <1>8, <1>9, <1>10

LEMMA CopyToClipboardKeeps ==
    ASSUME ManagerInv, NEW p \in Process, Manager!CopyToClipboard(p)
    PROVE  ManagerInv'
  <1> USE DEF ManagerInv, Types
  <1> DEFINE thread == [step |-> "sleep", text |-> password[p], due |-> now + Delay]
             copied == [text |-> password[p], by |-> p, at |-> now]
  <1>1. /\ pc[p] = "copy" /\ pc' = [pc EXCEPT ![p] = "done"]
        /\ UNCHANGED <<now, rows, command, password, answers>>
        /\ \/ clipboard' = copied /\ clearer' = [clearer EXCEPT ![p] = thread]
           \/ UNCHANGED <<clipboard, clearer>>
    BY DEF Manager!CopyToClipboard, Manager!Goto
  <1>2. /\ PcTyped' /\ pc'[p] = "done"
        /\ \A q \in Process \ {p} : pc'[q] = pc[q]
    BY <1>1 DEF PcTyped, Manager!Step
  <1>3. password[p] \in Secret /\ now \in Nat /\ now + Delay \in Nat /\ now <= now + Delay
    <2>1. now \in Nat /\ Delay \in Nat
      BY PasswordManagerAssumption DEF ClipboardTyped
    <2>2. password[p] \in Secret
      BY <1>1 DEF Each, Holds
    <2> QED
      BY <2>1, <2>2
  <1>4. thread \in Thread /\ thread.step = "sleep" /\ thread.text = password[p] /\ thread.due = now + Delay
    BY <1>3 DEF Thread
  <1>5. /\ copied.text = password[p] /\ copied.by = p /\ copied.at = now
        /\ copied \in [text : Secret \cup Other \cup {""}, by : Process \cup {Manager!Nobody}, at : Nat]
    BY <1>3
  <1> HIDE DEF thread, copied
  <1>6. RowsTyped' /\ AnswersTyped' /\ Answered'
    BY <1>1, SameRows DEF RowsTyped, AnswersTyped
  <1>7. ClipboardTyped'
    BY <1>1, <1>5 DEF ClipboardTyped
  <1>8. ProcessesTyped' /\ \A q \in Process \ {p} : clearer'[q] = clearer[q]
    BY <1>1, <1>4 DEF ProcessesTyped
  <1>9. ASSUME NEW q \in Process \ {p} PROVE Each(q)'
    <2>1. UNCHANGED clipboard \/ (clipboard'.by # q /\ clipboard'.at = now)
      BY <1>1, <1>5
    <2> QED
      BY <1>1, <1>2, <1>8, <2>1, OthersKeep
  <1>10. Each(p)'
    <2>1. CASE clipboard' = copied /\ clearer' = [clearer EXCEPT ![p] = thread]
      <3>1. clearer'[p] = thread
        BY <2>1 DEF ProcessesTyped
      <3> QED
        BY <1>1, <1>2, <1>3, <1>4, <1>5, <2>1, <3>1 DEF Each, Holds, Guards, Compared
    <2>2. CASE UNCHANGED <<clipboard, clearer>>
      BY <1>1, <1>2, <2>2 DEF Each, Holds, Guards, Compared
    <2> QED
      BY <1>1, <2>1, <2>2
  <1> QED
    BY <1>2, <1>6, <1>7, <1>8, <1>9, <1>10

LEMMA ExitManagerKeeps ==
    ASSUME ManagerInv, NEW p \in Process, Manager!Exit(p)
    PROVE  ManagerInv'
  <1> USE PasswordManagerAssumption DEF ManagerInv, Types
  <1>1. /\ pc[p] = "done" /\ pc' = [pc EXCEPT ![p] = "off"]
        /\ command' = [command EXCEPT ![p] = Manager!NoCommand]
        /\ password' = [password EXCEPT ![p] = Manager!NoPassword]
        /\ clearer' = [clearer EXCEPT ![p] = Manager!NoThread]
        /\ clipboard' = IF clipboard.by = p THEN [clipboard EXCEPT !.by = Manager!Nobody] ELSE clipboard
        /\ UNCHANGED <<now, rows, answers>>
    BY DEF Manager!Exit, Manager!Goto
  <1>2. /\ PcTyped' /\ pc'[p] = "off"
        /\ \A q \in Process \ {p} : pc'[q] = pc[q]
    BY <1>1 DEF PcTyped, Manager!Step
  <1>3. ProcessesTyped'
    BY <1>1 DEF ProcessesTyped
  <1>4. /\ clearer'[p] = Manager!NoThread
        /\ \A q \in Process \ {p} : /\ command'[q] = command[q] /\ password'[q] = password[q]
                                    /\ clearer'[q] = clearer[q]
    BY <1>1 DEF ProcessesTyped
  <1>5. /\ clipboard'.text = clipboard.text /\ clipboard'.at = clipboard.at
        /\ clipboard'.by = IF clipboard.by = p THEN Manager!Nobody ELSE clipboard.by
        /\ ClipboardTyped'
    BY <1>1 DEF ClipboardTyped
  <1>6. RowsTyped' /\ AnswersTyped' /\ Answered'
    BY <1>1, SameRows DEF RowsTyped, AnswersTyped
  <1>7. ASSUME NEW q \in Process \ {p} PROVE Each(q)'
    <2>1. UNCHANGED clipboard \/ clipboard'.by # q
      BY <1>1, <1>5
    <2> QED
      BY <1>1, <1>2, <1>4, <1>5, <2>1, OthersKeep
  <1>8. clearer'[p].step = "none"
    BY <1>4, ThreadOrNone
  <1>9. Each(p)'
    BY <1>2, <1>5, <1>8 DEF Each, Holds, Guards, Compared
  <1> QED
    BY <1>2, <1>3, <1>5, <1>6, <1>7, <1>9

LEMMA CompareClipboardKeeps ==
    ASSUME ManagerInv, NEW p \in Process, Manager!CompareClipboard(p)
    PROVE  ManagerInv'
  <1> USE DEF ManagerInv, Types
  <1> DEFINE thread == [clearer[p] EXCEPT !.step = "clear"]
  <1>1. /\ clearer[p].step = "sleep"
        /\ UNCHANGED <<now, rows, clipboard, pc, command, password, answers>>
        /\ \/ clipboard.text = clearer[p].text /\ clearer' = [clearer EXCEPT ![p] = thread]
           \/ clipboard.text # clearer[p].text /\ clearer' = [clearer EXCEPT ![p] = Manager!NoThread]
           \/ clearer' = [clearer EXCEPT ![p] = Manager!FailedThread]
    BY DEF Manager!CompareClipboard, Manager!EndThread, Manager!FailThread
  <1>2. clearer[p] \in Thread
    BY <1>1, ThreadOrNone
  <1>3. thread \in Thread /\ thread.step = "clear" /\ thread.text = clearer[p].text
    BY <1>2 DEF Thread
  <1> HIDE DEF thread
  <1>4. RowsTyped' /\ AnswersTyped' /\ Answered' /\ ClipboardTyped' /\ PcTyped'
    BY <1>1, SameRows DEF RowsTyped, AnswersTyped, ClipboardTyped, PcTyped
  <1>5. ProcessesTyped'
    BY <1>1, <1>3 DEF ProcessesTyped
  <1>6. /\ \A q \in Process \ {p} : clearer'[q] = clearer[q]
        /\ \/ clipboard.text = clearer[p].text /\ clearer'[p] = thread
           \/ clipboard.text # clearer[p].text /\ clearer'[p] = Manager!NoThread
           \/ clearer'[p] = Manager!FailedThread
    BY <1>1 DEF ProcessesTyped
  <1>7. \A q \in Process \ {p} : Each(q)'
    BY <1>1, <1>6, OthersKeep
  <1>8. Manager!NoThread.step = "none" /\ Manager!FailedThread.step = "failed"
    BY ThreadOrNone
  <1>9. Each(p)'
    BY <1>1, <1>3, <1>6, <1>8 DEF Each, Holds, Guards, Compared
  <1> QED
    BY <1>4, <1>5, <1>7, <1>9

LEMMA ClearClipboardKeeps ==
    ASSUME ManagerInv, NEW p \in Process, Manager!ClearClipboard(p)
    PROVE  ManagerInv'
  <1> USE DEF ManagerInv, Types
  <1> DEFINE cleared == [text |-> "", by |-> p, at |-> now]
  <1>1. /\ clearer[p].step = "clear"
        /\ UNCHANGED <<now, rows, pc, command, password, answers>>
        /\ \/ clearer' = [clearer EXCEPT ![p] = Manager!NoThread] /\ clipboard' = cleared
           \/ clearer' = [clearer EXCEPT ![p] = Manager!FailedThread] /\ UNCHANGED clipboard
    BY DEF Manager!ClearClipboard, Manager!EndThread, Manager!FailThread
  <1>2. cleared.text = "" /\ cleared.by = p /\ cleared.at = now
    OBVIOUS
  <1>3. cleared \in [text : Secret \cup Other \cup {""}, by : Process \cup {Manager!Nobody}, at : Nat]
    BY DEF ClipboardTyped
  <1> HIDE DEF cleared
  <1>10. ClipboardTyped'
    BY <1>1, <1>3 DEF ClipboardTyped
  <1>4. RowsTyped' /\ AnswersTyped' /\ Answered' /\ PcTyped'
    BY <1>1, SameRows DEF RowsTyped, AnswersTyped, PcTyped
  <1>5. ProcessesTyped'
    BY <1>1 DEF ProcessesTyped
  <1>6. /\ \A q \in Process \ {p} : clearer'[q] = clearer[q]
        /\ \/ clearer'[p] = Manager!NoThread /\ clipboard' = cleared
           \/ clearer'[p] = Manager!FailedThread /\ UNCHANGED clipboard
    BY <1>1 DEF ProcessesTyped
  <1>7. ASSUME NEW q \in Process \ {p} PROVE Each(q)'
    <2>1. UNCHANGED clipboard \/ (clipboard'.by # q /\ clipboard'.at = now)
      BY <1>1, <1>2
    <2> QED
      BY <1>1, <1>6, <2>1, OthersKeep
  <1>8. Manager!NoThread.step = "none" /\ Manager!FailedThread.step = "failed"
    BY ThreadOrNone
  <1>9. Each(p)'
    BY <1>1, <1>2, <1>6, <1>8, PasswordManagerAssumption DEF Each, Holds, Guards, Compared
  <1> QED
    BY <1>4, <1>5, <1>7, <1>9, <1>10


LEMMA EnvironmentKeeps ==
    ASSUME ManagerInv,
           \/ \E text \in Other : Manager!UserCopies(text)
           \/ \E i \in DOMAIN rows : Manager!Damage(i)
           \/ Manager!Tick
           \/ UNCHANGED managerVars
    PROVE  ManagerInv'
  <1> USE DEF ManagerInv, Types
  <1>1. ASSUME NEW text \in Other, Manager!UserCopies(text) PROVE ManagerInv'
    <2> DEFINE copied == [text |-> text, by |-> Manager!Nobody, at |-> now]
    <2>1. clipboard' = copied /\ UNCHANGED <<now, rows, pc, command, password, clearer, answers>>
      BY <1>1 DEF Manager!UserCopies, Manager!processes
    <2>2. copied.by = Manager!Nobody /\ copied.at = now
      OBVIOUS
    <2>3. ClipboardTyped'
      BY <2>1 DEF ClipboardTyped
    <2> HIDE DEF copied
    <2>4. RowsTyped' /\ AnswersTyped' /\ Answered' /\ PcTyped' /\ ProcessesTyped'
      BY <2>1, SameRows DEF RowsTyped, AnswersTyped, PcTyped, ProcessesTyped
    <2>5. \A q \in Process : Each(q)'
      <3> SUFFICES ASSUME NEW q \in Process PROVE Each(q)'
        OBVIOUS
      <3>1. clipboard'.by # q /\ clipboard'.at = now
        BY <2>1, <2>2, PasswordManagerAssumption
      <3> QED
        BY <2>1, <3>1, OthersKeep
    <2> QED
      BY <2>3, <2>4, <2>5
  <1>2. ASSUME NEW i \in DOMAIN rows, Manager!Damage(i) PROVE ManagerInv'
    <2> DEFINE row == [rows[i] EXCEPT !.whole = FALSE]
    <2>1. rows' = [rows EXCEPT ![i] = row]
          /\ UNCHANGED <<now, clipboard, pc, command, password, clearer, answers>>
      BY <1>2 DEF Manager!Damage, Manager!processes
    <2>2. rows[i] \in Manager!Row
      BY RowsDomain DEF RowsTyped
    <2>3. /\ row \in Manager!Row /\ row.owner = rows[i].owner /\ row.site = rows[i].site
          /\ row.password = rows[i].password
      BY <2>2 DEF Manager!Row
    <2> HIDE DEF row
    <2>4. /\ RowsTyped' /\ DOMAIN rows' = DOMAIN rows
          /\ \A j \in DOMAIN rows : rows'[j] = IF j = i THEN row ELSE rows[j]
      BY <2>1, <2>3 DEF RowsTyped
    <2>5. Answered'
      BY <2>1, <2>3, <2>4, FirstStays
    <2>6. AnswersTyped' /\ ClipboardTyped' /\ PcTyped' /\ ProcessesTyped'
      BY <2>1 DEF AnswersTyped, ClipboardTyped, PcTyped, ProcessesTyped
    <2>7. \A q \in Process : Each(q)'
      BY <2>1, OthersKeep
    <2> QED
      BY <2>4, <2>5, <2>6, <2>7
  <1>3. CASE Manager!Tick
    <2>1. /\ now' = now + 1 /\ UNCHANGED <<rows, clipboard, pc, command, password, clearer, answers>>
          /\ \A q \in Process : clearer[q].step = "sleep" => now < clearer[q].due
          /\ \A q \in Process : clearer[q].step # "clear"
      BY <1>3 DEF Manager!Tick, Manager!processes
    <2>2. RowsTyped' /\ AnswersTyped' /\ Answered' /\ PcTyped' /\ ProcessesTyped'
      BY <2>1, SameRows DEF RowsTyped, AnswersTyped, PcTyped, ProcessesTyped
    <2>3. now \in Nat /\ now' \in Nat /\ clipboard.at \in Nat /\ clipboard.at + Delay \in Nat
      <3>1. now \in Nat
        BY DEF ClipboardTyped
      <3>2. now' \in Nat
        BY <2>1, <3>1
      <3>3. clipboard.at \in Nat
        BY DEF ClipboardTyped
      <3>4. Delay \in Nat
        BY PasswordManagerAssumption
      <3> QED
        BY <3>1, <3>2, <3>3, <3>4
    <2>4. ClipboardTyped'
      BY <2>1, <2>3 DEF ClipboardTyped
    <2>5. ASSUME NEW q \in Process PROVE Each(q)'
      <3>1. CASE clipboard.by = q /\ clipboard.text \in Secret /\ clearer[q].step # "failed"
        <4>1. clearer[q].step = "sleep"
          BY <2>1, <3>1, ThreadOrNone DEF Each, Guards, Thread
        <4>2. now < clipboard.at + Delay
          BY <2>1, <3>1, <4>1 DEF Each, Guards
        <4>3. now' <= clipboard.at + Delay
          BY <2>1, <2>3, <4>2
        <4> QED
          BY <2>1, <4>1, <4>3 DEF Each, Holds, Guards, Compared
      <3>2. CASE ~(clipboard.by = q /\ clipboard.text \in Secret)
        BY <2>1, <3>2 DEF Each, Holds, Guards, Compared
      <3>3. CASE clearer[q].step = "failed"
        BY <2>1, <3>3 DEF Each, Holds, Guards, Compared
      <3> QED
        BY <3>1, <3>2, <3>3
    <2> QED
      BY <2>2, <2>4, <2>5
  <1>4. CASE UNCHANGED managerVars
    <2>1. UNCHANGED <<now, rows, clipboard, pc, command, password, clearer, answers>>
      BY <1>4 DEF managerVars
    <2>2. Types' /\ Answered'
      BY <2>1, SameRows DEF RowsTyped, AnswersTyped, ClipboardTyped, PcTyped, ProcessesTyped
    <2>3. \A q \in Process : Each(q)'
      BY <2>1, OthersKeep
    <2> QED
      BY <2>2, <2>3
  <1> QED
    BY <1>1, <1>2, <1>3, <1>4

LEMMA ManagerSteps == ManagerInv /\ (Manager!Next \/ UNCHANGED managerVars) => ManagerInv'
  <1> SUFFICES ASSUME ManagerInv, Manager!Next \/ UNCHANGED managerVars PROVE ManagerInv'
    OBVIOUS
  <1>1. ASSUME NEW p \in Process, NEW c \in Manager!Command, Manager!Run(p, c) PROVE ManagerInv'
    BY <1>1, RunKeeps
  <1>2. ASSUME NEW p \in Process, Manager!Work(p) PROVE ManagerInv'
    BY <1>2, AuthenticateKeeps, AddCredentialKeeps, GetCredentialKeeps, CopyToClipboardKeeps,
       ExitManagerKeeps, CompareClipboardKeeps, ClearClipboardKeeps DEF Manager!Work
  <1> QED
    BY <1>1, <1>2, EnvironmentKeeps DEF Manager!Next

LEMMA ManagerAlways == CommandLineSpec => []ManagerInv
  <1>1. CommandLineInit => ManagerInv
    BY ManagerStarts DEF CommandLineInit
  <1>2. ManagerInv /\ [RunPasswordManager \/ RunMessenger]_<<program, vars, managerVars>> => ManagerInv'
    BY ManagerSteps DEF RunPasswordManager, RunMessenger
  <1> QED
    BY <1>1, <1>2, PTL DEF CommandLineSpec

LEMMA ManagerCardinality == \A S : Manager!Cardinality(S) = Cardinality(S)
  BY DEF Manager!Cardinality, Cardinality

LEMMA SameAnswerGiven == ManagerInv => SameAnswer
  <1> SUFFICES ASSUME ManagerInv, NEW u \in Owner, NEW s \in Site
               PROVE  Cardinality(answers[<<u, s>>]) <= 1
    BY ManagerCardinality DEF SameAnswer, Manager!SameAnswer
  <1> DEFINE k == <<u, s>>
             given == answers[k]
  <1>1. k \in Owner \X Site
    OBVIOUS
  <1> HIDE DEF k
  <1>2. ASSUME NEW x \in given, NEW y \in given PROVE x = y
    <2>1. PICK i \in DOMAIN rows : IsFirst(i, k) /\ rows[i].password = x
      BY <1>1 DEF ManagerInv, Answered
    <2>2. PICK j \in DOMAIN rows : IsFirst(j, k) /\ rows[j].password = y
      BY <1>1 DEF ManagerInv, Answered
    <2>3. i \in Nat /\ j \in Nat
      BY RowsDomain DEF ManagerInv, Types
    <2>4. ~(i < j) /\ ~(j < i)
      BY <2>1, <2>2 DEF IsFirst
    <2> QED
      BY <2>1, <2>2, <2>3, <2>4
  <1>3. given = {} \/ \E x : given = {x}
    BY <1>2
  <1> HIDE DEF given
  <1>4. CASE given = {}
    BY <1>4, FS_EmptySet DEF given, k
  <1>5. ASSUME NEW x, given = {x} PROVE Cardinality(given) = 1
    BY <1>5, FS_Singleton
  <1> QED
    BY <1>3, <1>4, <1>5 DEF given, k

-----------------------------------------------------------------------------

(* Whatever users and sites there are and whatever processes run: get gives *)
(* the credential that was stored first, which no later add comes before    *)
(* (add_credential and get_credential of app/cli/password_manager.py).      *)
THEOREM PasswordManagerSameAnswer == CommandLineSpec => []SameAnswer
  BY ManagerAlways, SameAnswerGiven, PTL

(* For any number of processes and any delay: a password that a live       *)
(* process has copied is off the clipboard when the delay is over, unless  *)
(* the clipboard raised in the thread that was to clear it.                *)
THEOREM PasswordManagerGoneAfterDelay == CommandLineSpec => []GoneAfterDelay
  <1>1. ManagerInv => GoneAfterDelay
    BY DEF ManagerInv, Each, Guards, GoneAfterDelay, Manager!GoneAfterDelay
  <1> QED
    BY <1>1, ManagerAlways, PTL

(* For any number of processes: a thread wipes what is not its own password *)
(* only if that came between its comparison and its clearing.               *)
THEOREM PasswordManagerClearsOnlyOwn == CommandLineSpec => ClearsOnlyOwn
  <1>1. ManagerInv => [\A p \in Process :
              /\ clearer[p].step = "clear"
              /\ clipboard'.text = "" /\ clipboard'.by = p /\ clipboard # clipboard'
              => clipboard.text = clearer[p].text \/ clipboard.at = now]_(Manager!vars)
    BY DEF ManagerInv, Each, Compared
  <1> QED
    BY <1>1, ManagerAlways, PTL DEF ClearsOnlyOwn, Manager!ClearsOnlyOwn

=============================================================================
