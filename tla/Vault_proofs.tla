---------------------------- MODULE Vault_proofs ----------------------------
(***************************************************************************)
(* What Vault guarantees for all users, passwords, requests and files: its *)
(* types, that every request works with the key of its own user and        *)
(* password, and that a row always names a whole file of its owner.        *)
(***************************************************************************)
EXTENDS Vault, TLAPS

USE VaultAssumption

-----------------------------------------------------------------------------
(* Types *)

LEMMA NoRequestIsNone == NoRequest \notin Request
  BY DEF NoRequest, Request

\* A request that is under way is one, with all its parts.
LEMMA RequestFields ==
    ASSUME TypeOK, NEW t \in Thread, pc[t] # "idle"
    PROVE  /\ request[t] \in Request
           /\ request[t].op \in {"upload", "download"}
           /\ request[t].user \in User /\ request[t].password \in Password
           /\ request[t].file \in FileId \cup {NoFile}
  <1>1. request[t] \in Request
    BY DEF TypeOK
  <1> QED
    BY <1>1 DEF Request

LEMMA AnswerTyping ==
    ASSUME TypeOK, NEW t \in Thread, NEW s \in Reply, Answer(t, s)
    PROVE  /\ pc' \in [Thread -> Step]
           /\ request' \in [Thread -> Request \cup {NoRequest}]
           /\ key' \in [Thread -> Key \cup {NoKey}]
           /\ reply' \in [Thread -> Reply]
           /\ \A r \in Thread : request'[r] = NoRequest <=> pc'[r] = "idle"
  BY DEF TypeOK, Answer, Step

-----------------------------------------------------------------------------
(* The inductive invariant *)

\* A request has no key before it has looked one up, and its own from then on.
HeldKeys ==
    \A t \in Thread :
        key[t] = IF pc[t] \in {"idle", "lookup", "derive"}
                 THEN NoKey
                 ELSE DeriveKey(request[t].user, request[t].password)

\* Every slot of the cache holds the key of its own user and password.
CachedOwn ==
    \A c \in cache : \E u \in User, pw \in Password :
        c.slot = CacheSlot(u, pw) /\ c.key = DeriveKey(u, pw)

\* Every file is encrypted with the key of the upload it is from.
FileKeys ==
    \A f \in FileId :
        files[f] # NoContent => files[f].key = DeriveKey(files[f].owner, files[f].password)

\* An upload past its first write has a file of its own user on the disk, and
\* a whole one when it is about to commit.
Writing ==
    \A t \in Thread :
        pc[t] \in {"append", "commit"} =>
            /\ request[t].file \in FileId
            /\ files[request[t].file] \in Content
            /\ files[request[t].file].owner = request[t].user
            /\ pc[t] = "commit" => files[request[t].file].state # "partial"

\* The files that uploads are writing are different ones, and no row names
\* them yet.
WritersApart ==
    \A s, t \in Thread :
        pc[t] \in {"append", "commit"} =>
            /\ entries[request[t].file] = NoRow
            /\ s # t /\ pc[s] \in {"append", "commit"} => request[s].file # request[t].file

\* A download asks for a file by its name.
DownloadNames ==
    \A t \in Thread :
        \/ pc[t] \in {"lookup", "derive"} /\ request[t].op = "download"
        \/ pc[t] \in {"query", "decrypt"}
        => request[t].file \in FileId

VaultInv ==
    /\ TypeOK /\ HeldKeys /\ CachedOwn /\ FileKeys
    /\ Writing /\ EntryHasFile /\ WritersApart /\ DownloadNames

LEMMA BeginStep ==
    ASSUME VaultInv, NEW t \in Thread, NEW op \in {"upload", "download"}, NEW u \in User,
           NEW pw \in Password, NEW f \in FileId \cup {NoFile},
           op = "download" => f \in FileId, Begin(t, op, u, pw, f)
    PROVE  VaultInv'
  <1> DEFINE r == [op |-> op, user |-> u, password |-> pw, file |-> f]
  <1>1. r \in Request /\ r # NoRequest
    BY NoRequestIsNone DEF Request
  <1> HIDE DEF r
  <1>2. request' = [request EXCEPT ![t] = r]
    BY DEF Begin, r
  <1>3. TypeOK'
    BY <1>1, <1>2 DEF Begin, VaultInv, TypeOK, Step, Reply, disk
  <1>4. \A s \in Thread : s # t => pc'[s] = pc[s] /\ request'[s] = request[s]
    BY <1>2 DEF Begin, VaultInv, TypeOK
  <1>5. pc[t] = "idle" /\ pc'[t] = "lookup" /\ key' = key
    BY DEF Begin, VaultInv, TypeOK
  <1>6. HeldKeys'
    BY <1>4, <1>5 DEF VaultInv, HeldKeys
  <1>7. Writing' /\ WritersApart'
    BY <1>4, <1>5 DEF Begin, VaultInv, Writing, WritersApart, disk
  <1>8. CachedOwn' /\ FileKeys' /\ EntryHasFile'
    BY DEF Begin, VaultInv, CachedOwn, FileKeys, EntryHasFile, disk
  <1>9. DownloadNames'
    <2>1. request'[t] = r /\ r.op = op /\ r.file = f
      BY <1>2 DEF r, VaultInv, TypeOK
    <2> QED
      BY <1>4, <1>5, <2>1 DEF VaultInv, DownloadNames
  <1> QED
    BY <1>3, <1>6, <1>7, <1>8, <1>9 DEF VaultInv

LEMMA LookupKeyStep ==
    ASSUME VaultInv, NEW t \in Thread, LookupKey(t)
    PROVE  VaultInv'
  <1> USE DEF disk
  <1>1. pc[t] = "lookup" /\ request' = request /\ cache' = cache /\ files' = files
        /\ entries' = entries
    BY DEF LookupKey
  <1>2. pc' \in [Thread -> Step] /\ \A s \in Thread : pc'[s] = "idle" <=> pc[s] = "idle"
    BY DEF LookupKey, VaultInv, TypeOK, Step, AfterKey
  <1>3. key' \in [Thread -> Key \cup {NoKey}]
    BY DEF LookupKey, VaultInv, TypeOK, Cached
  <1>4. TypeOK'
    BY <1>2, <1>3 DEF LookupKey, VaultInv, TypeOK
  <1>5. \A s \in Thread : s # t => pc'[s] = pc[s] /\ key'[s] = key[s]
    BY DEF LookupKey, VaultInv, TypeOK
  <1>6. pc'[t] \notin {"append", "commit"}
    BY DEF LookupKey, VaultInv, TypeOK, AfterKey
  <1>7. key'[t] = IF pc'[t] \in {"idle", "lookup", "derive"}
                  THEN NoKey ELSE DeriveKey(request[t].user, request[t].password)
    <2>1. CASE pc' = [pc EXCEPT ![t] = "derive"] /\ UNCHANGED key
      BY <2>1, <1>1 DEF VaultInv, TypeOK, HeldKeys
    <2>2. CASE \E c \in cache :
                  /\ c.slot = CacheSlot(request[t].user, request[t].password)
                  /\ key' = [key EXCEPT ![t] = c.key]
                  /\ pc' = [pc EXCEPT ![t] = AfterKey(t)]
      <3>1. PICK c \in cache :
                  /\ c.slot = CacheSlot(request[t].user, request[t].password)
                  /\ key' = [key EXCEPT ![t] = c.key]
                  /\ pc' = [pc EXCEPT ![t] = AfterKey(t)]
        BY <2>2
      <3>2. c.key = DeriveKey(request[t].user, request[t].password)
        BY <3>1 DEF VaultInv, CachedOwn, CacheSlot, DeriveKey
      <3> QED
        BY <3>1, <3>2 DEF VaultInv, TypeOK, AfterKey
    <2> QED
      BY <2>1, <2>2 DEF LookupKey
  <1>8. HeldKeys'
    BY <1>1, <1>5, <1>7 DEF VaultInv, HeldKeys
  <1>9. Writing' /\ WritersApart'
    BY <1>1, <1>5, <1>6 DEF VaultInv, Writing, WritersApart
  <1>10. CachedOwn' /\ FileKeys' /\ EntryHasFile'
    BY <1>1 DEF VaultInv, CachedOwn, FileKeys, EntryHasFile
  <1>11. DownloadNames'
    <2>1. request[t].op \in {"upload", "download"}
      BY RequestFields DEF LookupKey, VaultInv
    <2>2. pc[t] \in {"lookup", "derive"} /\ request' = request
          /\ (pc'[t] = "query" => request[t].op # "upload")
          /\ pc'[t] \notin {"lookup", "decrypt"}
      BY DEF LookupKey, VaultInv, TypeOK, AfterKey
    <2> QED
      BY <1>1, <1>5, <2>1, <2>2 DEF VaultInv, DownloadNames
  <1> QED
    BY <1>4, <1>8, <1>9, <1>10, <1>11 DEF VaultInv

LEMMA DeriveAndStoreStep ==
    ASSUME VaultInv, NEW t \in Thread, DeriveAndStore(t)
    PROVE  VaultInv'
  <1> USE DEF disk
  <1> DEFINE u == request[t].user
  <1> DEFINE pw == request[t].password
  <1> DEFINE c == [slot |-> CacheSlot(u, pw), key |-> DeriveKey(u, pw), expires |-> now + KeyTTL]
  <1>1. u \in User /\ pw \in Password
    BY RequestFields DEF DeriveAndStore, VaultInv
  <1>2. c \in Cached /\ DeriveKey(u, pw) \in Key
    BY <1>1 DEF Cached, Key, VaultInv, TypeOK
  <1>3. cache' \subseteq cache \cup {c} /\ key' = [key EXCEPT ![t] = DeriveKey(u, pw)]
    BY DEF DeriveAndStore
  <1>4. pc' \in [Thread -> Step] /\ \A s \in Thread : pc'[s] = "idle" <=> pc[s] = "idle"
    BY DEF DeriveAndStore, VaultInv, TypeOK, Step, AfterKey
  <1>5. TypeOK'
    BY <1>2, <1>3, <1>4 DEF DeriveAndStore, VaultInv, TypeOK
  <1>6. \A s \in Thread : s # t => pc'[s] = pc[s] /\ key'[s] = key[s]
    BY DEF DeriveAndStore, VaultInv, TypeOK
  <1>7. pc'[t] \in {"write", "query"}
    BY DEF DeriveAndStore, VaultInv, TypeOK, AfterKey
  <1>8. HeldKeys'
    BY <1>3, <1>6, <1>7 DEF DeriveAndStore, VaultInv, TypeOK, HeldKeys
  <1>9. Writing' /\ WritersApart'
    BY <1>6, <1>7 DEF DeriveAndStore, VaultInv, Writing, WritersApart
  <1>10. CachedOwn'
    BY <1>1, <1>3 DEF VaultInv, CachedOwn
  <1>11. FileKeys' /\ EntryHasFile'
    BY DEF DeriveAndStore, VaultInv, FileKeys, EntryHasFile
  <1>12. DownloadNames'
    <2>1. request[t].op \in {"upload", "download"}
      BY RequestFields DEF DeriveAndStore, VaultInv
    <2>2. pc[t] \in {"lookup", "derive"} /\ request' = request
          /\ (pc'[t] = "query" => request[t].op # "upload")
          /\ pc'[t] \notin {"lookup", "decrypt"}
      BY DEF DeriveAndStore, VaultInv, TypeOK, AfterKey
    <2> QED
      BY <1>6, <2>1, <2>2 DEF VaultInv, DownloadNames
  <1> QED
    BY <1>5, <1>8, <1>9, <1>10, <1>11, <1>12 DEF VaultInv

LEMMA WriteIVStep ==
    ASSUME VaultInv, NEW t \in Thread, WriteIV(t)
    PROVE  VaultInv'
  <1>1. PICK f \in FileId :
          /\ files[f] = NoContent
          /\ files' = [files EXCEPT ![f] =
                         [state |-> "partial", key |-> key[t],
                          owner |-> request[t].user, password |-> request[t].password]]
          /\ request' = [request EXCEPT ![t].file = f]
    BY DEF WriteIV, FreshName
  <1> DEFINE c == [state |-> "partial", key |-> key[t],
                   owner |-> request[t].user, password |-> request[t].password]
  <1>2. pc[t] = "write" /\ request[t] \in Request
        /\ request[t].user \in User /\ request[t].password \in Password
    BY RequestFields DEF WriteIV, VaultInv
  <1>3. key[t] = DeriveKey(request[t].user, request[t].password)
    BY <1>2 DEF VaultInv, HeldKeys
  <1>4. c \in Content /\ c # NoContent
    BY <1>2, <1>3 DEF Content, Key, NoContent
  <1>5. request'[t] \in Request /\ request'[t].user = request[t].user
        /\ request'[t].password = request[t].password /\ request'[t].file = f
    BY <1>1, <1>2 DEF Request, VaultInv, TypeOK
  <1>6. \A s \in Thread : s # t => pc'[s] = pc[s] /\ request'[s] = request[s]
    BY <1>1 DEF WriteIV, VaultInv, TypeOK
  <1>7. pc'[t] = "append" /\ pc' \in [Thread -> Step] /\ key' = key
    BY DEF WriteIV, VaultInv, TypeOK, Step
  <1>8. files' = [files EXCEPT ![f] = c]
    BY <1>1
  <1> HIDE DEF c
  <1>9. files' \in [FileId -> Content \cup {NoContent}] /\ files'[f] = c
        /\ \A g \in FileId : g # f => files'[g] = files[g]
    BY <1>4, <1>8 DEF VaultInv, TypeOK
  <1>10. request' \in [Thread -> Request \cup {NoRequest}]
    BY <1>1, <1>5, <1>6 DEF VaultInv, TypeOK
  <1>11. TypeOK'
    <2>1. \A s \in Thread : request'[s] = NoRequest <=> pc'[s] = "idle"
      BY <1>5, <1>6, <1>7, NoRequestIsNone DEF VaultInv, TypeOK
    <2> QED
      BY <1>7, <1>9, <1>10, <2>1 DEF WriteIV, VaultInv, TypeOK
  <1>12. HeldKeys'
    BY <1>2, <1>5, <1>6, <1>7 DEF VaultInv, HeldKeys
  <1>13. FileKeys'
    <2>1. c.key = DeriveKey(c.owner, c.password)
      BY <1>3 DEF c
    <2> QED
      BY <1>9, <2>1 DEF VaultInv, FileKeys
  <1>14. entries' = entries /\ entries[f] = NoRow
    BY <1>1 DEF WriteIV, VaultInv, EntryHasFile
  <1>15. EntryHasFile'
    BY <1>9, <1>14 DEF VaultInv, EntryHasFile
  <1>16. \A s \in Thread : s # t /\ pc[s] \in {"append", "commit"} => request[s].file # f
    <2>1. NoContent \notin Content
      BY DEF NoContent, Content
    <2> QED
      BY <1>1, <2>1 DEF VaultInv, Writing
  <1>17. Writing'
    <2>1. c.owner = request[t].user
      BY DEF c
    <2> QED
      BY <1>4, <1>5, <1>6, <1>7, <1>9, <1>16, <2>1 DEF VaultInv, Writing
  <1>18. WritersApart'
    BY <1>5, <1>6, <1>7, <1>14, <1>16 DEF VaultInv, WritersApart
  <1>19. CachedOwn'
    BY DEF WriteIV, VaultInv, CachedOwn
  <1>20. DownloadNames'
    BY <1>6, <1>7 DEF VaultInv, DownloadNames
  <1> QED
    BY <1>20, <1>11, <1>12, <1>13, <1>15, <1>17, <1>18, <1>19 DEF VaultInv

\* A file keeps everything but its state.
LEMMA ChangeState ==
    ASSUME VaultInv, NEW f \in FileId, files[f] \in Content, NEW st \in {"whole", "damaged", "lost"},
           files' = [files EXCEPT ![f].state = st]
    PROVE  /\ files' \in [FileId -> Content \cup {NoContent}]
           /\ files'[f] \in Content /\ files'[f].state = st
           /\ files'[f].owner = files[f].owner
           /\ files'[f].password = files[f].password
           /\ files'[f].key = files[f].key
           /\ files'[f] # NoContent /\ files[f] # NoContent
           /\ \A g \in FileId : g # f => files'[g] = files[g]
  <1>1. files'[f] = [files[f] EXCEPT !.state = st]
        /\ \A g \in FileId : g # f => files'[g] = files[g]
    BY DEF VaultInv, TypeOK
  <1>2. files'[f] \in Content /\ files'[f].state = st
        /\ files'[f].owner = files[f].owner /\ files'[f].password = files[f].password
        /\ files'[f].key = files[f].key
    BY <1>1 DEF Content
  <1>3. NoContent \notin Content
    BY DEF NoContent, Content
  <1>4. files' \in [FileId -> Content \cup {NoContent}]
    BY <1>1, <1>2 DEF VaultInv, TypeOK
  <1> QED
    BY <1>1, <1>2, <1>3, <1>4

LEMMA WholeFileStep ==
    ASSUME VaultInv, NEW t \in Thread, pc[t] = "append",
           files' = [files EXCEPT ![request[t].file].state = "whole"],
           pc' = [pc EXCEPT ![t] = "commit"],
           UNCHANGED <<now, cache, entries, request, key, reply>>
    PROVE  VaultInv'
  <1> DEFINE f == request[t].file
  <1>1. f \in FileId /\ files[f] \in Content
    BY DEF VaultInv, Writing
  <1>2. files' = [files EXCEPT ![f].state = "whole"]
    OBVIOUS
  <1>3. pc[t] = "append" /\ pc'[t] = "commit" /\ pc' \in [Thread -> Step]
        /\ \A s \in Thread : s # t => pc'[s] = pc[s]
    BY DEF VaultInv, TypeOK, Step
  <1>4. UNCHANGED <<now, cache, entries, request, key, reply>>
    OBVIOUS
  <1> HIDE DEF f
  <1>5. /\ files' \in [FileId -> Content \cup {NoContent}]
        /\ files'[f] \in Content /\ files'[f].state = "whole"
        /\ files'[f].owner = files[f].owner
        /\ files'[f].password = files[f].password
        /\ files'[f].key = files[f].key
        /\ files'[f] # NoContent /\ files[f] # NoContent
        /\ \A g \in FileId : g # f => files'[g] = files[g]
    BY <1>1, <1>2, ChangeState
  <1>6. TypeOK'
    BY <1>3, <1>4, <1>5 DEF VaultInv, TypeOK
  <1>7. HeldKeys'
    BY <1>3, <1>4 DEF VaultInv, HeldKeys
  <1>8. FileKeys'
    BY <1>5 DEF VaultInv, FileKeys
  <1>9. EntryHasFile'
    BY <1>4, <1>5 DEF VaultInv, EntryHasFile
  <1>10. Writing'
    <2>1. ASSUME NEW s \in Thread, pc'[s] \in {"append", "commit"}
          PROVE  /\ request[s].file \in FileId
                 /\ files'[request[s].file] \in Content
                 /\ files'[request[s].file].owner = request[s].user
                 /\ pc'[s] = "commit" => files'[request[s].file].state # "partial"
      <3>1. CASE s = t
        BY <3>1, <1>1, <1>3, <1>5 DEF f, VaultInv, Writing
      <3>2. CASE s # t
        <4>1. request[s].file # f
          BY <3>2, <2>1, <1>3 DEF f, VaultInv, WritersApart
        <4> QED
          BY <3>2, <4>1, <2>1, <1>1, <1>3, <1>5 DEF f, VaultInv, Writing
      <3> QED
        BY <3>1, <3>2
    <2> QED
      BY <2>1, <1>4 DEF Writing
  <1>11. WritersApart'
    BY <1>3, <1>4 DEF VaultInv, WritersApart
  <1>12. CachedOwn'
    BY <1>4 DEF VaultInv, CachedOwn
  <1>13. DownloadNames'
    BY <1>3, <1>4 DEF VaultInv, DownloadNames
  <1> QED
    BY <1>13, <1>6, <1>7, <1>8, <1>9, <1>10, <1>11, <1>12 DEF VaultInv

\* The end of a request disturbs no other one.
LEMMA AnswerStep ==
    ASSUME VaultInv, NEW t \in Thread, NEW s \in Reply, Answer(t, s),
           UNCHANGED <<now, cache, files>>
    PROVE  /\ HeldKeys' /\ CachedOwn' /\ FileKeys' /\ Writing' /\ DownloadNames'
           /\ \A r \in Thread : r # t => pc'[r] = pc[r] /\ request'[r] = request[r]
           /\ pc'[t] = "idle"
           /\ entries' \in [FileId -> {<<u>> : u \in User} \cup {NoRow}] => TypeOK'
  <1>1. /\ pc' \in [Thread -> Step]
        /\ request' \in [Thread -> Request \cup {NoRequest}]
        /\ key' \in [Thread -> Key \cup {NoKey}]
        /\ reply' \in [Thread -> Reply]
        /\ \A r \in Thread : request'[r] = NoRequest <=> pc'[r] = "idle"
    BY AnswerTyping DEF VaultInv
  <1>2. /\ \A r \in Thread : r # t => /\ pc'[r] = pc[r] /\ request'[r] = request[r]
                                      /\ key'[r] = key[r]
        /\ pc'[t] = "idle" /\ key'[t] = NoKey
    BY DEF Answer, VaultInv, TypeOK
  <1>3. HeldKeys'
    BY <1>2 DEF VaultInv, HeldKeys
  <1>4. Writing' /\ DownloadNames'
    BY <1>2 DEF VaultInv, Writing, DownloadNames
  <1>5. CachedOwn' /\ FileKeys'
    BY DEF VaultInv, CachedOwn, FileKeys
  <1>6. entries' \in [FileId -> {<<u>> : u \in User} \cup {NoRow}] => TypeOK'
    BY <1>1 DEF VaultInv, TypeOK
  <1> QED
    BY <1>2, <1>3, <1>4, <1>5, <1>6

LEMMA WriteCiphertextStep ==
    ASSUME VaultInv, NEW t \in Thread, WriteCiphertext(t)
    PROVE  VaultInv'
  <1>1. UNCHANGED <<now, cache, entries>> /\ pc[t] = "append"
    BY DEF WriteCiphertext
  <1>2. CASE /\ files' = [files EXCEPT ![request[t].file].state = "whole"]
             /\ pc' = [pc EXCEPT ![t] = "commit"]
             /\ UNCHANGED <<request, key, reply>>
    BY <1>1, <1>2, WholeFileStep
  <1>3. CASE Answer(t, "500") /\ UNCHANGED files
    <2>1. "500" \in Reply
      BY DEF Reply
    <2>2. TypeOK'
      BY <1>1, <1>3, <2>1, AnswerStep DEF VaultInv, TypeOK
    <2>3. EntryHasFile'
      BY <1>1, <1>3 DEF VaultInv, EntryHasFile
    <2>4. WritersApart'
      BY <1>1, <1>3, <2>1, AnswerStep DEF VaultInv, WritersApart
    <2> QED
      BY <1>1, <1>3, <2>1, <2>2, <2>3, <2>4, AnswerStep DEF VaultInv
  <1> QED
    BY <1>2, <1>3 DEF WriteCiphertext

LEMMA CommitEntryStep ==
    ASSUME VaultInv, NEW t \in Thread, CommitEntry(t)
    PROVE  VaultInv'
  <1> DEFINE f == request[t].file
  <1>1. PICK s \in Reply : Answer(t, s)
    BY DEF CommitEntry, Reply
  <1>2. UNCHANGED <<now, cache, files>> /\ pc[t] = "commit"
    BY DEF CommitEntry
  <1>3. f \in FileId /\ files[f] \in Content /\ files[f].owner = request[t].user
        /\ files[f].state # "partial" /\ request[t].user \in User
    BY <1>2, RequestFields DEF VaultInv, Writing
  <1>4. entries' = entries \/ entries' = [entries EXCEPT ![f] = <<request[t].user>>]
    BY DEF CommitEntry
  <1>5. TypeOK'
    <2>1. entries' \in [FileId -> {<<u>> : u \in User} \cup {NoRow}]
      BY <1>3, <1>4 DEF VaultInv, TypeOK
    <2> QED
      BY <1>1, <1>2, <2>1, AnswerStep
  <1>6. files[f] # NoContent /\ files[f].state # "partial"
    BY <1>3 DEF Content, NoContent
  <1>7. EntryHasFile'
    BY <1>2, <1>3, <1>4, <1>6 DEF VaultInv, TypeOK, EntryHasFile
  <1>8. WritersApart'
    <2>1. \A g \in FileId : g # f => entries'[g] = entries[g]
      BY <1>4 DEF VaultInv, TypeOK
    <2>2. \A r \in Thread : r # t /\ pc[r] \in {"append", "commit"} =>
              request[r].file # f /\ request[r].file \in FileId
      BY <1>2 DEF VaultInv, WritersApart, Writing
    <2> QED
      BY <1>1, <1>2, <2>1, <2>2, AnswerStep DEF VaultInv, WritersApart
  <1> QED
    BY <1>1, <1>2, <1>5, <1>7, <1>8, AnswerStep DEF VaultInv

LEMMA FindEntryStep ==
    ASSUME VaultInv, NEW t \in Thread, FindEntry(t)
    PROVE  VaultInv'
  <1> USE DEF disk
  <1>1. UNCHANGED <<now, cache, files, entries>> /\ pc[t] = "query"
    BY DEF FindEntry
  <1>2. CASE pc' = [pc EXCEPT ![t] = "decrypt"] /\ UNCHANGED <<request, key, reply>>
    <2>1. pc' \in [Thread -> Step] /\ pc'[t] = "decrypt"
          /\ \A s \in Thread : s # t => pc'[s] = pc[s]
      BY <1>2 DEF VaultInv, TypeOK, Step
    <2>2. TypeOK'
      BY <1>1, <1>2, <2>1 DEF VaultInv, TypeOK
    <2>3. HeldKeys' /\ Writing' /\ WritersApart' /\ DownloadNames'
      BY <1>1, <1>2, <2>1 DEF VaultInv, HeldKeys, Writing, WritersApart, DownloadNames
    <2>4. CachedOwn' /\ FileKeys' /\ EntryHasFile'
      BY <1>1 DEF VaultInv, CachedOwn, FileKeys, EntryHasFile
    <2> QED
      BY <2>2, <2>3, <2>4 DEF VaultInv
  <1>3. CASE Answer(t, "404")
    <2>1. "404" \in Reply
      BY DEF Reply
    <2>2. TypeOK'
      BY <1>1, <1>3, <2>1, AnswerStep DEF VaultInv, TypeOK
    <2>3. EntryHasFile'
      BY <1>1 DEF VaultInv, EntryHasFile
    <2>4. WritersApart'
      BY <1>1, <1>3, <2>1, AnswerStep DEF VaultInv, WritersApart
    <2> QED
      BY <1>1, <1>3, <2>1, <2>2, <2>3, <2>4, AnswerStep DEF VaultInv
  <1> QED
    BY <1>2, <1>3 DEF FindEntry

LEMMA DecryptStep ==
    ASSUME VaultInv, NEW t \in Thread, Decrypt(t)
    PROVE  VaultInv'
  <1>1. UNCHANGED <<now, cache, files, entries>>
    BY DEF Decrypt, disk
  <1>2. PICK s \in Reply : Answer(t, s)
    BY DEF Decrypt, Reply
  <1>3. TypeOK'
    BY <1>1, <1>2, AnswerStep DEF VaultInv, TypeOK
  <1>4. EntryHasFile'
    BY <1>1 DEF VaultInv, EntryHasFile
  <1>5. WritersApart'
    BY <1>1, <1>2, AnswerStep DEF VaultInv, WritersApart
  <1> QED
    BY <1>1, <1>2, <1>3, <1>4, <1>5, AnswerStep DEF VaultInv

LEMMA DamageStep ==
    ASSUME VaultInv, NEW f \in FileId, Damage(f)
    PROVE  VaultInv'
  <1> USE DEF requests
  <1>1. files[f] \in Content
    BY DEF Damage, VaultInv, TypeOK
  <1>2. PICK st \in {"damaged", "lost"} :
          files' = [files EXCEPT ![f].state = st]
          /\ UNCHANGED <<now, cache, entries, requests>>
    BY DEF Damage
  <1>3. /\ files' \in [FileId -> Content \cup {NoContent}]
        /\ files'[f] \in Content /\ files'[f].state \in {"damaged", "lost"}
        /\ files'[f].owner = files[f].owner
        /\ files'[f].password = files[f].password
        /\ files'[f].key = files[f].key
        /\ files'[f] # NoContent /\ files[f] # NoContent
        /\ \A g \in FileId : g # f => files'[g] = files[g]
    BY <1>1, <1>2, ChangeState
  <1>4. TypeOK'
    BY <1>2, <1>3 DEF VaultInv, TypeOK
  <1>5. FileKeys' /\ EntryHasFile'
    BY <1>2, <1>3 DEF VaultInv, FileKeys, EntryHasFile
  <1>6. Writing'
    BY <1>2, <1>3 DEF VaultInv, Writing
  <1>7. HeldKeys' /\ CachedOwn' /\ WritersApart' /\ DownloadNames'
    BY <1>2 DEF VaultInv, HeldKeys, CachedOwn, WritersApart, DownloadNames
  <1> QED
    BY <1>4, <1>5, <1>6, <1>7 DEF VaultInv

LEMMA CrashStep ==
    ASSUME VaultInv, Crash
    PROVE  VaultInv'
  <1> USE DEF disk
  <1>1. TypeOK'
    BY DEF Crash, VaultInv, TypeOK, Step, Reply
  <1>2. HeldKeys' /\ CachedOwn' /\ Writing' /\ WritersApart' /\ DownloadNames'
    BY DEF Crash, HeldKeys, CachedOwn, Writing, WritersApart, DownloadNames
  <1>3. FileKeys' /\ EntryHasFile'
    BY DEF Crash, VaultInv, FileKeys, EntryHasFile
  <1> QED
    BY <1>1, <1>2, <1>3 DEF VaultInv

\* Steps that leave every request and the disk alone and the cache no fuller.
LEMMA QuietStep ==
    ASSUME VaultInv, now' \in Nat, cache' \subseteq cache, UNCHANGED <<disk, requests>>
    PROVE  VaultInv'
  <1> USE DEF disk, requests
  <1>1. TypeOK'
    BY DEF VaultInv, TypeOK
  <1>2. HeldKeys' /\ CachedOwn' /\ Writing' /\ WritersApart' /\ FileKeys' /\ EntryHasFile'
        /\ DownloadNames'
    BY DEF VaultInv, DownloadNames, HeldKeys, CachedOwn, Writing, WritersApart, FileKeys, EntryHasFile
  <1> QED
    BY <1>1, <1>2 DEF VaultInv

THEOREM VaultInvariant == Spec => []VaultInv
  <1>1. Init => VaultInv
    <2> SUFFICES ASSUME Init
                 PROVE  VaultInv
      OBVIOUS
    <2>1. TypeOK
      BY DEF Init, TypeOK, Step, Reply
    <2>2. HeldKeys /\ CachedOwn /\ FileKeys /\ Writing /\ EntryHasFile /\ WritersApart
         /\ DownloadNames
      BY DEF Init, DownloadNames, HeldKeys, CachedOwn, FileKeys, Writing, EntryHasFile, WritersApart
    <2> QED
      BY <2>1, <2>2 DEF VaultInv
  <1>2. VaultInv /\ [Next]_vars => VaultInv'
    <2> SUFFICES ASSUME VaultInv, [Next]_vars
                 PROVE  VaultInv'
      OBVIOUS
    <2>1. ASSUME NEW t \in Thread, NEW u \in User, NEW pw \in Password, Upload(t, u, pw)
          PROVE  VaultInv'
      BY <2>1, BeginStep DEF Upload
    <2>2. ASSUME NEW t \in Thread, NEW u \in User, NEW pw \in Password, NEW f \in FileId,
                 Download(t, u, pw, f)
          PROVE  VaultInv'
      BY <2>2, BeginStep DEF Download
    <2>3. ASSUME NEW t \in Thread, Serve(t)
          PROVE  VaultInv'
      BY <2>3, LookupKeyStep, DeriveAndStoreStep, WriteIVStep, WriteCiphertextStep,
         CommitEntryStep, FindEntryStep, DecryptStep DEF Serve
    <2>4. ASSUME NEW u \in User, Invalidate(u)
          PROVE  VaultInv'
      BY <2>4, QuietStep DEF Invalidate, VaultInv, TypeOK
    <2>5. ASSUME NEW f \in FileId, Damage(f)
          PROVE  VaultInv'
      BY <2>5, DamageStep
    <2>6. CASE Tick
      BY <2>6, QuietStep DEF Tick, VaultInv, TypeOK
    <2>7. CASE UNCHANGED vars
      BY <2>7, QuietStep DEF vars, VaultInv, TypeOK
    <2> QED
      BY <2>1, <2>2, <2>3, <2>4, <2>5, <2>6, <2>7, CrashStep DEF Next
  <1> QED
    BY <1>1, <1>2, PTL DEF Spec

-----------------------------------------------------------------------------
(* The properties *)

\* The cache holds keys of users and passwords, the disk files, the table rows,
\* and a thread has a request exactly while it serves one.
THEOREM VaultTyping == Spec => []TypeOK
  <1>1. VaultInv => TypeOK
    BY DEF VaultInv
  <1> QED
    BY <1>1, VaultInvariant, PTL

\* The key a request works with is the one its own user and password derive,
\* whether it came from the cache or not.
THEOREM VaultKeyIsOwn == Spec => []KeyIsOwn
  <1>1. VaultInv => KeyIsOwn
    BY DEF VaultInv, HeldKeys, KeyIsOwn
  <1> QED
    BY <1>1, VaultInvariant, PTL

\* A row never names a file that its upload did not finish, or another user's.
THEOREM VaultEntryHasFile == Spec => []EntryHasFile
  <1>1. VaultInv => EntryHasFile
    BY DEF VaultInv
  <1> QED
    BY <1>1, VaultInvariant, PTL

\* The file a download is about to read is encrypted with the key of its own
\* upload, and the download holds that of its own user and password.
LEMMA KeysAtDecrypt ==
    ASSUME VaultInv, NEW t \in Thread, pc[t] = "decrypt",
           files[request[t].file].state \in {"whole", "partial", "damaged", "lost"}
    PROVE  /\ key[t] = DeriveKey(request[t].user, request[t].password)
           /\ files[request[t].file].key =
                DeriveKey(files[request[t].file].owner, files[request[t].file].password)
  <1>1. request[t].file \in FileId
    BY DEF VaultInv, DownloadNames
  <1>2. files[request[t].file] # NoContent
    BY DEF NoContent
  <1> QED
    BY <1>1, <1>2 DEF VaultInv, HeldKeys, FileKeys

\* The two answers that tell of a file come from Decrypt alone.
LEMMA DecryptAnswers ==
    ASSUME VaultInv, [Next]_vars, NEW t \in Thread, NEW r \in {"200", "422"},
           reply'[t] = r, reply[t] # r
    PROVE  Decrypt(t)
  <1>1. ASSUME NEW s \in Thread, Serve(s)
        PROVE  Decrypt(t)
    <2>1. CASE LookupKey(s) \/ DeriveAndStore(s) \/ WriteIV(s)
      BY <2>1 DEF LookupKey, DeriveAndStore, WriteIV
    <2>2. CASE WriteCiphertext(s) \/ CommitEntry(s) \/ FindEntry(s)
      BY <2>2 DEF WriteCiphertext, CommitEntry, FindEntry, Answer, VaultInv, TypeOK
    <2>3. CASE Decrypt(s)
      BY <2>3 DEF Decrypt, Answer, VaultInv, TypeOK
    <2> QED
      BY <1>1, <2>1, <2>2, <2>3 DEF Serve
  <1>2. ASSUME NEW s \in Thread, NEW u \in User, NEW pw \in Password, Upload(s, u, pw)
        PROVE  FALSE
    BY <1>2 DEF Upload, Begin, VaultInv, TypeOK
  <1>3. ASSUME NEW s \in Thread, NEW u \in User, NEW pw \in Password, NEW f \in FileId,
               Download(s, u, pw, f)
        PROVE  FALSE
    BY <1>3 DEF Download, Begin, VaultInv, TypeOK
  <1>4. ~Crash
    BY DEF Crash
  <1>5. ~Tick /\ (\A u \in User : ~Invalidate(u)) /\ \A f \in FileId : ~Damage(f)
    BY DEF Tick, Invalidate, Damage, requests
  <1>6. vars' # vars
    BY DEF vars, requests
  <1> QED
    BY <1>1, <1>2, <1>3, <1>4, <1>5, <1>6 DEF Next

\* A download succeeds only on a whole file of its user, with the password of
\* the upload the file is from, and the integrity check refuses no such file.
THEOREM VaultReadsOwnUpload == Spec => ReadsOwnUpload
  <1>1. VaultInv /\ [Next]_vars =>
          \A t \in Thread :
            /\ reply'[t] = "200" /\ reply[t] # "200" =>
                  AsUploaded(files[request[t].file], request[t])
            /\ reply'[t] = "422" /\ reply[t] # "422" =>
                  ~AsUploaded(files[request[t].file], request[t])
    <2> SUFFICES ASSUME VaultInv, [Next]_vars, NEW t \in Thread
                 PROVE  /\ reply'[t] = "200" /\ reply[t] # "200" =>
                             AsUploaded(files[request[t].file], request[t])
                        /\ reply'[t] = "422" /\ reply[t] # "422" =>
                             ~AsUploaded(files[request[t].file], request[t])
      OBVIOUS
    <2>1. ASSUME reply'[t] = "200", reply[t] # "200"
          PROVE  AsUploaded(files[request[t].file], request[t])
      <3>1. Decrypt(t)
        BY <2>1, DecryptAnswers
      <3>2. pc[t] = "decrypt" /\ Decrypts(files[request[t].file], key[t])
        BY <2>1, <3>1 DEF Decrypt, Answer, VaultInv, TypeOK
      <3> QED
        BY <3>2, KeysAtDecrypt DEF Decrypts, DeriveKey, AsUploaded
    <2>2. ASSUME reply'[t] = "422", reply[t] # "422"
          PROVE  ~AsUploaded(files[request[t].file], request[t])
      <3>1. Decrypt(t)
        BY <2>2, DecryptAnswers
      <3>2. pc[t] = "decrypt" /\ ~Decrypts(files[request[t].file], key[t])
        BY <2>2, <3>1 DEF Decrypt, Answer, VaultInv, TypeOK
      <3> QED
        BY <3>2, KeysAtDecrypt DEF Decrypts, DeriveKey, AsUploaded
    <2> QED
      BY <2>1, <2>2
  <1> QED
    BY <1>1, VaultInvariant, PTL DEF Spec, ReadsOwnUpload

=============================================================================
