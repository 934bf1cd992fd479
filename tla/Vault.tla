-------------------------------- MODULE Vault --------------------------------
(***************************************************************************)
(* The encrypted vault: the upload and download routes of                  *)
(* app/vault/routes.py, the key cache they share, the encrypted files and  *)
(* the rows that name them.  A request derives its key or takes it from    *)
(* the cache; an upload writes the file and then commits the row; a        *)
(* download finds the row, reads the file and decrypts it.  Downloads run  *)
(* on threads.  Uploads are coroutines of one event loop, and one gives    *)
(* way to another only while it waits for the body of its request.  The    *)
(* process can die between any two steps, and a stored file can be         *)
(* damaged, cut short or deleted behind its back.                          *)
(***************************************************************************)
EXTENDS Integers, FiniteSets

CONSTANTS
    User,
    Password,   \* vault passwords, right and wrong ones
    Thread,     \* requests in flight
    KeyTTL,     \* DEFAULT_CACHE_TTL_SECONDS
    MaxFiles,   \* bound on the files ever written
    MaxDamaged, \* bound on the files that are damaged
    MaxNow      \* bound on the clock

ASSUME VaultAssumption ==
    /\ KeyTTL \in Nat \ {0}
    /\ MaxFiles \in Nat
    /\ MaxDamaged \in Nat
    /\ MaxNow \in Nat

VARIABLES
    now,       \* time.monotonic()
    cache,     \* KeyCache._store, with the time each key was put there
    files,     \* encrypted_storage: what is on the disk under each file name
    entries,   \* table vault_entries: the owner of the row that names a file
    pc,        \* the next step of each request
    request,   \* what each request asks
    key,       \* the key its VaultEngine holds
    reply      \* the answer to each thread's last request

disk == <<files, entries>>
requests == <<pc, request, key, reply>>
vars == <<now, cache, disk, requests>>

Step == {"idle", "lookup", "derive", "write", "append", "commit", "query", "decrypt"}
FileId == 1..MaxFiles
NoFile == 0
NoRow == <<>>

\* derive_key: the same password and salt give the same key, others another.
\* The salt is cut from the user's password hash and stands for the user.
DeriveKey(u, pw) == <<u, pw>>

Key == {DeriveKey(u, pw) : u \in User, pw \in Password}
NoKey == <<>>

\* A bug this code once had: the cache is keyed by the user alone.
BugSlotOfUser(u, pw) == <<u>>

\* The key of the cache's dictionary: user_id and _fingerprint(password, salt).
CacheSlot(u, pw) == <<u, pw>>

\* A file as the disk has it; owner and password name the upload it is from.
NoContent == [state |-> "absent"]
\* "lost": deleted, or cut to less than a nonce.
Content == [state : {"partial", "whole", "damaged", "lost"}, key : Key,
            owner : User, password : Password]

Request == [op : {"upload", "download"}, user : User, password : Password,
            file : FileId \cup {NoFile}]
NoRequest == [op |-> "none"]

Reply == {"none", "201", "200", "404", "422", "500"}

Init ==
    /\ now = 0
    /\ cache = {}
    /\ files = [f \in FileId |-> NoContent]
    /\ entries = [f \in FileId |-> NoRow]
    /\ pc = [t \in Thread |-> "idle"]
    /\ request = [t \in Thread |-> NoRequest]
    /\ key = [t \in Thread |-> NoKey]
    /\ reply = [t \in Thread |-> "none"]

-----------------------------------------------------------------------------
(* Starting a request; get_current_user has accepted its token. *)

Begin(t, op, u, pw, f) ==
    /\ pc[t] = "idle"
    /\ request' = [request EXCEPT ![t] = [op |-> op, user |-> u, password |-> pw, file |-> f]]
    /\ pc' = [pc EXCEPT ![t] = "lookup"]
    /\ reply' = [reply EXCEPT ![t] = "none"]
    /\ UNCHANGED <<now, cache, disk, key>>

\* Uploads that have not created their file yet.
Pending ==
    {t \in Thread : pc[t] # "idle" /\ request[t].op = "upload" /\ request[t].file = NoFile}

\* Among the names left there is one for every upload under way.
Upload(t, u, pw) ==
    /\ Cardinality({f \in FileId : files[f] = NoContent}) > Cardinality(Pending)
    /\ Begin(t, "upload", u, pw, NoFile)

\* Any user may ask for any row.
Download(t, u, pw, f) == Begin(t, "download", u, pw, f)

\* The request ends with this status.
Answer(t, status) ==
    /\ pc' = [pc EXCEPT ![t] = "idle"]
    /\ request' = [request EXCEPT ![t] = NoRequest]
    /\ key' = [key EXCEPT ![t] = NoKey]
    /\ reply' = [reply EXCEPT ![t] = status]

-----------------------------------------------------------------------------
(* The event loop, and KeyCache *)

\* An upload keeps the event loop from its first statement to `await
\* file.read()`, and from there to its answer.
LoopFree ==
    \A s \in Thread :
        request[s] # NoRequest /\ request[s].op = "upload" =>
            pc[s] \notin {"derive", "append", "commit"}

\* What _get_engine_for_current_user leads to.
AfterKey(t) == IF request[t].op = "upload" THEN "write" ELSE "query"

\* A cached key may be used until its time is up.
Usable(c) == now < c.expires

\* get_or_derive looks the key up; an entry whose time is up stays where it is.
LookupKey(t) ==
    LET hits == {c \in cache : /\ c.slot = CacheSlot(request[t].user, request[t].password)
                               /\ Usable(c)}
    IN  /\ pc[t] = "lookup"
        /\ request[t].op = "upload" => LoopFree
        /\ \/ /\ hits = {}
              /\ pc' = [pc EXCEPT ![t] = "derive"]
              /\ UNCHANGED key
           \/ \E c \in hits :
                /\ key' = [key EXCEPT ![t] = c.key]
                /\ pc' = [pc EXCEPT ![t] = AfterKey(t)]
        /\ UNCHANGED <<now, cache, disk, request, reply>>

\* The slow derivation, and the entry that replaces the old one of its slot.
DeriveAndStore(t) ==
    LET u == request[t].user
        pw == request[t].password
    IN  /\ pc[t] = "derive"
        /\ key' = [key EXCEPT ![t] = DeriveKey(u, pw)]
        /\ cache' = {c \in cache : c.slot # CacheSlot(u, pw)}
                      \cup {[slot |-> CacheSlot(u, pw), key |-> DeriveKey(u, pw),
                             expires |-> now + KeyTTL]}
        /\ pc' = [pc EXCEPT ![t] = AfterKey(t)]
        /\ UNCHANGED <<now, disk, request, reply>>

\* invalidate: no route calls it.
Invalidate(u) ==
    /\ cache' = {c \in cache : c.slot[1] # u}
    /\ UNCHANGED <<now, disk, requests>>

-----------------------------------------------------------------------------
(* upload_file *)

\* os.urandom(8) is taken to repeat no name that was ever given: the code
\* opens the file with "wb" and does not look.  Which new name it is makes no
\* difference; here each is the next number.
FreshName(f) == files[f] = NoContent /\ \A g \in 1..(f - 1) : files[g] # NoContent

\* A bug: the row is committed before the ciphertext is written.
BugCommitEarly(t) ==
    /\ pc[t] = "write"
    /\ LoopFree
    /\ \E f \in FileId :
         /\ FreshName(f)
         /\ files' = [files EXCEPT ![f] =
                        [state |-> "partial", key |-> key[t],
                         owner |-> request[t].user, password |-> request[t].password]]
         /\ request' = [request EXCEPT ![t].file = f]
    /\ pc' = [pc EXCEPT ![t] = "commit"]
    /\ UNCHANGED <<now, cache, entries, key, reply>>

\* The body has been read: the file is created, and the IV written to it.
WriteIV(t) ==
    /\ pc[t] = "write"
    /\ LoopFree
    /\ \E f \in FileId :
         /\ FreshName(f)
         /\ files' = [files EXCEPT ![f] =
                        [state |-> "partial", key |-> key[t],
                         owner |-> request[t].user, password |-> request[t].password]]
         /\ request' = [request EXCEPT ![t].file = f]
    /\ pc' = [pc EXCEPT ![t] = "append"]
    /\ UNCHANGED <<now, cache, entries, key, reply>>

\* The ciphertext follows, and the file is closed; or the disk is full, and
\* what was written stays behind.
WriteCiphertext(t) ==
    /\ pc[t] = "append"
    /\ \/ /\ files' = [files EXCEPT ![request[t].file].state = "whole"]
          /\ pc' = [pc EXCEPT ![t] = "commit"]
          /\ UNCHANGED <<request, key, reply>>
       \/ /\ Answer(t, "500")
          /\ UNCHANGED files
    /\ UNCHANGED <<now, cache, entries>>

\* The row is committed, or the database raises and the file stays behind.
\* It may also raise after the commit, when the row is read back.
CommitEntry(t) ==
    /\ pc[t] = "commit"
    /\ \/ /\ entries' = [entries EXCEPT ![request[t].file] = <<request[t].user>>]
          /\ \E status \in {"201", "500"} : Answer(t, status)
       \/ /\ UNCHANGED entries
          /\ Answer(t, "500")
    /\ UNCHANGED <<now, cache, files>>

-----------------------------------------------------------------------------
(* download_file *)

\* The row with this id and this owner.
FindEntry(t) ==
    /\ pc[t] = "query"
    /\ \/ /\ entries[request[t].file] = <<request[t].user>>
          /\ pc' = [pc EXCEPT ![t] = "decrypt"]
          /\ UNCHANGED <<request, key, reply>>
       \/ /\ entries[request[t].file] # <<request[t].user>>
          /\ Answer(t, "404")
    /\ UNCHANGED <<now, cache, disk>>

\* A bug: damage goes unnoticed.
BugNoIntegrity(file, k) == file.state # "absent" /\ file.key = k

\* AES-GCM gives the plaintext back only if every bit and the key are right.
Decrypts(file, k) == file.state = "whole" /\ file.key = k

\* The file is read and decrypted, or fails its integrity check.  open()
\* raises when it is gone, and AESGCM when its nonce is too short.
Decrypt(t) ==
    /\ pc[t] = "decrypt"
    /\ LET file == files[request[t].file] IN
         \/ file.state = "lost" /\ Answer(t, "500")
         \/ file.state # "lost" /\ Decrypts(file, key[t]) /\ Answer(t, "200")
         \/ file.state # "lost" /\ ~Decrypts(file, key[t]) /\ Answer(t, "422")
    /\ UNCHANGED <<now, cache, disk>>

-----------------------------------------------------------------------------
(* The environment *)

\* A stored file is damaged on the disk, cut short or deleted.
Damage(f) ==
    /\ files[f] # NoContent
    /\ files[f].state = "whole"
    /\ Cardinality({g \in FileId : files[g].state \in {"damaged", "lost"}}) < MaxDamaged
    /\ \E st \in {"damaged", "lost"} : files' = [files EXCEPT ![f].state = st]
    /\ UNCHANGED <<now, cache, entries, requests>>

\* The process dies and starts again: the memory is gone, the disk is not.
Crash ==
    /\ cache' = {}
    /\ pc' = [t \in Thread |-> "idle"]
    /\ request' = [t \in Thread |-> NoRequest]
    /\ key' = [t \in Thread |-> NoKey]
    /\ reply' = [t \in Thread |-> "none"]
    /\ UNCHANGED <<now, disk>>

Tick ==
    /\ now < MaxNow
    /\ now' = now + 1
    /\ UNCHANGED <<cache, disk, requests>>

Serve(t) ==
    \/ LookupKey(t) \/ DeriveAndStore(t)
    \/ WriteIV(t) \/ WriteCiphertext(t) \/ CommitEntry(t)
    \/ FindEntry(t) \/ Decrypt(t)

Next ==
    \/ \E t \in Thread, u \in User, pw \in Password : Upload(t, u, pw)
    \/ \E t \in Thread, u \in User, pw \in Password, f \in FileId : Download(t, u, pw, f)
    \/ \E t \in Thread : Serve(t)
    \/ \E u \in User : Invalidate(u)
    \/ \E f \in FileId : Damage(f)
    \/ Crash
    \/ Tick

Spec == Init /\ [][Next]_vars

-----------------------------------------------------------------------------

Cached == [slot : {CacheSlot(u, pw) : u \in User, pw \in Password}, key : Key, expires : Nat]

TypeOK ==
    /\ now \in Nat
    /\ cache \subseteq Cached
    /\ files \in [FileId -> Content \cup {NoContent}]
    /\ entries \in [FileId -> {<<u>> : u \in User} \cup {NoRow}]
    /\ pc \in [Thread -> Step]
    /\ request \in [Thread -> Request \cup {NoRequest}]
    /\ key \in [Thread -> Key \cup {NoKey}]
    /\ reply \in [Thread -> Reply]
    /\ \A t \in Thread : request[t] = NoRequest <=> pc[t] = "idle"

(* "A wrong vault password can never receive a previously-cached correct   *)
(* key, even within the cache's TTL window" (SECURITY.md): the key a       *)
(* request works with is the one its own user and password derive, however *)
(* it came by it and whoever filled the cache in between.                  *)
KeyIsOwn ==
    \A t \in Thread :
        key[t] # NoKey => key[t] = DeriveKey(request[t].user, request[t].password)

(* A download succeeds only on a file that its own user uploaded with the  *)
(* very password it gives now, and that is as it was written; and the      *)
(* integrity check refuses no such file, whatever the cache held, expired  *)
(* or forgot between the upload and now.                                   *)
AsUploaded(file, r) ==
    file.owner = r.user /\ file.password = r.password /\ file.state = "whole"

ReadsOwnUpload ==
    [][\A t \in Thread :
          /\ reply'[t] = "200" /\ reply[t] # "200" =>
                AsUploaded(files[request[t].file], request[t])
          /\ reply'[t] = "422" /\ reply[t] # "422" =>
                ~AsUploaded(files[request[t].file], request[t])]_vars

(* A row never names a file that its upload did not write to the end, or   *)
(* another user's, wherever an upload was cut short; what a crash, a full  *)
(* disk or a failing commit leaves is a file without a row.                *)
EntryHasFile ==
    \A f \in FileId :
        entries[f] # NoRow =>
            /\ files[f] # NoContent
            /\ files[f].state # "partial"
            /\ entries[f] = <<files[f].owner>>

(* "short-lived enough that a key doesn't sit in memory indefinitely if    *)
(* the process is compromised or the session goes idle" (key_cache.py): in *)
(* a process that serves no request a key is gone at the latest one more   *)
(* KeyTTL after its time was up.  This does NOT hold, and no run checks    *)
(* it: an expired key is not returned, but nothing evicts it.              *)
KeyLeavesMemory ==
    \A c \in cache :
        (\A t \in Thread : pc[t] = "idle") => now < c.expires + KeyTTL

=============================================================================
