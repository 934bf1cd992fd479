------------------------------- MODULE Startup -------------------------------
(***************************************************************************)
(* How the two services of docker-compose.yml start: the application       *)
(* (app/main.py), which loads or generates its signing keys                *)
(* (app/auth/keys.py), scans the permissions of its secrets                *)
(* (app/security/file_permissions.py) and creates the tables, and the      *)
(* honeypot (app/honeypot/server.py), which creates the same tables in the *)
(* same database file.  Both are restarted when they die, which they may   *)
(* do between any two steps, in the middle of writing a file too.          *)
(***************************************************************************)
EXTENDS Integers, FiniteSets

CONSTANTS
    Table,       \* the tables of app/models.py
    MaxPairs,    \* bound on the key pairs ever generated
    MaxCrashes,  \* bound on the crashes
    MaxLoose     \* bound on how often a secret is left readable by others

ASSUME StartupAssumption ==
    /\ IsFiniteSet(Table)
    /\ MaxCrashes \in Nat
    /\ MaxPairs \in Nat /\ MaxPairs > MaxCrashes
    /\ MaxLoose \in Nat

VARIABLES
    private,  \* the content of jwt_signing_key.pem
    public,   \* the content of jwt_signing_key.pub.pem
    exposed,  \* the secrets that group or others can read or write
    tables,   \* the tables in the database file
    pc,       \* the next step of each service
    pair,     \* the key pair the application generates
    loaded,   \* the keys its jwt_manager holds
    missing,  \* the tables each service has found missing
    signed,   \* the keys that have signed tokens
    crashes,  \* crashes so far
    loosened  \* the secrets exposed since the scan, and how many ever were

keyFiles == <<private, public>>
app == <<pair, loaded>>
vars == <<keyFiles, exposed, tables, pc, app, missing, signed, crashes, loosened>>

Service == {"app", "honeypot"}
Step == {"down", "keys", "open_private", "write_private", "open_public", "write_public",
         "chmod", "scan", "inspect", "create", "serving"}

\* A key file is absent, or created and still empty, or holds a pair's half.
Absent == 0
Empty == -1
Pair == 1..MaxPairs
FileContent == {Absent, Empty} \cup Pair

\* What CRITICAL_PATTERNS finds: the private key and a .env file.
Secret == {"private", "env"}

Init ==
    /\ private = Absent
    /\ public = Absent
    /\ exposed \in SUBSET {"env"}
    /\ tables = {}
    /\ pc = [s \in Service |-> "down"]
    /\ pair = 0
    /\ loaded = [private |-> Absent, public |-> Absent]
    /\ missing = [s \in Service |-> {}]
    /\ signed = {}
    /\ crashes = 0
    /\ loosened = [since |-> {}, times |-> 0]

-----------------------------------------------------------------------------

Goto(s, step) == pc' = [pc EXCEPT ![s] = step]

\* A bug: mkdir without exist_ok fails on the second start.
BugMakeDirectory ==
    /\ pc["app"] = "down"
    /\ Goto("app", IF private = Absent THEN "keys" ELSE "down")
    /\ UNCHANGED <<keyFiles, exposed, tables, app, missing, signed, crashes, loosened>>

\* The container is started: the imports of main.py reach auth/keys.py.
StartApp ==
    /\ pc["app"] = "down"
    /\ Goto("app", "keys")
    /\ UNCHANGED <<keyFiles, exposed, tables, app, missing, signed, crashes, loosened>>

StartHoneypot ==
    /\ pc["honeypot"] = "down"
    /\ Goto("honeypot", "inspect")
    /\ UNCHANGED <<keyFiles, exposed, tables, app, missing, signed, crashes, loosened>>

-----------------------------------------------------------------------------
(* load_or_generate_keys *)

\* Two bugs: a fresh pair on every start; only the file that is missing is
\* generated.
BugAlwaysGenerate ==
    /\ pc["app"] = "keys"
    /\ pair < MaxPairs
    /\ pair' = pair + 1
    /\ Goto("app", "open_private")
    /\ UNCHANGED <<keyFiles, exposed, tables, loaded, missing, signed, crashes, loosened>>
BugFillGap ==
    /\ pc["app"] = "keys"
    /\ \/ /\ private # Absent /\ public # Absent
          /\ loaded' = [private |-> private, public |-> public]
          /\ Goto("app", "scan")
          /\ UNCHANGED pair
       \/ /\ private = Absent \/ public = Absent
          /\ pair < MaxPairs
          /\ pair' = pair + 1
          /\ Goto("app", IF private = Absent THEN "open_private" ELSE "open_public")
          /\ UNCHANGED loaded
    /\ UNCHANGED <<keyFiles, exposed, tables, missing, signed, crashes, loosened>>

\* Both files are there and are read, whatever they hold; or a pair is generated.
CheckKeys ==
    /\ pc["app"] = "keys"
    /\ \/ /\ private # Absent /\ public # Absent
          /\ loaded' = [private |-> private, public |-> public]
          /\ Goto("app", "scan")
          /\ UNCHANGED pair
       \/ /\ private = Absent \/ public = Absent
          /\ pair < MaxPairs
          /\ pair' = pair + 1
          /\ Goto("app", "open_private")
          /\ UNCHANGED loaded
    /\ UNCHANGED <<keyFiles, exposed, tables, missing, signed, crashes, loosened>>

\* write_bytes truncates the file or creates it, readable by all, and then writes.
OpenPrivate ==
    /\ pc["app"] = "open_private"
    /\ private' = Empty
    /\ exposed' = IF private = Absent THEN exposed \cup {"private"} ELSE exposed
    /\ Goto("app", "write_private")
    /\ UNCHANGED <<public, tables, app, missing, signed, crashes, loosened>>

WritePrivate ==
    /\ pc["app"] = "write_private"
    /\ private' = pair
    /\ Goto("app", "open_public")
    /\ UNCHANGED <<public, exposed, tables, app, missing, signed, crashes, loosened>>

OpenPublic ==
    /\ pc["app"] = "open_public"
    /\ public' = Empty
    /\ Goto("app", "write_public")
    /\ UNCHANGED <<private, exposed, tables, app, missing, signed, crashes, loosened>>

WritePublic ==
    /\ pc["app"] = "write_public"
    /\ public' = pair
    /\ Goto("app", "chmod")
    /\ UNCHANGED <<private, exposed, tables, app, missing, signed, crashes, loosened>>

\* The private key is made the owner's only now, and the pair returned.
Chmod ==
    /\ pc["app"] = "chmod"
    /\ exposed' = exposed \ {"private"}
    /\ loaded' = [private |-> pair, public |-> pair]
    /\ Goto("app", "scan")
    /\ UNCHANGED <<keyFiles, tables, pair, missing, signed, crashes, loosened>>

-----------------------------------------------------------------------------
(* enforce_secure_permissions *)

\* scan_for_insecure_permissions; the public key is left out by its name.
InsecureSecrets == exposed

\* The start is aborted or goes on.
ScanPermissions ==
    /\ pc["app"] = "scan"
    /\ Goto("app", IF InsecureSecrets = {} THEN "inspect" ELSE "down")
    /\ loosened' = [loosened EXCEPT !.since = {}]
    /\ UNCHANGED <<keyFiles, exposed, tables, app, missing, signed, crashes>>

-----------------------------------------------------------------------------
(* Base.metadata.create_all *)

\* A bug: the tables are created only if there are none.
BugAllOrNothing(s) ==
    /\ pc[s] = "inspect"
    /\ missing' = [missing EXCEPT ![s] = IF tables = {} THEN Table ELSE {}]
    /\ Goto(s, "create")
    /\ UNCHANGED <<keyFiles, exposed, tables, app, signed, crashes, loosened>>

\* The tables that are not there yet are found first ...
InspectTables(s) ==
    /\ pc[s] = "inspect"
    /\ missing' = [missing EXCEPT ![s] = Table \ tables]
    /\ Goto(s, "create")
    /\ UNCHANGED <<keyFiles, exposed, tables, app, signed, crashes, loosened>>

\* ... and created one by one; one that has come up since makes the start fail.
CreateTable(s) ==
    /\ pc[s] = "create"
    /\ \/ /\ missing[s] = {}
          /\ Goto(s, "serving")
          /\ UNCHANGED <<tables, missing>>
       \/ \E table \in missing[s] \ tables :
             /\ tables' = tables \cup {table}
             /\ missing' = [missing EXCEPT ![s] = @ \ {table}]
             /\ UNCHANGED pc
       \/ /\ missing[s] \cap tables # {}
          /\ Goto(s, "down")
          /\ UNCHANGED <<tables, missing>>
    /\ UNCHANGED <<keyFiles, exposed, app, signed, crashes, loosened>>

-----------------------------------------------------------------------------
(* The running services and their environment *)

\* _create_token signs with the private key, if the file held one.
SignToken ==
    /\ pc["app"] = "serving"
    /\ loaded.private \in Pair
    /\ signed' = signed \cup {loaded.private}
    /\ UNCHANGED <<keyFiles, exposed, tables, pc, app, missing, crashes, loosened>>

Crash(s) ==
    /\ pc[s] # "down"
    /\ crashes < MaxCrashes
    /\ crashes' = crashes + 1
    /\ Goto(s, "down")
    /\ UNCHANGED <<keyFiles, exposed, tables, app, missing, signed, loosened>>

\* A backup is restored or a file is edited with the wrong mode.
Loosen(secret) ==
    /\ loosened.times < MaxLoose
    /\ secret = "private" => private # Absent
    /\ exposed' = exposed \cup {secret}
    /\ loosened' = [since |-> loosened.since \cup {secret}, times |-> loosened.times + 1]
    /\ UNCHANGED <<keyFiles, tables, pc, app, missing, signed, crashes>>

\* "Fix with: chmod 600 <file>", once the application does not run.
FixPermissions ==
    /\ pc["app"] = "down"
    /\ exposed # {}
    /\ exposed' = {}
    /\ UNCHANGED <<keyFiles, tables, pc, app, missing, signed, crashes, loosened>>

LoadKeys ==
    CheckKeys \/ OpenPrivate \/ WritePrivate \/ OpenPublic \/ WritePublic \/ Chmod

RunApp == StartApp \/ LoadKeys \/ ScanPermissions \/ InspectTables("app") \/ CreateTable("app")
RunHoneypot == StartHoneypot \/ InspectTables("honeypot") \/ CreateTable("honeypot")

Next ==
    \/ RunApp
    \/ RunHoneypot
    \/ SignToken
    \/ \E s \in Service : Crash(s)
    \/ \E secret \in Secret : Loosen(secret)
    \/ FixPermissions

Spec == Init /\ [][Next]_vars

\* docker restarts a service that has ended (restart: unless-stopped), what
\* has started goes on, and an operator acts on the message of an aborted start.
FairSpec ==
    Spec /\ WF_vars(RunApp) /\ WF_vars(RunHoneypot) /\ SF_vars(FixPermissions)

-----------------------------------------------------------------------------

TypeOK ==
    /\ private \in FileContent
    /\ public \in FileContent
    /\ exposed \subseteq Secret
    /\ tables \subseteq Table
    /\ pc \in [Service -> Step]
    /\ pair \in 0..MaxPairs
    /\ loaded \in [private : FileContent, public : FileContent]
    /\ missing \in [Service -> SUBSET Table]
    /\ signed \subseteq Pair
    /\ crashes \in 0..MaxCrashes
    /\ loosened \in [since : SUBSET Secret, times : 0..MaxLoose]

(* "every subsequent run reuses the same keys" (keys.py): whatever was cut *)
(* short before, from the first signed token on no start writes the key    *)
(* files again.                                                            *)
KeysOutliveRestarts ==
    [][signed # {} => UNCHANGED keyFiles]_vars

(* A crash between the two files never leaves halves of different pairs    *)
(* that a later start would take for one: the public key the application   *)
(* holds is the one of its private key, or no key at all.                  *)
PairsNeverMix ==
    pc["app"] \in {"scan", "inspect", "create", "serving"} =>
        loaded.public \in {loaded.private, Empty}

(* A service answers requests with all its tables, whichever of the two    *)
(* created them and however often either died on the way; and "if a secret *)
(* is exposed, we want the app to refuse to start" (main.py): only what    *)
(* was loosened after its scan is readable by others, never the private    *)
(* key that its own start has generated.                                   *)
ServesReady ==
    /\ \A s \in Service : pc[s] = "serving" => tables = Table
    /\ pc["app"] = "serving" => exposed \subseteq loosened.since

(* However the starts were cut short or ran into each other's tables, both *)
(* services come up and stay up once crashes and new mistakes end.         *)
BothComeUp ==
    <>[](\A s \in Service : pc[s] = "serving")

(* "tokens signed before a restart must still verify after one" (keys.py): *)
(* what the application ever signed verifies with the public key it holds  *)
(* whenever it serves.                                                     *)
TokensSurviveRestart ==
    pc["app"] = "serving" => \A k \in signed : loaded.public = k

=============================================================================
