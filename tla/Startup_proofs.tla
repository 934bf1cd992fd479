---------------------------- MODULE Startup_proofs ----------------------------
(***************************************************************************)
(* The key files are written in one order and never again once both exist, *)
(* so no crash leaves halves of two pairs; and what a service has seen of  *)
(* tables and permissions before it serves still holds when it does.       *)
(***************************************************************************)
EXTENDS Startup, TLAPS

Loaded == {"scan", "inspect", "create", "serving"}

\* Where the writing of the key files stands: the public one comes last.
FilesInOrder ==
    /\ public # Absent => private \in Pair /\ public \in {private, Empty}
    /\ pc["app"] \in {"open_private", "write_private", "open_public"} => public = Absent
    /\ pc["app"] \in {"open_private", "write_private", "open_public", "write_public", "chmod"} =>
          pair \in Pair
    /\ pc["app"] \in {"open_public", "write_public", "chmod"} => private = pair
    /\ pc["app"] = "write_public" => public = Empty
    /\ pc["app"] = "chmod" => public = pair
    /\ pc["app"] \in Loaded =>
          public # Absent /\ loaded = [private |-> private, public |-> public]

\* Nothing is signed before both files are there.
SignedLate ==
    /\ signed # {} => public # Absent
    /\ pc["app"] \in {"open_private", "write_private", "open_public", "write_public"} => signed = {}

\* What is not in the database is on the list of a service that creates it.
TablesListed ==
    \A s \in Service :
        /\ pc[s] = "create" => Table \ tables \subseteq missing[s]
        /\ pc[s] = "serving" => tables = Table

\* What was exposed when the application looked kept it from going on.
ExposedSince ==
    pc["app"] \in {"inspect", "create", "serving"} => exposed \subseteq loosened.since

IInv == TypeOK /\ FilesInOrder /\ SignedLate /\ TablesListed /\ ExposedSince

-----------------------------------------------------------------------------

LEMMA InitIInv == Init => IInv
BY StartupAssumption
   DEF Init, IInv, TypeOK, FilesInOrder, SignedLate, TablesListed, ExposedSince,
       Service, Step, Absent, FileContent, Pair, Secret, Loaded

LEMMA NextTypeOK == TypeOK /\ [Next]_vars => TypeOK'
<1>. SUFFICES ASSUME TypeOK, [Next]_vars PROVE TypeOK'
  OBVIOUS
<1>. USE StartupAssumption
     DEF TypeOK, Goto, keyFiles, app, Service, Step, Absent, Empty, FileContent, Pair, Secret
<1>1. CASE StartApp \/ StartHoneypot
  BY <1>1 DEF StartApp, StartHoneypot
<1>2. CASE CheckKeys
  BY <1>2 DEF CheckKeys
<1>3. CASE OpenPrivate \/ OpenPublic
  BY <1>3 DEF OpenPrivate, OpenPublic
<1>4. CASE WritePrivate \/ WritePublic
  <2>1. pair \in FileContent
    OBVIOUS
  <2>2. CASE WritePrivate
    BY <2>1, <2>2 DEF WritePrivate
  <2>3. CASE WritePublic
    BY <2>1, <2>3 DEF WritePublic
  <2>. QED BY <1>4, <2>2, <2>3
<1>5. CASE Chmod
  BY <1>5 DEF Chmod
<1>6. CASE ScanPermissions
  BY <1>6 DEF ScanPermissions
<1>7. ASSUME NEW s \in Service, InspectTables(s) PROVE TypeOK'
  BY <1>7 DEF InspectTables
<1>8. ASSUME NEW s \in Service, CreateTable(s) PROVE TypeOK'
  BY <1>8 DEF CreateTable
<1>9. CASE SignToken
  BY <1>9 DEF SignToken
<1>10. ASSUME NEW s \in Service, Crash(s) PROVE TypeOK'
  BY <1>10 DEF Crash
<1>11. ASSUME NEW secret \in Secret, Loosen(secret) PROVE TypeOK'
  BY <1>11 DEF Loosen
<1>12. CASE FixPermissions
  BY <1>12 DEF FixPermissions
<1>13. CASE UNCHANGED vars
  BY <1>13 DEF vars
<1>. QED BY <1>1, <1>2, <1>3, <1>4, <1>5, <1>6, <1>7, <1>8, <1>9, <1>10, <1>11, <1>12, <1>13
     DEF Next, RunApp, RunHoneypot, LoadKeys

LEMMA NextFilesInOrder == IInv /\ [Next]_vars => FilesInOrder' /\ SignedLate'
<1>. SUFFICES ASSUME IInv, [Next]_vars PROVE FilesInOrder' /\ SignedLate'
  OBVIOUS
<1>. USE StartupAssumption
     DEF IInv, TypeOK, FilesInOrder, SignedLate, Goto, keyFiles, app, Service, Loaded,
         Absent, Empty, Pair
<1>1. CASE StartApp
  BY <1>1 DEF StartApp
<1>2. CASE CheckKeys
  BY <1>2 DEF CheckKeys, FileContent
<1>3. CASE OpenPrivate
  BY <1>3 DEF OpenPrivate
<1>4. CASE WritePrivate
  BY <1>4 DEF WritePrivate
<1>5. CASE OpenPublic
  BY <1>5 DEF OpenPublic
<1>6. CASE WritePublic
  BY <1>6 DEF WritePublic
<1>7. CASE Chmod
  BY <1>7 DEF Chmod
<1>8. CASE ScanPermissions
  BY <1>8 DEF ScanPermissions
<1>9. ASSUME NEW s \in Service, InspectTables(s) \/ CreateTable(s) \/ Crash(s)
      PROVE  FilesInOrder' /\ SignedLate'
  BY <1>9 DEF InspectTables, CreateTable, Crash
<1>10. CASE StartHoneypot
  BY <1>10 DEF StartHoneypot
<1>11. CASE SignToken
  BY <1>11 DEF SignToken
<1>12. ASSUME NEW secret \in Secret, Loosen(secret) PROVE FilesInOrder' /\ SignedLate'
  BY <1>12 DEF Loosen
<1>13. CASE FixPermissions
  BY <1>13 DEF FixPermissions
<1>14. CASE UNCHANGED vars
  BY <1>14 DEF vars
<1>. QED BY <1>1, <1>2, <1>3, <1>4, <1>5, <1>6, <1>7, <1>8, <1>9, <1>10, <1>11, <1>12, <1>13, <1>14
     DEF Next, RunApp, RunHoneypot, LoadKeys

LEMMA NextTablesListed == IInv /\ [Next]_vars => TablesListed'
<1>. SUFFICES ASSUME IInv, [Next]_vars PROVE TablesListed'
  OBVIOUS
<1>. USE DEF IInv, TypeOK, TablesListed, Goto, Service
<1>1. CASE StartApp \/ StartHoneypot
  BY <1>1 DEF StartApp, StartHoneypot
<1>2. CASE CheckKeys \/ OpenPrivate \/ WritePrivate \/ OpenPublic \/ WritePublic \/ Chmod
  BY <1>2 DEF CheckKeys, OpenPrivate, WritePrivate, OpenPublic, WritePublic, Chmod
<1>3. CASE ScanPermissions
  BY <1>3 DEF ScanPermissions
<1>4. ASSUME NEW s \in Service, InspectTables(s) PROVE TablesListed'
  BY <1>4 DEF InspectTables
<1>5. ASSUME NEW s \in Service, CreateTable(s) PROVE TablesListed'
  <2>1. CASE missing[s] = {} /\ Goto(s, "serving") /\ UNCHANGED <<tables, missing>>
    BY <1>5, <2>1 DEF CreateTable
  <2>2. ASSUME NEW table \in missing[s] \ tables,
               tables' = tables \cup {table},
               missing' = [missing EXCEPT ![s] = @ \ {table}], UNCHANGED pc
        PROVE  TablesListed'
    BY <1>5, <2>2 DEF CreateTable
  <2>3. CASE Goto(s, "down") /\ UNCHANGED <<tables, missing>>
    BY <1>5, <2>3 DEF CreateTable
  <2>. QED BY <1>5, <2>1, <2>2, <2>3 DEF CreateTable
<1>6. ASSUME NEW s \in Service, Crash(s) PROVE TablesListed'
  BY <1>6 DEF Crash
<1>7. CASE SignToken \/ FixPermissions \/ UNCHANGED vars
  BY <1>7 DEF SignToken, FixPermissions, vars
<1>8. ASSUME NEW secret \in Secret, Loosen(secret) PROVE TablesListed'
  BY <1>8 DEF Loosen
<1>. QED BY <1>1, <1>2, <1>3, <1>4, <1>5, <1>6, <1>7, <1>8 DEF Next, RunApp, RunHoneypot, LoadKeys

LEMMA NextExposedSince == IInv /\ [Next]_vars => ExposedSince'
<1>. SUFFICES ASSUME IInv, [Next]_vars PROVE ExposedSince'
  OBVIOUS
<1>. USE DEF IInv, TypeOK, ExposedSince, Goto, Service
<1>1. CASE StartApp \/ StartHoneypot
  BY <1>1 DEF StartApp, StartHoneypot
<1>2. CASE CheckKeys \/ OpenPrivate \/ WritePrivate \/ OpenPublic \/ WritePublic \/ Chmod
  BY <1>2 DEF CheckKeys, OpenPrivate, WritePrivate, OpenPublic, WritePublic, Chmod
<1>3. CASE ScanPermissions
  BY <1>3 DEF ScanPermissions, InsecureSecrets
<1>4. ASSUME NEW s \in Service, InspectTables(s) \/ CreateTable(s) \/ Crash(s)
      PROVE  ExposedSince'
  BY <1>4 DEF InspectTables, CreateTable, Crash
<1>5. CASE SignToken \/ FixPermissions \/ UNCHANGED vars
  BY <1>5 DEF SignToken, FixPermissions, vars
<1>6. ASSUME NEW secret \in Secret, Loosen(secret) PROVE ExposedSince'
  BY <1>6 DEF Loosen
<1>. QED BY <1>1, <1>2, <1>3, <1>4, <1>5, <1>6 DEF Next, RunApp, RunHoneypot, LoadKeys

LEMMA NextIInv == IInv /\ [Next]_vars => IInv'
BY NextTypeOK, NextFilesInOrder, NextTablesListed, NextExposedSince DEF IInv

-----------------------------------------------------------------------------

(* Every variable of the two starts keeps its type.                        *)
THEOREM StartupTyping == Spec => []TypeOK
<1>1. IInv => TypeOK
  BY DEF IInv
<1>. QED BY <1>1, InitIInv, NextIInv, PTL DEF Spec

(* For any number of pairs and crashes: the public key an application      *)
(* holds is the one of its private key, or what a crash left empty.        *)
THEOREM StartupPairsNeverMix == Spec => []PairsNeverMix
<1>1. IInv => PairsNeverMix
  BY DEF IInv, FilesInOrder, PairsNeverMix, Loaded
<1>. QED BY <1>1, InitIInv, NextIInv, PTL DEF Spec

(* For any tables and any number of crashes: a service that answers has    *)
(* all tables, and no secret that its scan could have seen is exposed.     *)
THEOREM StartupServesReady == Spec => []ServesReady
<1>1. IInv => ServesReady
  BY DEF IInv, TablesListed, ExposedSince, ServesReady
<1>. QED BY <1>1, InitIInv, NextIInv, PTL DEF Spec

(* Once a token is signed no start writes the key files again, however     *)
(* many there are.                                                         *)
THEOREM StartupKeysOutliveRestarts == Spec => KeysOutliveRestarts
<1>1. IInv /\ [Next]_vars => [signed # {} => UNCHANGED keyFiles]_vars
  <2>. SUFFICES ASSUME IInv, Next, signed # {} PROVE UNCHANGED keyFiles
    OBVIOUS
  <2>. USE DEF IInv, FilesInOrder, SignedLate, Absent, Empty, Pair
  <2>1. CASE LoadKeys
    BY <2>1, StartupAssumption
       DEF LoadKeys, CheckKeys, OpenPrivate, WritePrivate, OpenPublic, WritePublic, Chmod, keyFiles
  <2>2. CASE ~LoadKeys
    BY <2>2 DEF Next, RunApp, RunHoneypot, StartApp, StartHoneypot, ScanPermissions, InspectTables,
                CreateTable, SignToken, Crash, Loosen, FixPermissions, keyFiles
  <2>. QED BY <2>1, <2>2
<1>. QED BY <1>1, InitIInv, NextIInv, PTL DEF Spec, KeysOutliveRestarts

=============================================================================
