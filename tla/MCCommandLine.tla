--------------------------- MODULE MCCommandLine ---------------------------
(***************************************************************************)
(* The two command-line programs for TLC: two users of the messenger at    *)
(* two terminals; or two invocations of the password manager at a time, by *)
(* one user of one site.  A behaviour runs one of the programs.            *)
(***************************************************************************)
EXTENDS Messenger, TLC

CONSTANTS Process, Owner, Site, Secret, Other, Delay, MaxRows, MaxNow

VARIABLES
    program,  \* the one that runs
    now, rows, clipboard, pc, command, password, clearer, answers

managerVars == <<now, rows, clipboard, pc, command, password, clearer, answers>>

Manager == INSTANCE PasswordManager WITH User <- Owner

\* The text that clears the clipboard is no password to be cleared from it.
ASSUME PasswordManagerAssumption ==
    /\ Delay \in Nat
    /\ Manager!Nobody \notin Process
    /\ "" \notin Secret

CommandLineInit ==
    /\ program \in {"password_manager", "messenger"}
    /\ Manager!Init /\ Init

RunPasswordManager ==
    program = "password_manager" /\ Manager!Next /\ UNCHANGED <<program, vars>>

RunMessenger ==
    program = "messenger" /\ Next /\ UNCHANGED <<program, managerVars>>

CommandLineSpec ==
    CommandLineInit /\ [][RunPasswordManager \/ RunMessenger]_<<program, vars, managerVars>>

MessengerSymmetry == Permutations(User) \cup Permutations(Terminal)

-----------------------------------------------------------------------------

\* See PasswordManager.
SameAnswer == Manager!SameAnswer

\* See PasswordManager.
GoneAfterDelay == Manager!GoneAfterDelay

\* See PasswordManager.
ClearsOnlyOwn == Manager!ClearsOnlyOwn

=============================================================================
