--------------------------- MODULE PasswordManager ---------------------------
(***************************************************************************)
(* The command-line password manager (app/cli/password_manager.py).  Each  *)
(* invocation is a process of its own: it authenticates, adds or gets a    *)
(* credential, copies the password to the clipboard, which all processes   *)
(* and the user share, leaves a daemon thread behind to clear it, and      *)
(* exits; the thread goes with its process.                                *)
(***************************************************************************)
EXTENDS Integers, Sequences, FiniteSets

CONSTANTS
    Process,   \* invocations at the same time
    User,
    Site,
    Secret,    \* site passwords
    Other,     \* what else the user may copy
    Delay,     \* CLIPBOARD_CLEAR_DELAY_SECONDS
    MaxRows,   \* bound on the credentials stored
    MaxNow     \* bound on the clock

VARIABLES
    now,
    rows,       \* table site_credentials in the order of its ids
    clipboard,  \* its text, the running process that put it there, and when
    pc,         \* the next step of each process
    command,    \* what it was started for
    password,   \* the site password it works with
    clearer,    \* its daemon thread
    answers     \* the passwords that get has given for a user and a site

processes == <<pc, command, password, clearer>>
vars == <<now, rows, clipboard, processes, answers>>

Step == {"off", "authenticate", "store", "find", "copy", "done"}
Nobody == "nobody"

Row == [owner : User, site : Site, password : Secret, whole : BOOLEAN]
Command == [op : {"add", "generate_and_add", "get", "list"}, user : User, site : Site,
            authentic : BOOLEAN, password : Secret]
NoCommand == [op |-> "none"]
NoPassword == "none"
NoThread == [step |-> "none"]
FailedThread == [step |-> "failed"]  \* the clipboard raised: logged, and not tried again

Init ==
    /\ now = 0
    /\ rows = <<>>
    /\ clipboard = [text |-> "", by |-> Nobody, at |-> 0]
    /\ pc = [p \in Process |-> "off"]
    /\ command = [p \in Process |-> NoCommand]
    /\ password = [p \in Process |-> NoPassword]
    /\ clearer = [p \in Process |-> NoThread]
    /\ answers = [k \in User \X Site |-> {}]

Goto(p, step) == pc' = [pc EXCEPT ![p] = step]

-----------------------------------------------------------------------------
(* main *)

\* Somebody types a command, a user name and a master password; the site
\* password of an add is typed or generated.  (No command starts so late that
\* its delay would end after MaxNow.)
Run(p, c) ==
    /\ pc[p] = "off"
    /\ now + Delay <= MaxNow
    /\ c.op \in {"add", "generate_and_add"} => Len(rows) < MaxRows
    /\ Goto(p, "authenticate")
    /\ command' = [command EXCEPT ![p] = c]
    /\ UNCHANGED <<now, rows, clipboard, password, clearer, answers>>

\* verify_password fails, or the key is derived; list only prints.
Authenticate(p) ==
    /\ pc[p] = "authenticate"
    /\ LET c == command[p]
       IN  Goto(p, IF ~c.authentic \/ c.op = "list" THEN "done"
                   ELSE IF c.op = "get" THEN "find" ELSE "store")
    /\ UNCHANGED <<now, rows, clipboard, command, password, clearer, answers>>

\* add_credential: a new row, though the site may have one; or the commit raises.
AddCredential(p) ==
    /\ pc[p] = "store"
    /\ LET c == command[p]
       IN  \/ /\ Len(rows) < MaxRows
              /\ rows' = Append(rows, [owner |-> c.user, site |-> c.site,
                                       password |-> c.password, whole |-> TRUE])
              /\ password' = [password EXCEPT ![p] = c.password]
              /\ Goto(p, IF c.op = "generate_and_add" THEN "copy" ELSE "done")
           \/ /\ Goto(p, "done")
              /\ UNCHANGED <<rows, password>>
    /\ UNCHANGED <<now, clipboard, command, clearer, answers>>

\* A bug: the newest row of the site is taken.
BugNewest(found) == CHOOSE i \in found : \A j \in found : j <= i

\* first() orders by nothing: SQLite then gives the rows by rowid, here the id.
First(found) == CHOOSE i \in found : \A j \in found : i <= j

\* get_credential: the first row of this owner and site; nothing if there is
\* none, and an error if it does not decrypt.
GetCredential(p) ==
    /\ pc[p] = "find"
    /\ LET c == command[p]
           found == {i \in DOMAIN rows : rows[i].owner = c.user /\ rows[i].site = c.site}
       IN  \/ /\ found # {} /\ rows[First(found)].whole
              /\ password' = [password EXCEPT ![p] = rows[First(found)].password]
              /\ answers' = [answers EXCEPT ![<<c.user, c.site>>] =
                               @ \cup {rows[First(found)].password}]
              /\ Goto(p, "copy")
           \/ /\ found # {} => ~rows[First(found)].whole
              /\ Goto(p, "done")
              /\ UNCHANGED <<password, answers>>
    /\ UNCHANGED <<now, rows, clipboard, command, clearer>>

\* A bug: only generated passwords are cleared, and get forgets to.
BugNoThread(p) ==
    /\ pc[p] = "copy"
    /\ clipboard' = [text |-> password[p], by |-> p, at |-> now]
    /\ clearer' = IF command[p].op = "get" THEN clearer
                  ELSE [clearer EXCEPT ![p] =
                          [step |-> "sleep", text |-> password[p], due |-> now + Delay]]
    /\ Goto(p, "done")
    /\ UNCHANGED <<now, rows, command, password, answers>>

\* _copy_to_clipboard_with_auto_clear; without a clipboard the password is printed.
CopyToClipboard(p) ==
    /\ pc[p] = "copy"
    /\ \/ /\ clipboard' = [text |-> password[p], by |-> p, at |-> now]
          /\ clearer' = [clearer EXCEPT ![p] =
                           [step |-> "sleep", text |-> password[p], due |-> now + Delay]]
       \/ UNCHANGED <<clipboard, clearer>>
    /\ Goto(p, "done")
    /\ UNCHANGED <<now, rows, command, password, answers>>

\* main has returned and the interpreter ends, and with it the daemon thread.
Exit(p) ==
    /\ pc[p] = "done"
    /\ Goto(p, "off")
    /\ command' = [command EXCEPT ![p] = NoCommand]
    /\ password' = [password EXCEPT ![p] = NoPassword]
    /\ clearer' = [clearer EXCEPT ![p] = NoThread]
    /\ clipboard' = IF clipboard.by = p THEN [clipboard EXCEPT !.by = Nobody] ELSE clipboard
    /\ UNCHANGED <<now, rows, answers>>

-----------------------------------------------------------------------------
(* clear_after_delay *)

EndThread(p) == clearer' = [clearer EXCEPT ![p] = NoThread]

\* A call to the clipboard raises: the thread logs it and ends.
FailThread(p) == clearer' = [clearer EXCEPT ![p] = FailedThread]

\* A bug: the clipboard is cleared whatever it holds.
BugClearAnything(p) ==
    /\ clearer[p].step = "sleep"
    /\ now >= clearer[p].due
    /\ clearer' = [clearer EXCEPT ![p].step = "clear"]
    /\ UNCHANGED <<now, rows, clipboard, pc, command, password, answers>>

\* The thread wakes up and compares what paste() returns, if it does.
CompareClipboard(p) ==
    /\ clearer[p].step = "sleep"
    /\ now >= clearer[p].due
    /\ \/ /\ clipboard.text = clearer[p].text
          /\ clearer' = [clearer EXCEPT ![p].step = "clear"]
       \/ /\ clipboard.text # clearer[p].text
          /\ EndThread(p)
       \/ FailThread(p)
    /\ UNCHANGED <<now, rows, clipboard, pc, command, password, answers>>

\* copy(""), a second call to the clipboard.
ClearClipboard(p) ==
    /\ clearer[p].step = "clear"
    /\ \/ /\ clipboard' = [text |-> "", by |-> p, at |-> now]
          /\ EndThread(p)
       \/ /\ FailThread(p)
          /\ UNCHANGED clipboard
    /\ UNCHANGED <<now, rows, pc, command, password, answers>>

-----------------------------------------------------------------------------
(* The environment *)

\* The user copies something else.
UserCopies(text) ==
    /\ clipboard' = [text |-> text, by |-> Nobody, at |-> now]
    /\ UNCHANGED <<now, rows, processes, answers>>

\* A stored row is damaged and does not decrypt any more.
Damage(i) ==
    /\ rows[i].whole
    /\ rows' = [rows EXCEPT ![i].whole = FALSE]
    /\ UNCHANGED <<now, clipboard, processes, answers>>

\* Commands are done, and threads that are due get their turn, before a tick.
Tick ==
    /\ now < MaxNow
    /\ \A p \in Process : pc[p] \in {"off", "done"}
    /\ \A p \in Process : clearer[p].step = "sleep" => now < clearer[p].due
    /\ \A p \in Process : clearer[p].step # "clear"
    /\ now' = now + 1
    /\ UNCHANGED <<rows, clipboard, processes, answers>>

Work(p) ==
    \/ Authenticate(p) \/ AddCredential(p) \/ GetCredential(p) \/ CopyToClipboard(p) \/ Exit(p)
    \/ CompareClipboard(p) \/ ClearClipboard(p)

Next ==
    \/ \E p \in Process, c \in Command : Run(p, c)
    \/ \E p \in Process : Work(p)
    \/ \E text \in Other : UserCopies(text)
    \/ \E i \in DOMAIN rows : Damage(i)
    \/ Tick

Spec == Init /\ [][Next]_vars

\* Processes run to their end and threads as long as their process; time passes.
FairSpec == Spec /\ WF_vars(Tick) /\ \A p \in Process : WF_vars(Work(p))

-----------------------------------------------------------------------------

(* A site's password does not change under its user: get always gives the  *)
(* credential that was stored first, and adds of other processes meanwhile *)
(* or later never come before it.                                          *)
SameAnswer ==
    \A u \in User, s \in Site : Cardinality(answers[<<u, s>>]) <= 1

(* "Auto-clearing after a short window (10 seconds here) limits that       *)
(* exposure": as long as a process lives, the password it has copied is    *)
(* off the clipboard when Delay has passed, whoever else copies and clears *)
(* meanwhile, unless the clipboard refused the thread, which only logs it. *)
(* That a thread which is due gets its turn before the next tick is Tick's *)
(* guard; what can go wrong is that no thread waits for the password that  *)
(* is there, or that one which does is due later or looks for another.     *)
GoneAfterDelay ==
    \A p \in Process :
        /\ pc[p] = "done" /\ clipboard.by = p /\ clipboard.text \in Secret
        /\ clearer[p].step # "failed"
        => now <= clipboard.at + Delay

(* "if the user copied something else in the meantime, clearing            *)
(* unconditionally would wipe THEIR new clipboard content", and the docs   *)
(* have it that newer content is never wiped.  The code does less: paste() *)
(* and copy("") are two calls, and what is copied between them is wiped.   *)
(* This is the exact bound: a thread wipes its own password, or what came  *)
(* between its comparison and its clearing, within one tick.               *)
ClearsOnlyOwn ==
    [][\A p \in Process :
          /\ clearer[p].step = "clear"
          /\ clipboard'.text = "" /\ clipboard'.by = p /\ clipboard # clipboard'
          => clipboard.text = clearer[p].text \/ clipboard.at = now]_vars

(* "Auto-clearing after a short window (10 seconds here) limits that       *)
(* exposure to roughly the time it takes to paste it once" (module         *)
(* docstring): a copied password does not stay on the clipboard for ever.  *)
ClipboardForgets ==
    clipboard.text \in Secret ~> clipboard.text \notin Secret

=============================================================================
