----------------------------- MODULE AccessLog -----------------------------
(***************************************************************************)
(* The access log of the application (app/middleware/access_log.py): once  *)
(* a request has its response, the middleware stamps one entry and appends *)
(* it as a line of JSON.  Between the stamp and the append the event loop  *)
(* gets no control, so the two are one step.  What lies outside that step  *)
(* is here as well: the wall clock may be set back, a handler may raise,   *)
(* and the append may stop short (disk full, crash), which leaves a line   *)
(* that the next entry continues.                                          *)
(***************************************************************************)
EXTENDS Integers, Sequences, SequencesExt

CONSTANTS
    Request,     \* what an entry says of a request and its response, but for the time
    MaxTime,     \* bound on the wall clock
    MaxEntries,  \* bound on the responses
    MaxFaults    \* bound on the appends that stop short and the handlers that raise

ASSUME AccessLogAssumption ==
    /\ MaxTime \in Nat /\ MaxEntries \in Nat /\ MaxFaults \in Nat

VARIABLES
    clock,  \* datetime.now
    log,    \* the lines of ACCESS_LOG_PATH, each the sequence of what was written into it
    open,   \* the last line has no newline yet
    served, \* every entry the middleware made, in order
    tears,  \* appends that stopped short so far
    raised  \* requests whose handler raised so far

logVars == <<clock, log, open, served, tears, raised>>

Entry(r) == [request |-> r, timestamp |-> clock]

\* What a write leaves in a line: all of the JSON of an entry, or a part of it.
Whole(e) == [entry |-> e, whole |-> TRUE]
Part(e) == [entry |-> e, whole |-> FALSE]

InitLog ==
    /\ clock = 0
    /\ log = <<>>
    /\ open = FALSE
    /\ served = <<>>
    /\ tears = 0
    /\ raised = 0

\* The file with a piece more at its end: in the open line or in a new one.
Continued(piece) ==
    IF open
    THEN [log EXCEPT ![Len(log)] = Append(@, piece)]
    ELSE Append(log, <<piece>>)

\* A bug: the newline is written in front of the next entry, not behind this one.
BugNoNewline(r) ==
    /\ Len(served) < MaxEntries
    /\ served' = Append(served, Entry(r))
    /\ log' = Continued(Whole(Entry(r)))
    /\ open' = TRUE
    /\ UNCHANGED <<clock, tears, raised>>

\* dispatch, after call_next has returned a response.
Dispatch(r) ==
    /\ Len(served) < MaxEntries
    /\ served' = Append(served, Entry(r))
    /\ log' = Continued(Whole(Entry(r)))
    /\ open' = FALSE
    /\ UNCHANGED <<clock, tears, raised>>

\* The append stops before any byte, inside the JSON or before the newline.
Tear(r) ==
    /\ Len(served) < MaxEntries /\ tears + raised < MaxFaults
    /\ served' = Append(served, Entry(r))
    /\ tears' = tears + 1
    /\ \/ UNCHANGED <<log, open>>
       \/ \E piece \in {Part(Entry(r)), Whole(Entry(r))} :
            /\ log' = Continued(piece)
            /\ open' = TRUE
    /\ UNCHANGED <<clock, raised>>

\* The handler raises: the server makes a 500 of it behind the middleware.
Raise(r) ==
    /\ Len(served) < MaxEntries /\ tears + raised < MaxFaults
    /\ served' = Append(served, Entry([r EXCEPT !.status = 500]))
    /\ raised' = raised + 1
    /\ UNCHANGED <<clock, log, open, tears>>

\* The wall clock runs on, or is set back.
SetClock ==
    /\ clock' \in {t \in {clock - 1, clock + 1} : t \in 0..MaxTime}
    /\ UNCHANGED <<log, open, served, tears, raised>>

NextLog ==
    \/ \E r \in Request : Dispatch(r) \/ Tear(r) \/ Raise(r)
    \/ SetClock

-----------------------------------------------------------------------------
(* load_log_entries of app/analysis/log_analyzer.py *)

\* json.loads accepts a line that is the JSON of one entry and nothing else.
Parses(line) == Len(line) = 1 /\ line[1].whole

\* The entries the analyzer reads; lines that do not parse are skipped.
LoadLogEntries ==
    FoldLeft(LAMBDA entries, line : IF Parses(line) THEN Append(entries, line[1].entry) ELSE entries,
             <<>>, log)

-----------------------------------------------------------------------------

(* An append that stops short costs two entries at most, its own and the   *)
(* one that ends up in the same line, and a handler that raises costs its  *)
(* own, however many requests follow: the analyzer reads all the others in *)
(* the order they were served, and nothing else ("Skips any line that      *)
(* fails to parse rather than crashing the whole analysis run").           *)
TornWriteCostsTwo ==
    /\ Len(LoadLogEntries) >= Len(served) - 2 * tears - raised
    /\ \E at \in [DOMAIN LoadLogEntries -> DOMAIN served] :
          /\ \A m, n \in DOMAIN at : m < n => at[m] < at[n]
          /\ \A n \in DOMAIN at : LoadLogEntries[n] = served[at[n]]

=============================================================================
