---------------------------- MODULE SwishScanner -----------------------------
(***************************************************************************)
(* The scanner of swish cards: it catalogues product ids, visits them one  *)
(* by one through a browser the site may block, and keeps two files, its   *)
(* state and the database of records.  Each file is replaced atomically,   *)
(* the two are not: the process may die between them, and starts again     *)
(* from what they hold.                                                    *)
(***************************************************************************)
EXTENDS Naturals, Sequences, FiniteSets, SequencesExt

CONSTANTS
  Products,     \* the product ids the catalogue page may show
  MaxAttempts,  \* max_attempts of run_all
  MaxCrashes    \* bound: deaths of the process

VARIABLES
  state,     \* state.json: [processed, blocked, queue]
  database,  \* swish_database.json: the ids recorded, in order
  memory,    \* the running scan: its copy of the state, the ids saved, those left to visit
  step,      \* "off", "start", "scan", "record" (database written, state not), "scanned"
  visiting,  \* the id being visited while step is "record"
  attempt,   \* rounds of scan, retry and verify begun
  retrying,  \* whether the scan that runs is the retry's
  crashes

scanVars == <<state, database, memory, step, visiting, attempt, retrying, crashes>>
roundVars == <<attempt, retrying, crashes>>

NoState == [processed |-> {}, blocked |-> {}, queue |-> {}]
NoMemory == [state |-> NoState, saved |-> {}, todo |-> {}]

Known(s) == s.processed \cup s.blocked \cup s.queue
Saved == ToSet(database)

\* _reconcile_state.
Reconcile(s, pid) == [processed |-> s.processed \cup {pid}, blocked |-> s.blocked \ {pid}, queue |-> s.queue \ {pid}]

ScanInit ==
  /\ state = NoState /\ database = <<>> /\ memory = NoMemory
  /\ step = "off" /\ visiting = {} /\ attempt = 0 /\ retrying = FALSE /\ crashes = 0

\* catalog(): two passes over a page that may show different products, their union.
\* A block on the first pass raises and changes nothing.
Catalog ==
  /\ step = "off" /\ crashes <= MaxCrashes
  /\ \E first, second \in SUBSET Products :
       state' = [state EXCEPT !.queue = @ \cup ((first \cup second) \ state.processed)]
  /\ step' = "start" /\ attempt' = 1 /\ retrying' = FALSE
  /\ UNCHANGED <<database, memory, visiting, crashes>>

\* The opening of scan(): the files read, the blocked ids first and then the queue; no
\* scan limit is set.
StartScan ==
  /\ step = "start"
  /\ memory' = [state |-> state, saved |-> Saved, todo |-> state.blocked \cup state.queue]
  /\ step' = "scan"
  /\ UNCHANGED <<state, database, visiting>> /\ UNCHANGED roundVars

\* An id the database has already: what a death between the two files leaves behind.
SkipSaved(pid) ==
  /\ step = "scan" /\ pid \in memory.todo /\ pid \in memory.saved
  /\ state' = Reconcile(memory.state, pid)
  /\ memory' = [memory EXCEPT !.state = state', !.todo = @ \ {pid}]
  /\ UNCHANGED <<database, step, visiting>> /\ UNCHANGED roundVars

ToVisit(pid) == step = "scan" /\ pid \in memory.todo /\ pid \notin memory.saved

MeetBlock(pid) ==
  /\ ToVisit(pid)
  /\ state' = [memory.state EXCEPT !.blocked = @ \cup {pid}, !.queue = @ \ {pid}]
  /\ memory' = [memory EXCEPT !.state = state', !.todo = @ \ {pid}]
  /\ UNCHANGED <<database, step, visiting>> /\ UNCHANGED roundVars

\* A timeout, an error or a page without data: left where it is.
MeetNothing(pid) ==
  /\ ToVisit(pid)
  /\ memory' = [memory EXCEPT !.todo = @ \ {pid}]
  /\ UNCHANGED <<state, database, step, visiting>> /\ UNCHANGED roundVars

\* The database is written first,
SaveRecord(pid) ==
  /\ ToVisit(pid)
  /\ database' = Append(database, pid)
  /\ memory' = [memory EXCEPT !.saved = @ \cup {pid}, !.todo = @ \ {pid}]
  /\ step' = "record" /\ visiting' = {pid}
  /\ UNCHANGED state /\ UNCHANGED roundVars

\* and the state after it.
SaveProgress ==
  /\ step = "record"
  /\ \E pid \in visiting : state' = Reconcile(memory.state, pid)
  /\ memory' = [memory EXCEPT !.state = state']
  /\ step' = "scan" /\ visiting' = {}
  /\ UNCHANGED database /\ UNCHANGED roundVars

EndScan ==
  /\ step = "scan" /\ memory.todo = {}
  /\ step' = "scanned" /\ memory' = NoMemory
  /\ UNCHANGED <<state, database, visiting>> /\ UNCHANGED roundVars

Retry_dropsBlocked ==
  /\ step = "scanned" /\ ~retrying
  /\ state' = [state EXCEPT !.queue = @ \cup ((state.processed \cup state.queue) \ Saved), !.blocked = {}]
  /\ step' = "start" /\ retrying' = TRUE
  /\ UNCHANGED <<database, memory, visiting, attempt, crashes>>

\* retry(): the blocked ids and those without a record are queued again and scanned.
Retry ==
  /\ step = "scanned" /\ ~retrying
  /\ LET again == state.blocked \cup (Known(state) \ Saved)
     IN IF again = {} THEN UNCHANGED <<state, step>>
        ELSE /\ state' = [state EXCEPT !.queue = @ \cup again, !.blocked = {}]
             /\ step' = "start"
  /\ retrying' = TRUE
  /\ UNCHANGED <<database, memory, visiting, attempt, crashes>>

\* verify_complete(), and another round while attempts are left.
Verify ==
  /\ step = "scanned" /\ retrying
  /\ IF Known(state) \subseteq Saved \/ attempt = MaxAttempts
       THEN step' = "off" /\ UNCHANGED attempt
       ELSE step' = "start" /\ attempt' = attempt + 1
  /\ retrying' = FALSE
  /\ UNCHANGED <<state, database, memory, visiting, crashes>>

Die ==
  /\ step # "off" /\ crashes < MaxCrashes
  /\ crashes' = crashes + 1
  /\ step' = "off" /\ memory' = NoMemory /\ visiting' = {}
  /\ UNCHANGED <<state, database, attempt, retrying>>

Visit(pid) == SkipSaved(pid) \/ MeetBlock(pid) \/ MeetNothing(pid) \/ SaveRecord(pid)

ScanNext ==
  \/ Catalog \/ StartScan \/ SaveProgress \/ EndScan \/ Retry \/ Verify \/ Die
  \/ \E pid \in Products : Visit(pid)

-----------------------------------------------------------------------------
(* What a run that dies anywhere must not lose.                            *)

\* What the state calls processed is in the database, and nothing is there twice:
\* "append records to swish_database.json" survives a death between the two files.
RecordsMatchState ==
  /\ state.processed \subseteq Saved
  /\ IsInjective(database)

\* An id once catalogued stays known until it is recorded, whatever blocks, times out or
\* dies, and a record once written stays.
IdsAreNeverForgotten ==
  [][Known(state) \subseteq Known(state') /\ IsPrefix(database, database')]_scanVars

\* A scan that dies anywhere loses nothing: neither an id nor a record.
ScannerLosesNothing == []RecordsMatchState /\ IdsAreNeverForgotten
=============================================================================
