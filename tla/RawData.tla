------------------------------- MODULE RawData -------------------------------
(***************************************************************************)
(* How the handbook data gets to data/interim: the download script fetches *)
(* daily files one by one into a directory, and load_handbook_rows reads   *)
(* that directory, file by file, and converts each row                     *)
(* (data/adapters/fraud_handbook.py).  Either command may be running, or   *)
(* broken off, while the other runs, and upstream's main branch moves.     *)
(*                                                                         *)
(* A daily file is the upstream revision it was fetched from.  It has two  *)
(* rows; the second of an unsound file does not convert.  A file is read   *)
(* in one step: an overwrite empties it first, so that a read which an     *)
(* overwrite overtakes finds the file as it was before, inside or after.   *)
(***************************************************************************)
EXTENDS Naturals, FiniteSets

CONSTANTS
    Days,        \* how many days upstream has
    Revisions,   \* how often its main branch moves, plus one
    Unsound,     \* the <<day, revision>> files with a row that does not convert
    Absent, Torn \* no file, and one cut off inside a write

ASSUME RawAssumption ==
    /\ Days \in Nat \ {0} /\ Revisions \in Nat \ {0}
    /\ Unsound \subseteq (1 .. Days) \X (1 .. Revisions)
    /\ {Absent, Torn} \cap Nat = {} /\ Absent # Torn

VARIABLES
    main,     \* the revision upstream's main branch is at
    raw,      \* the directory: what each day's file holds
    job,      \* the running download: next day and last day
    open,     \* whether it is inside a file
    paths,    \* the files prepare found when it listed the directory
    listing,  \* those of them it has not read
    rows,     \* the rows it has converted
    errors,   \* how many it could not
    interim   \* the rows of the last interim file it wrote
vars == <<main, raw, job, open, paths, listing, rows, errors, interim>>

NoJob == [day |-> 1, last |-> 0]
Loaded == {d \in 1 .. Days : raw[d] # Absent}

Init ==
    /\ main = 1
    /\ raw = [d \in 1 .. Days |-> Absent]
    /\ job = NoJob /\ open = FALSE
    /\ paths = {} /\ listing = {} /\ rows = {} /\ errors = 0
    /\ interim = {}

---------------------------------------------------------------------------
Publish ==
    /\ main < Revisions
    /\ main' = main + 1
    /\ UNCHANGED <<raw, job, open, paths, listing, rows, errors, interim>>

\* The script, for --days days from --start-date.
Download(first, days) ==
    /\ job = NoJob
    /\ first + days - 1 <= Days
    /\ job' = [day |-> first, last |-> first + days - 1]
    /\ UNCHANGED <<main, raw, open, paths, listing, rows, errors, interim>>

\* urlretrieve opens the destination, which empties it ...
OpenDay ==
    /\ job.day <= job.last /\ ~open
    /\ raw' = [raw EXCEPT ![job.day] = Torn]
    /\ open' = TRUE
    /\ UNCHANGED <<main, job, paths, listing, rows, errors, interim>>

\* ... and fills it from the URL, which names the main branch whatever
\* --source-revision was given.
CloseDay ==
    /\ open
    /\ raw' = [raw EXCEPT ![job.day] = main]
    /\ open' = FALSE
    /\ job' = IF job.day = job.last THEN NoJob ELSE [job EXCEPT !.day = @ + 1]
    /\ UNCHANGED <<main, paths, listing, rows, errors, interim>>

\* The download is killed, or the connection lost.
BreakOff ==
    /\ job # NoJob
    /\ job' = NoJob /\ open' = FALSE
    /\ UNCHANGED <<main, raw, paths, listing, rows, errors, interim>>

\* prepare lists the directory; an empty one raises.
List ==
    /\ listing = {} /\ rows = {} /\ Loaded # {}
    /\ paths' = Loaded /\ listing' = Loaded
    /\ errors' = 0
    /\ UNCHANGED <<main, raw, job, open, rows, interim>>

RowsOf(d, revision) == {<<d, revision, i>> : i \in 1 .. 2}
Converts(x) == x[3] = 1 \/ <<x[1], x[2]>> \notin Unsound

\* mutant of ReadFile: an unreadable file is skipped
ReadFileSkipping ==
    LET d   == CHOOSE d \in listing : \A e \in listing : d <= e
        all == IF raw[d] = Torn THEN {} ELSE RowsOf(d, raw[d])
    IN  /\ listing # {}
        /\ listing' = listing \ {d}
        /\ rows' = rows \cup {x \in all : Converts(x)}
        /\ errors' = errors + Cardinality({x \in all : ~Converts(x)})
        /\ UNCHANGED <<main, raw, job, open, paths, interim>>

\* It reads the files in order of their names.  One that does not unpickle
\* raises at once; rows that do not convert are collected first.
ReadFile ==
    LET d   == CHOOSE d \in listing : \A e \in listing : d <= e
        all == RowsOf(d, raw[d])
    IN  /\ listing # {}
        /\ IF raw[d] = Torn
           THEN listing' = {} /\ rows' = {} /\ UNCHANGED errors
           ELSE /\ listing' = listing \ {d}
                /\ rows' = rows \cup {x \in all : Converts(x)}
                /\ errors' = errors + Cardinality({x \in all : ~Converts(x)})
        /\ UNCHANGED <<main, raw, job, open, paths, interim>>

\* mutant of WriteInterim: rows with errors are dropped
WriteInterimDropping ==
    /\ listing = {} /\ rows # {}
    /\ interim' = rows
    /\ rows' = {}
    /\ UNCHANGED <<main, raw, job, open, paths, listing, errors>>

\* After the last file any error raises; otherwise the rows are written.
WriteInterim ==
    /\ listing = {} /\ rows # {}
    /\ interim' = IF errors > 0 THEN interim ELSE rows
    /\ rows' = {}
    /\ UNCHANGED <<main, raw, job, open, paths, listing, errors>>

\* Preparation is killed before it writes.
Kill ==
    /\ listing # {} \/ rows # {}
    /\ listing' = {} /\ rows' = {}
    /\ UNCHANGED <<main, raw, job, open, paths, errors, interim>>

Next ==
    \/ Publish \/ OpenDay \/ CloseDay \/ BreakOff
    \/ \E first, days \in 1 .. Days : Download(first, days)
    \/ List \/ ReadFile \/ WriteInterim \/ Kill

Spec == Init /\ [][Next]_vars

---------------------------------------------------------------------------
\* "Preparation fails rather than drops rows": each day that reached the
\* interim file did so with every row of one published file.
WholeDays ==
    \A x \in interim : RowsOf(x[1], x[2]) = {y \in interim : y[1] = x[1]}

\* Nor does it drop a file: whenever the interim file changes, it has rows of
\* exactly the days whose files were there when that preparation listed the
\* directory, whatever was broken off or replaced in it since.
EveryFileListed == [][interim' # interim => {x[1] : x \in interim'} = paths]_vars
=============================================================================
