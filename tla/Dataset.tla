------------------------------- MODULE Dataset -------------------------------
(***************************************************************************)
(* The files between the raw transactions and a trained model: data/       *)
(* interim and data/processed, written by the prepare and split commands   *)
(* (data/pipeline.py) and read by train_baseline (training/pipeline.py).   *)
(*                                                                         *)
(* A command validates and computes everything first, then writes its      *)
(* files one after the other over the ones already there; it may be        *)
(* killed between two writes or inside one, and may be run again with      *)
(* another input or other boundaries.  Nothing keeps a training run from   *)
(* reading the directory meanwhile.  One data command runs at a time.      *)
(*                                                                         *)
(* A row keeps its id and event time; sound stands for the checks on its   *)
(* other fields.  A file is a set of rows, so that a duplicate id is two   *)
(* rows that differ elsewhere.  A manifest is the rows its checksum and    *)
(* counts describe.                                                        *)
(***************************************************************************)
EXTENDS Naturals, Sequences

CONSTANTS
    Datasets,    \* what the raw input may hold: sets of [id, time, sound] rows
    Boundaries,  \* what a split may be asked for: [train_end, validation_end]
    Absent, Torn \* a file that is not there, and one cut off inside a write

Part == {"train", "validation", "test"}
Row == UNION Datasets
File == {"interim"} \cup Part

ASSUME DatasetAssumption ==
    /\ \A x \in Row : x.time \in Nat /\ x.sound \in BOOLEAN
    /\ \A b \in Boundaries :
          /\ b.train_end \in Nat /\ b.validation_end \in Nat
          /\ b.train_end < b.validation_end
    /\ Absent # Torn
    /\ \A S \in SUBSET Row : S # Absent /\ S # Torn

VARIABLES
    parquet,  \* the .parquet of each file
    manifest, \* its .manifest.json
    pending,  \* the writes the running command has left, <<>> if none runs
    open,     \* whether the first of them has begun
    training, \* the part the training run reads next, or how far it got
    seen,     \* what it has read
    settled,  \* history: data/processed is what one finished split wrote
    quiet     \* history: it was so for as long as the training run read
vars == <<parquet, manifest, pending, open, training, seen, settled, quiet>>
data == <<parquet, manifest, pending, open>>
run  == <<training, seen>>

Content == {Absent, Torn} \cup SUBSET Row
After == [train |-> "validation", validation |-> "test", test |-> "fitting"]

\* Files hold rows or are absent or torn; a command has at most six writes
\* left.
DatasetTypeOK ==
    /\ parquet \in [File -> Content] /\ manifest \in [File -> Content]
    /\ pending \in Seq(File \X {"parquet", "manifest"} \X SUBSET Row)
    /\ Len(pending) <= 6
    /\ open \in BOOLEAN
    /\ training \in Part \cup {"fitting", "trained", "failed"}
    /\ seen \in [Part -> Content]
    /\ settled \in BOOLEAN /\ quiet \in BOOLEAN

DatasetInit ==
    /\ parquet = [f \in File |-> Absent] /\ manifest = [f \in File |-> Absent]
    /\ pending = <<>> /\ open = FALSE
    /\ training = "failed" /\ seen = [p \in Part |-> Absent]
    /\ settled = FALSE /\ quiet = FALSE

---------------------------------------------------------------------------
\* validate_historical_transactions
Valid(rows) ==
    /\ rows # {}
    /\ \A x, y \in rows : x.id = y.id => x = y
    /\ \A x \in rows : x.sound

\* mutant of Parts: a row at train_end falls between the partitions
PartsOffByOne(rows, b) ==
    [train      |-> {x \in rows : x.time < b.train_end},
     validation |-> {x \in rows : b.train_end < x.time /\ x.time < b.validation_end},
     test       |-> {x \in rows : x.time >= b.validation_end}]

\* temporal_split before its validation.
Parts(rows, b) ==
    [train      |-> {x \in rows : x.time < b.train_end},
     validation |-> {x \in rows : b.train_end <= x.time /\ x.time < b.validation_end},
     test       |-> {x \in rows : x.time >= b.validation_end}]

\* mutant of ValidSplits: empty partitions are let through
ValidSplitsEmpty(p) ==
    /\ \A x \in p.train, y \in p.validation : x.time < y.time
    /\ \A x \in p.validation, y \in p.test : x.time < y.time

\* validate_temporal_splits
ValidSplits(p) ==
    /\ \A n \in Part : p[n] # {}
    /\ \A m, n \in Part : \A x \in p[m], y \in p[n] : x.id = y.id => m = n /\ x = y
    /\ \A x \in p.train, y \in p.validation : x.time < y.time
    /\ \A x \in p.validation, y \in p.test : x.time < y.time

Both(f, rows) == << <<f, "parquet", rows>>, <<f, "manifest", rows>> >>

\* prepare_historical_dataset: rows that do not validate raise before the
\* first write.
Prepare(rows) ==
    /\ pending = <<>>
    /\ Valid(rows)
    /\ pending' = Both("interim", rows)
    /\ UNCHANGED <<parquet, manifest, open, run, settled, quiet>>

\* mutant of Split: goes on after the parts an earlier command has left
SplitResuming(b) ==
    LET rows == parquet["interim"]
        p    == Parts(rows, b)
        all  == Both("train", p.train) \o Both("validation", p.validation)
                  \o Both("test", p.test)
    IN  /\ pending = <<>>
        /\ rows \notin {Absent, Torn}
        /\ Valid(rows) /\ ValidSplits(p)
        /\ pending' = SelectSeq(all, LAMBDA w : parquet[w[1]] \in {Absent, Torn})
        /\ UNCHANGED <<parquet, manifest, open, run, settled, quiet>>

\* mutant of Split: rewrites its input and the manifest of it as well
SplitRewritingInterim(b) ==
    LET rows == parquet["interim"]
        p    == Parts(rows, b)
    IN  /\ pending = <<>>
        /\ rows \notin {Absent, Torn}
        /\ Valid(rows) /\ ValidSplits(p)
        /\ pending' = Both("interim", rows) \o Both("train", p.train)
                        \o Both("validation", p.validation) \o Both("test", p.test)
        /\ UNCHANGED <<parquet, manifest, open, run, settled, quiet>>

\* create_temporal_splits on the interim file, which must read and validate;
\* the manifests are built before the first write.
Split(b) ==
    LET rows == parquet["interim"]
        p    == Parts(rows, b)
    IN  /\ pending = <<>>
        /\ rows \notin {Absent, Torn}
        /\ Valid(rows) /\ ValidSplits(p)
        /\ pending' = Both("train", p.train) \o Both("validation", p.validation)
                        \o Both("test", p.test)
        /\ UNCHANGED <<parquet, manifest, open, run, settled, quiet>>

Put(f, kind, content) ==
    IF kind = "parquet"
    THEN parquet' = [parquet EXCEPT ![f] = content] /\ UNCHANGED manifest
    ELSE manifest' = [manifest EXCEPT ![f] = content] /\ UNCHANGED parquet

\* Both writers open the path itself, which empties it.
Open ==
    /\ pending # <<>> /\ ~open
    /\ Put(Head(pending)[1], Head(pending)[2], Torn)
    /\ open' = TRUE
    /\ settled' = (settled /\ Head(pending)[1] = "interim")
    /\ quiet' = (quiet /\ (Head(pending)[1] = "interim" \/ training \notin Part))
    /\ UNCHANGED <<pending, run>>

Close ==
    /\ open
    /\ Put(Head(pending)[1], Head(pending)[2], Head(pending)[3])
    /\ open' = FALSE
    /\ pending' = Tail(pending)
    /\ settled' = (settled \/ (Head(pending)[1] # "interim" /\ Len(pending) = 1))
    /\ UNCHANGED <<run, quiet>>

\* The command is killed; its files stay as they are.
Crash ==
    /\ pending # <<>>
    /\ pending' = <<>> /\ open' = FALSE
    /\ UNCHANGED <<parquet, manifest, run, settled, quiet>>

\* train_baseline starts on an empty slate ...
BeginTraining ==
    /\ training \in {"trained", "failed"}
    /\ training' = "train" /\ seen' = [p \in Part |-> Absent]
    /\ quiet' = settled
    /\ UNCHANGED <<data, settled>>

\* ... and reads the three parts in turn.  A file that is absent or torn
\* raises, and what was read is lost.  It reads no manifest and validates nothing.
ReadSplit ==
    /\ training \in Part
    /\ IF parquet[training] \in {Absent, Torn}
       THEN training' = "failed" /\ seen' = [p \in Part |-> Absent]
       ELSE /\ training' = After[training]
            /\ seen' = [seen EXCEPT ![training] = parquet[training]]
    /\ UNCHANGED <<data, settled, quiet>>

\* It fits on the first part, picks the threshold on the second and reports
\* the third.
Train ==
    /\ training = "fitting"
    /\ training' = "trained"
    /\ UNCHANGED <<data, seen, settled, quiet>>

DatasetNext ==
    \/ \E rows \in Datasets : Prepare(rows)
    \/ \E b \in Boundaries : Split(b)
    \/ Open \/ Close \/ Crash
    \/ BeginTraining \/ ReadSplit \/ Train

DatasetSpec == DatasetInit /\ [][DatasetNext]_vars

---------------------------------------------------------------------------
\* Time orders the parts, and no id is in two of them or twice in one.
Strict(p) ==
    /\ \A x \in p.train : \A y \in p.validation \cup p.test : x.time < y.time
    /\ \A x \in p.validation : \A y \in p.test : x.time < y.time
    /\ \A x, y \in p.train \cup p.validation \cup p.test : x.id = y.id => x = y

\* When the last write of a split is done the directory holds a strict
\* partition of the interim rows, whole, under manifests that describe it,
\* whatever commands were killed there before (create_temporal_splits).
CompletedSplit ==
    [][settled' /\ ~settled =>
          /\ Strict(parquet')
          /\ UNION {parquet'[p] : p \in Part} = parquet'["interim"]
          /\ \A p \in Part : manifest'[p] = parquet'[p]]_vars

\* A file of data/processed that can be read at all is a non-empty set of
\* valid rows, however the command that wrote it ended: what train_baseline
\* fits, selects and evaluates on is never empty.
ReadablePartsAreUsable ==
    \A p \in Part : parquet[p] \notin {Absent, Torn} => Valid(parquet[p])

\* A training run that starts on a finished split, with none started before it
\* has read the last part, learns nothing from what it is evaluated on.
NoLeakWhenQuiet == training = "trained" /\ quiet => Strict(seen)

\* No training run is evaluated on a row it was fitted on.  The code breaks
\* this: it reads whatever three files are there, and validates none of it.
NoLeak ==
    training = "trained" =>
        \A x \in seen["train"], y \in seen["validation"] \cup seen["test"] : x.id # y.id
=============================================================================
