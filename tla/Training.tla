------------------------------- MODULE Training -------------------------------
(***************************************************************************)
(* train_baseline once its model is fitted (training/pipeline.py): the     *)
(* candidate is dumped to one path per model type, then an MLflow run      *)
(* records parameters, metrics, that file, and a report with the           *)
(* threshold.                                                              *)
(*                                                                         *)
(* Training runs are processes of their own and may overlap.  Each keeps   *)
(* its model, its evaluations and its threshold in memory, but the upload  *)
(* reads the candidate back from the path.  A run may be killed or raise   *)
(* anywhere: the disk is full, the tracking server is gone.                *)
(***************************************************************************)
EXTENDS Naturals

CONSTANTS
    Runs,        \* invocations of train_baseline with one output directory
    Type,        \* the model type each trains
    Absent, Torn \* no file, and one that is not the whole dump of a run

ASSUME TrainingAssumption == Absent \notin Runs /\ Torn \notin Runs /\ Absent # Torn

Types == {Type[r] : r \in Runs}
Content == Runs \cup {Absent, Torn} \* a run stands for its candidate
Items == 5 \* params, validation and test metrics, artifact, evaluation.json

VARIABLES
    pc,        \* how far each run has come
    logged,    \* how many items its tracking run has
    status,    \* the tracking run: "none", "RUNNING", "FINISHED", "FAILED"
    artifact,  \* the candidate it has logged
    candidate, \* the file of each model type
    alone      \* history: no other run wrote the file since this one opened it
trainingVars == <<pc, logged, status, artifact, candidate, alone>>

TrainingInit ==
    /\ pc = [r \in Runs |-> "fitting"]
    /\ logged = [r \in Runs |-> 0]
    /\ status = [r \in Runs |-> "none"]
    /\ artifact = [r \in Runs |-> Absent]
    /\ candidate \in [Types -> {Absent, Torn}] \* what an earlier session left
    /\ alone = [r \in Runs |-> FALSE]

---------------------------------------------------------------------------
Rivals(r) == {q \in Runs \ {r} : Type[q] = Type[r]}
Dumping(r) == pc[r] = "dumping"

\* What happens to the file still matters to r.
Exposed(r) == pc[r] # "over" /\ logged[r] < 4

\* Fitted, evaluated, gated: joblib.dump opens the path, which empties it.
Open(r) ==
    /\ pc[r] = "fitting"
    /\ pc' = [pc EXCEPT ![r] = "dumping"]
    /\ candidate' = [candidate EXCEPT ![Type[r]] = Torn]
    /\ alone' = [q \in Runs |->
                    IF q = r THEN \A p \in Rivals(r) : ~Dumping(p)
                    ELSE alone[q] /\ ~ (Type[q] = Type[r] /\ Exposed(q))]
    /\ UNCHANGED <<logged, status, artifact>>

\* mutant of Close: a dump that nothing disturbs may still come out torn
CloseKeeping(r) ==
    /\ Dumping(r)
    /\ pc' = [pc EXCEPT ![r] = "dumped"]
    /\ \E kept \in {r, Torn} : candidate' = [candidate EXCEPT ![Type[r]] = kept]
    /\ UNCHANGED <<logged, status, artifact, alone>>

\* The dump is complete.  Two dumps into one file leave either of them or a
\* mixture.
Close(r) ==
    /\ Dumping(r)
    /\ pc' = [pc EXCEPT ![r] = "dumped"]
    /\ \E written \in {r} \cup (IF alone[r] THEN {}
                               ELSE {Torn} \cup {q \in Rivals(r) : pc[q] # "fitting"}) :
          candidate' = [candidate EXCEPT ![Type[r]] = written]
    /\ UNCHANGED <<logged, status, artifact, alone>>

StartRun(r) ==
    /\ pc[r] = "dumped"
    /\ pc' = [pc EXCEPT ![r] = "tracking"]
    /\ status' = [status EXCEPT ![r] = "RUNNING"]
    /\ UNCHANGED <<logged, artifact, candidate, alone>>

\* The five log calls in their order; the fourth uploads the file at the path.
Log(r) ==
    /\ pc[r] = "tracking" /\ logged[r] < Items
    /\ logged' = [logged EXCEPT ![r] = @ + 1]
    /\ artifact' = IF logged[r] = 3
                   THEN [artifact EXCEPT ![r] = candidate[Type[r]]] ELSE artifact
    /\ UNCHANGED <<pc, status, candidate, alone>>

\* The with block ends.
Finish(r) ==
    /\ pc[r] = "tracking" /\ logged[r] = Items
    /\ pc' = [pc EXCEPT ![r] = "over"]
    /\ status' = [status EXCEPT ![r] = "FINISHED"]
    /\ UNCHANGED <<logged, artifact, candidate, alone>>

\* mutant of Abort: the failure is swallowed and the run closed as finished
AbortSwallowed(r) ==
    /\ pc[r] # "over"
    /\ pc' = [pc EXCEPT ![r] = "over"]
    /\ status' = [status EXCEPT ![r] = IF @ = "RUNNING" THEN "FINISHED" ELSE @]
    /\ UNCHANGED <<logged, artifact, candidate, alone>>

\* The run is killed or raises; leaving the with block marks its tracking run
\* as failed unless the process, or the server, is gone.
Abort(r) ==
    /\ pc[r] # "over"
    /\ pc' = [pc EXCEPT ![r] = "over"]
    /\ \E s \in (IF status[r] = "RUNNING" THEN {"RUNNING", "FAILED"} ELSE {status[r]}) :
          status' = [status EXCEPT ![r] = s]
    /\ UNCHANGED <<logged, artifact, candidate, alone>>

AllOver == \A r \in Runs : pc[r] = "over"

TrainingNext ==
    \/ \E r \in Runs :
          Open(r) \/ Close(r) \/ StartRun(r) \/ Log(r) \/ Finish(r) \/ Abort(r)
    \/ AllOver /\ UNCHANGED trainingVars

TrainingSpec == TrainingInit /\ [][TrainingNext]_trainingVars

---------------------------------------------------------------------------
TrainingTypeOK ==
    /\ pc \in [Runs -> {"fitting", "dumping", "dumped", "tracking", "over"}]
    /\ logged \in [Runs -> 0 .. Items]
    /\ status \in [Runs -> {"none", "RUNNING", "FINISHED", "FAILED"}]
    /\ artifact \in [Runs -> Content]
    /\ candidate \in [Types -> Content]
    /\ alone \in [Runs -> BOOLEAN]

\* A tracking run that MLflow shows as finished has all it should record, and
\* unless another run of its model type wrote the file meanwhile, the model it
\* shows is the one its metrics and threshold were computed from.
FinishedRunIsCoherent ==
    \A r \in Runs : status[r] = "FINISHED" =>
        /\ logged[r] = Items
        /\ alone[r] => artifact[r] = r

\* From the end of its dump until it is uploaded the file is the run's own
\* whole candidate, whatever earlier or other runs left torn, unless another
\* run of its type opened the file.
WholeUnlessDisturbed ==
    \A r \in Runs :
        pc[r] \in {"dumped", "tracking"} /\ Exposed(r) /\ alone[r] => candidate[Type[r]] = r
=============================================================================
