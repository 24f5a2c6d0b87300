----------------------------- MODULE DatasetProofs -----------------------------
(***************************************************************************)
(* Proofs about the data commands and the training run that reads beside   *)
(* them, for any raw inputs and boundaries and any number of commands,     *)
(* kills and training runs.                                                *)
(***************************************************************************)
EXTENDS Dataset, SequenceTheorems, TLAPS

Kind == {"parquet", "manifest"}

\* The writes of a split into the parts p, and those left after the first k.
Writes(p) ==
    << <<"train", "parquet", p["train"]>>, <<"train", "manifest", p["train"]>>,
       <<"validation", "parquet", p["validation"]>>,
       <<"validation", "manifest", p["validation"]>>,
       <<"test", "parquet", p["test"]>>, <<"test", "manifest", p["test"]>> >>
Rest(p, k) == SubSeq(Writes(p), k + 1, 6)

\* A write has been made.
Made(w) == (IF w[2] = "parquet" THEN parquet[w[1]] ELSE manifest[w[1]]) = w[3]

Manifest(rows) == << <<"interim", "manifest", rows>> >>

\* Prepare has both writes of its valid rows left, or the manifest.
Preparing(rows) ==
    /\ Valid(rows)
    /\ pending = Both("interim", rows) \/ pending = Manifest(rows)

\* Parts that are strict and valid, as a split only ever writes.
Partition(p) ==
    /\ Strict(p)
    /\ \A q \in Part : Valid(p[q])

\* A split into p has made its first k writes, and they stand.
Splitting(p, k) ==
    /\ pending = Rest(p, k)
    /\ Partition(p)
    /\ parquet["interim"] = UNION {p[q] : q \in Part}
    /\ \A j \in 1 .. k : Made(Writes(p)[j])
    /\ k > 0 \/ open => ~settled

\* No command runs.
Idle == pending = <<>> /\ open = FALSE

\* What the running command has left to do, and has done.
Working ==
    \/ Idle
    \/ \E rows \in SUBSET Row : Preparing(rows)
    \/ \E p \in [Part -> SUBSET Row], k \in 0 .. 5 : Splitting(p, k)

\* All of DatasetTypeOK but the shape of pending, which follows from Working.
Typed ==
    /\ parquet \in [File -> Content] /\ manifest \in [File -> Content]
    /\ open \in BOOLEAN
    /\ training \in Part \cup {"fitting", "trained", "failed"}
    /\ seen \in [Part -> Content]
    /\ settled \in BOOLEAN /\ quiet \in BOOLEAN

\* What a training run that nothing disturbs has read is what is there, until
\* it has read it all.
Undisturbed ==
    quiet =>
        CASE training = "train"                  -> settled
          [] training = "validation"             -> settled /\ seen["train"] = parquet["train"]
          [] training = "test"                   -> /\ settled
                                                    /\ seen["train"] = parquet["train"]
                                                    /\ seen["validation"] = parquet["validation"]
          [] training \in {"fitting", "trained"} -> Strict(seen)
          [] OTHER                               -> TRUE

\* The inductive invariant.
DInv ==
    /\ Typed
    /\ Working
    /\ ReadablePartsAreUsable
    /\ settled => Strict(parquet)
    /\ Undisturbed

\* A step that completes a split leaves what CompletedSplit says it does.
Completes ==
    settled' /\ ~settled =>
        /\ Strict(parquet')
        /\ UNION {parquet'[p] : p \in Part} = parquet'["interim"]
        /\ \A p \in Part : manifest'[p] = parquet'[p]

---------------------------------------------------------------------------
\* A split has six writes.
LEMMA WritesAre ==
    ASSUME NEW p \in [Part -> SUBSET Row]
    PROVE  Writes(p) \in Seq(File \X Kind \X SUBSET Row) /\ Len(Writes(p)) = 6
  BY DEF Writes, File, Part, Kind

\* What is left of them after k.
LEMMA RestFacts ==
    ASSUME NEW p \in [Part -> SUBSET Row], NEW k \in 0 .. 5
    PROVE  /\ Rest(p, k) \in Seq(File \X Kind \X SUBSET Row)
           /\ Rest(p, k) # <<>> /\ Len(Rest(p, k)) = 6 - k
           /\ Head(Rest(p, k)) = Writes(p)[k + 1]
           /\ Tail(Rest(p, k)) = IF k = 5 THEN <<>> ELSE Rest(p, k + 1)
<1> DEFINE w == Writes(p)
           S == File \X Kind \X SUBSET Row
<1>1. w \in Seq(S) /\ Len(w) = 6
  BY WritesAre
<1> HIDE DEF w, S
<1>2. k + 1 \in 1 .. Len(w) /\ 6 \in k + 1 .. Len(w) /\ k + 1 <= 6
  BY <1>1
<1>3. \A i \in k + 1 .. 6 : w[i] \in S
  <2>1. \A i \in k + 1 .. 6 : i \in 1 .. Len(w)
    BY <1>1
  <2> QED BY <1>1, <2>1, ElementOfSeq
<1>4. SubSeq(w, k + 1, 6) \in Seq(S) /\ Len(SubSeq(w, k + 1, 6)) = 6 - k
  BY <1>2, <1>3, SubSeqProperties
<1>5. /\ Head(SubSeq(w, k + 1, 6)) = w[k + 1]
      /\ Tail(SubSeq(w, k + 1, 6)) = SubSeq(w, (k + 1) + 1, 6)
  BY <1>1, <1>2, HeadTailOfSubSeq
<1>6. k = 5 => SubSeq(w, (k + 1) + 1, 6) = <<>>
  <2>1. k = 5 => (k + 1) + 1 \in Int /\ 6 \in Int /\ 6 < (k + 1) + 1
    OBVIOUS
  <2> QED BY <2>1, SubSeqEmpty
<1>7. SubSeq(w, k + 1, 6) # <<>>
  <2>1. Len(<<>>) = 0
    BY EmptySeq
  <2>2. 6 - k # 0
    OBVIOUS
  <2> QED BY <1>4, <2>1, <2>2
<1> QED BY <1>4, <1>5, <1>6, <1>7 DEF Rest, w, S

\* Three pairs make six.
LEMMA ThreePairs ==
    ASSUME NEW S, NEW t \in Seq(S), NEW v \in Seq(S), NEW e \in Seq(S), NEW w \in Seq(S),
           Len(t) = 2, Len(v) = 2, Len(e) = 2, Len(w) = 6,
           t[1] = w[1], t[2] = w[2], v[1] = w[3], v[2] = w[4], e[1] = w[5], e[2] = w[6]
    PROVE  t \o v \o e = w
<1> DEFINE u == t \o v
<1>1. /\ u \in Seq(S) /\ Len(u) = Len(t) + Len(v)
      /\ \A i \in 1 .. Len(t) + Len(v) : u[i] = IF i <= Len(t) THEN t[i] ELSE v[i - Len(t)]
  BY ConcatProperties
<1>2. u[1] = t[1] /\ u[2] = t[2] /\ u[3] = v[1] /\ u[4] = v[2] /\ Len(u) = 4
  <2> HIDE DEF u
  <2> QED BY <1>1
<1>3. u \in Seq(S)
  BY <1>1
<1> HIDE DEF u
<1> DEFINE all == u \o e
<1>4. /\ all \in Seq(S) /\ Len(all) = Len(u) + Len(e)
      /\ \A i \in 1 .. Len(u) + Len(e) : all[i] = IF i <= Len(u) THEN u[i] ELSE e[i - Len(u)]
  BY <1>3, ConcatProperties
<1> HIDE DEF all
<1>5. /\ all[1] = w[1] /\ all[2] = w[2] /\ all[3] = w[3] /\ all[4] = w[4] /\ all[5] = w[5]
      /\ all[6] = w[6] /\ Len(all) = 6
  BY <1>2, <1>4
<1>6. \A i \in 1 .. Len(all) : i = 1 \/ i = 2 \/ i = 3 \/ i = 4 \/ i = 5 \/ i = 6
  BY <1>5
<1>7. \A i \in 1 .. Len(all) : all[i] = w[i]
  BY <1>5, <1>6
<1>8. all = w
  BY <1>4, <1>5, <1>7, SeqEqual
<1> QED BY <1>8 DEF all, u

\* The three parts' pairs of writes are those writes.
LEMMA AllWrites ==
    ASSUME NEW p \in [Part -> SUBSET Row]
    PROVE  Both("train", p["train"]) \o Both("validation", p["validation"])
             \o Both("test", p["test"]) = Rest(p, 0)
<1> DEFINE S == File \X Kind \X SUBSET Row
           t == Both("train", p["train"])
           v == Both("validation", p["validation"])
           e == Both("test", p["test"])
           w == Writes(p)
<1>1. t \in Seq(S) /\ v \in Seq(S) /\ e \in Seq(S) /\ Len(t) = 2 /\ Len(v) = 2 /\ Len(e) = 2
  BY DEF Both, File, Part, Kind
<1>2. /\ t[1] = w[1] /\ t[2] = w[2] /\ v[1] = w[3]
      /\ v[2] = w[4] /\ e[1] = w[5] /\ e[2] = w[6]
  BY DEF Both, Writes
<1>3. w \in Seq(S) /\ Len(w) = 6
  BY WritesAre
<1> HIDE DEF t, v, e, w, S
<1>4. t \o v \o e = w
  BY <1>1, <1>2, <1>3, ThreePairs
<1>5. SubSeq(w, 1, Len(w)) = w
  BY <1>3, SubSeqFull
<1>6. SubSeq(w, 1, 6) = w
  BY <1>3, <1>5
<1>7. Rest(p, 0) = SubSeq(w, 1, 6)
  BY DEF Rest, w
<1> QED BY <1>4, <1>6, <1>7 DEF t, v, e

\* The parts of a valid dataset, once they pass validation.
LEMMA PartsAreSound ==
    ASSUME NEW rows \in SUBSET Row, NEW b \in Boundaries, Valid(rows),
           ValidSplits(Parts(rows, b))
    PROVE  /\ Parts(rows, b) \in [Part -> SUBSET Row]
           /\ Partition(Parts(rows, b))
           /\ rows = UNION {Parts(rows, b)[q] : q \in Part}
<1> DEFINE p == Parts(rows, b)
<1>1. p \in [Part -> SUBSET Row]
  BY DEF Parts, Part
<1>2. \A x \in Row : x.time \in Nat
  BY DatasetAssumption
<1>3. b.train_end \in Nat /\ b.validation_end \in Nat /\ b.train_end < b.validation_end
  BY DatasetAssumption
<1>4. \A q \in Part : Valid(p[q])
  BY DEF Valid, ValidSplits, Parts, Part
<1>5. Strict(p)
  <2>1. \A x \in p["train"], y \in p["validation"] \cup p["test"] : x.time < y.time
    BY <1>2, <1>3 DEF Parts
  <2>2. \A x \in p["validation"], y \in p["test"] : x.time < y.time
    BY <1>2, <1>3 DEF Parts
  <2>3. \A x, y \in p["train"] \cup p["validation"] \cup p["test"] : x.id = y.id => x = y
    BY DEF Parts, Valid
  <2> QED BY <2>1, <2>2, <2>3 DEF Strict
<1>6. rows = UNION {p[q] : q \in Part}
  <2>1. p["train"] \cup p["validation"] \cup p["test"] = rows
    BY <1>2, <1>3 DEF Parts
  <2>2. UNION {p[q] : q \in Part} = p["train"] \cup p["validation"] \cup p["test"]
    BY DEF Part
  <2> QED BY <2>1, <2>2
<1> QED BY <1>1, <1>4, <1>5, <1>6 DEF Partition

\* What any command has left is a sequence of at most six writes.
LEMMA PendingTyped ==
    ASSUME Working
    PROVE  pending \in Seq(File \X Kind \X SUBSET Row) /\ Len(pending) <= 6
<1> DEFINE S == Seq(File \X Kind \X SUBSET Row)
<1>1. CASE Idle
  <2>1. <<>> \in S /\ Len(<<>>) = 0
    BY EmptySeq
  <2> QED BY <1>1, <2>1 DEF Idle
<1>2. ASSUME NEW rows \in SUBSET Row, Preparing(rows)
      PROVE  pending \in S /\ Len(pending) <= 6
  <2>1. Both("interim", rows) \in S /\ Len(Both("interim", rows)) = 2
    BY DEF Both, File, Kind
  <2>2. Manifest(rows) \in S /\ Len(Manifest(rows)) = 1
    BY DEF Manifest, File, Kind
  <2> HIDE DEF S
  <2>3. CASE pending = Both("interim", rows)
    <3>1. pending \in S /\ Len(pending) = 2
      BY <2>1, <2>3
    <3> QED BY <3>1
  <2>4. CASE pending = Manifest(rows)
    BY <2>2, <2>4
  <2> QED BY <1>2, <2>3, <2>4 DEF Preparing
<1>3. ASSUME NEW p \in [Part -> SUBSET Row], NEW k \in 0 .. 5, Splitting(p, k)
      PROVE  pending \in S /\ Len(pending) <= 6
  <2>1. Rest(p, k) \in S /\ Len(Rest(p, k)) = 6 - k
    BY RestFacts
  <2>2. pending = Rest(p, k) /\ 6 - k <= 6
    BY <1>3 DEF Splitting
  <2> QED BY <2>1, <2>2
<1> QED BY <1>1, <1>2, <1>3 DEF Working

\* At first there are no files, and nothing runs.
LEMMA DatasetInitially == DatasetInit => DInv
  BY DEF DatasetInit, DInv, Typed, Working, Idle, ReadablePartsAreUsable, Undisturbed, Content, Part,
         File

---------------------------------------------------------------------------
\* Steps that leave the files alone.
LEMMA CommandStep ==
    ASSUME DInv,
           \/ \E rows \in Datasets : Prepare(rows)
           \/ \E b \in Boundaries : Split(b)
           \/ Crash
    PROVE  DInv'
<1> USE DEF DInv
<1>0. /\ UNCHANGED <<parquet, manifest, training, seen, settled, quiet>>
      /\ open' = open \/ open' = FALSE
  BY DEF Prepare, Split, Crash, run
<1>1. Typed' /\ ReadablePartsAreUsable' /\ (settled => Strict(parquet))' /\ Undisturbed'
  <2>1. Typed'
    BY <1>0 DEF Typed
  <2>2. ReadablePartsAreUsable' /\ (settled => Strict(parquet))' /\ Undisturbed'
    BY <1>0 DEF ReadablePartsAreUsable, Undisturbed, Strict
  <2> QED BY <2>1, <2>2
<1>2. ASSUME NEW rows \in Datasets, Prepare(rows) PROVE Working'
  <2>1. rows \in SUBSET Row
    BY DEF Row
  <2> QED BY <1>2, <2>1 DEF Prepare, Working, Preparing
<1>3. ASSUME NEW b \in Boundaries, Split(b) PROVE Working'
  <2> DEFINE rows == parquet["interim"]
             p == Parts(rows, b)
  <2>1. /\ rows \notin {Absent, Torn} /\ Valid(rows) /\ ValidSplits(p)
        /\ pending' = Both("train", p.train) \o Both("validation", p.validation)
                        \o Both("test", p.test)
        /\ pending = <<>> /\ UNCHANGED <<parquet, manifest, open, settled>>
    BY <1>3 DEF Split
  <2>2. rows \in SUBSET Row
    BY <2>1 DEF Typed, File, Content
  <2>3. /\ p \in [Part -> SUBSET Row] /\ Partition(p) /\ rows = UNION {p[q] : q \in Part}
    BY <2>1, <2>2, PartsAreSound
  <2>4. pending' = Rest(p, 0)
    BY <2>1, <2>3, AllWrites
  <2>5. open = FALSE
    <3>1. \A r \in SUBSET Row : ~Preparing(r)
      BY <2>1 DEF Preparing, Both, Manifest
    <3>2. \A q \in [Part -> SUBSET Row], k \in 0 .. 5 : ~Splitting(q, k)
      BY <2>1, RestFacts DEF Splitting
    <3> QED BY <3>1, <3>2 DEF Working, Idle
  <2> HIDE DEF p
  <2>6. parquet'["interim"] = UNION {p[q] : q \in Part}
    BY <2>1, <2>3
  <2>7. ASSUME NEW r, r \in [Part -> SUBSET Row], Partition(r), pending' = Rest(r, 0),
               parquet'["interim"] = UNION {r[q] : q \in Part}
        PROVE  Working'
    <3>1. Splitting(r, 0)'
      <4>1. \A j \in 1 .. 0 : Made(Writes(r)[j])'
        OBVIOUS
      <4>2. open' = FALSE
        BY <2>1, <2>5
      <4> QED BY <2>7, <4>1, <4>2 DEF Splitting
    <3> QED BY <2>7, <3>1 DEF Working
  <2> QED BY <2>3, <2>4, <2>6, <2>7
<1>4. CASE Crash
  <2>1. Idle'
    BY <1>4 DEF Crash, Idle
  <2> QED BY <1>1, <2>1 DEF Working
<1> QED BY <1>1, <1>2, <1>3, <1>4

\* A write begins or ends on a file of a preparation.
LEMMA InterimWrite ==
    ASSUME DInv, NEW rows \in SUBSET Row, Preparing(rows), Open \/ Close
    PROVE  DInv'
<1> USE DEF DInv
<1>1. PICK kind \in Kind : Head(pending) = <<"interim", kind, rows>> /\ pending # <<>>
                             /\ Tail(pending) = IF kind = "parquet" THEN Manifest(rows) ELSE <<>>
  <2>1. CASE pending = Both("interim", rows)
    <3>1. Head(pending) = <<"interim", "parquet", rows>> /\ pending # <<>>
      BY <2>1 DEF Both
    <3>2. Tail(pending) = Manifest(rows)
      BY <2>1 DEF Both, Manifest
    <3> QED BY <3>1, <3>2 DEF Kind
  <2>2. CASE pending = Manifest(rows)
    <3>1. Head(pending) = <<"interim", "manifest", rows>> /\ pending # <<>>
      BY <2>2 DEF Manifest
    <3>2. Tail(pending) = <<>>
      BY <2>2 DEF Manifest
    <3> QED BY <3>1, <3>2 DEF Kind
  <2> QED BY <2>1, <2>2 DEF Preparing
<1>2. \E v \in {Torn, rows} : Put("interim", kind, v)
  BY <1>1 DEF Open, Close
<1>3. /\ parquet' \in [File -> Content] /\ manifest' \in [File -> Content]
      /\ \A q \in Part : parquet'[q] = parquet[q]
  BY <1>2 DEF Put, Typed, Content, File, Part
<1>4. UNCHANGED <<training, seen, quiet, settled>> /\ open' \in BOOLEAN
  <2>1. Head(pending)[1] = "interim"
    BY <1>1
  <2>2. CASE Open
    BY <2>1, <2>2 DEF Open, run, Typed
  <2>3. CASE Close
    BY <2>1, <2>3 DEF Close, run, Typed
  <2> QED BY <2>2, <2>3
<1>5. Typed' /\ ReadablePartsAreUsable' /\ (settled => Strict(parquet))' /\ Undisturbed'
  BY <1>3, <1>4 DEF Typed, ReadablePartsAreUsable, Undisturbed, Strict, Part
<1>6. Working'
  <2>1. CASE Open
    BY <2>1 DEF Open, Working, Preparing
  <2>2. CASE Close
    <3>1. pending' = Tail(pending) /\ open' = FALSE
      BY <2>2 DEF Close
    <3>2. pending' = Manifest(rows) => Preparing(rows)'
      BY DEF Preparing
    <3>3. pending' = <<>> => Idle'
      BY <3>1 DEF Idle
    <3> QED BY <1>1, <3>1, <3>2, <3>3 DEF Working
  <2> QED BY <2>1, <2>2
<1> QED BY <1>5, <1>6

\* A write begins or ends on a file of a split.
LEMMA PartWrite ==
    ASSUME DInv, NEW p \in [Part -> SUBSET Row], NEW k \in 0 .. 5, Splitting(p, k), Open \/ Close
    PROVE  DInv' /\ Completes
<1> USE DEF DInv
<1> DEFINE w == Writes(p)[k + 1]
<1>1. /\ Head(pending) = w /\ pending # <<>> /\ Len(pending) = 6 - k
      /\ Tail(pending) = IF k = 5 THEN <<>> ELSE Rest(p, k + 1)
  BY RestFacts DEF Splitting
<1>2. w[1] \in Part /\ w[2] \in Kind /\ w[3] = p[w[1]] /\ w[1] \in File /\ w[1] # "interim"
  BY DEF Writes, Part, Kind, File
<1>3. \A j \in 1 .. k : Writes(p)[j][1] # w[1] \/ Writes(p)[j][2] # w[2]
  BY DEF Writes
<1>4. \A j \in 1 .. k : Writes(p)[j][1] \in File /\ Writes(p)[j][2] \in Kind
  BY DEF Writes, Part, Kind, File
<1>5. p[w[1]] \in SUBSET Row /\ Torn \in Content /\ p[w[1]] \in Content
  BY <1>2 DEF Content
<1> HIDE DEF w
<1>6. CASE Open
  <2>1. /\ Put(w[1], w[2], Torn) /\ open' = TRUE /\ settled' = FALSE
        /\ quiet' = (quiet /\ training \notin Part) /\ UNCHANGED <<pending, training, seen>>
    BY <1>1, <1>2, <1>6 DEF Open, run, Typed
  <2>2. /\ parquet' \in [File -> Content] /\ manifest' \in [File -> Content]
        /\ parquet'["interim"] = parquet["interim"]
        /\ \A q \in Part : parquet'[q] = parquet[q] \/ parquet'[q] = Torn
    BY <1>2, <1>5, <2>1 DEF Put, Typed, File, Part
  <2>3. Typed' /\ ReadablePartsAreUsable' /\ Undisturbed'
    <3>1. Typed'
      BY <2>1, <2>2 DEF Typed
    <3>2. ReadablePartsAreUsable'
      BY <2>2 DEF ReadablePartsAreUsable
    <3>3. Undisturbed'
      BY <2>1 DEF Undisturbed, Part, Strict
    <3> QED BY <3>1, <3>2, <3>3
  <2>4. ASSUME NEW j \in 1 .. k PROVE Made(Writes(p)[j])'
    <3>1. Made(Writes(p)[j])
      BY DEF Splitting
    <3> DEFINE u == Writes(p)[j]
    <3>2. u[1] \in File /\ u[2] \in Kind /\ (u[1] # w[1] \/ u[2] # w[2])
      BY <1>3, <1>4
    <3> HIDE DEF u
    <3>3. Made(u)
      BY <3>1 DEF u
    <3>4. Made(u)'
      BY <1>2, <2>1, <3>2, <3>3 DEF Made, Put, Typed, Kind
    <3> QED BY <3>4 DEF u, Made
  <2>5. Splitting(p, k)'
    BY <2>1, <2>2, <2>4 DEF Splitting
  <2> QED BY <2>1, <2>3, <2>5 DEF Working, Completes
<1>7. CASE Close
  <2>1. /\ Put(w[1], w[2], p[w[1]]) /\ open /\ open' = FALSE /\ pending' = Tail(pending)
        /\ settled' = (settled \/ k = 5) /\ UNCHANGED <<quiet, training, seen>> /\ ~settled
    BY <1>1, <1>2, <1>7 DEF Close, run, Splitting
  <2>2. /\ parquet' \in [File -> Content] /\ manifest' \in [File -> Content]
        /\ parquet'["interim"] = parquet["interim"]
        /\ \A q \in Part : parquet'[q] = parquet[q] \/ parquet'[q] = p[q]
    BY <1>2, <1>5, <2>1 DEF Put, Typed, File, Part
  <2>3. ASSUME NEW j \in 1 .. k + 1 PROVE Made(Writes(p)[j])'
    <3> DEFINE u == Writes(p)[j]
    <3>1. CASE j = k + 1
      <4>1. u = w
        BY <3>1 DEF w
      <4> HIDE DEF u
      <4>2. Made(w)'
        BY <1>2, <2>1 DEF Made, Put, Typed, Kind
      <4> QED BY <4>1, <4>2 DEF u, Made
    <3>2. CASE j \in 1 .. k
      <4>1. u[1] \in File /\ u[2] \in Kind /\ (u[1] # w[1] \/ u[2] # w[2])
        BY <1>3, <1>4, <3>2
      <4>2. Made(u)
        BY <3>2 DEF Splitting
      <4> HIDE DEF u
      <4>3. Made(u)'
        BY <1>2, <2>1, <4>1, <4>2 DEF Made, Put, Typed, Kind
      <4> QED BY <4>3 DEF u, Made
    <3> QED BY <3>1, <3>2
  <2>4. Typed' /\ ReadablePartsAreUsable'
    BY <2>1, <2>2 DEF Typed, ReadablePartsAreUsable, Splitting, Partition
  <2>5. k = 5 => \A q \in Part : parquet'[q] = p[q] /\ manifest'[q] = p[q]
    <3>1. SUFFICES ASSUME k = 5
                   PROVE  \A q \in Part : parquet'[q] = p[q] /\ manifest'[q] = p[q]
      OBVIOUS
    <3>2. /\ Made(<<"train", "parquet", p["train"]>>)'
          /\ Made(<<"train", "manifest", p["train"]>>)'
          /\ Made(<<"validation", "parquet", p["validation"]>>)'
          /\ Made(<<"validation", "manifest", p["validation"]>>)'
          /\ Made(<<"test", "parquet", p["test"]>>)'
          /\ Made(<<"test", "manifest", p["test"]>>)'
      BY <2>3, <3>1 DEF Writes
    <3> QED BY <3>2 DEF Made, Part
  <2>6. k = 5 => /\ Strict(parquet')
                 /\ UNION {parquet'[q] : q \in Part} = parquet'["interim"]
                 /\ \A q \in Part : manifest'[q] = parquet'[q]
    <3>1. k = 5 => Strict(parquet')
      BY <2>5 DEF Splitting, Partition, Strict, Part
    <3>2. k = 5 => {parquet'[q] : q \in Part} = {p[q] : q \in Part}
      BY <2>5
    <3> QED BY <2>2, <2>5, <3>1, <3>2 DEF Splitting
  <2>7. Undisturbed'
    BY <2>1 DEF Undisturbed, Strict
  <2>8. Working'
    <3>1. CASE k = 5
      BY <1>1, <2>1, <3>1 DEF Working, Idle
    <3>2. CASE k # 5
      <4>1. k + 1 \in 0 .. 5 /\ pending' = Rest(p, k + 1)
        BY <1>1, <2>1, <3>2
      <4>2. Splitting(p, k + 1)'
        BY <2>1, <2>2, <2>3, <3>2, <4>1 DEF Splitting
      <4> QED BY <4>1, <4>2 DEF Working
    <3> QED BY <3>1, <3>2
  <2>9. (settled => Strict(parquet))'
    BY <2>1, <2>6 DEF Strict
  <2> QED BY <2>1, <2>4, <2>6, <2>7, <2>8, <2>9 DEF Completes
<1> QED BY <1>6, <1>7

\* The training run only reads.
LEMMA TrainingStep ==
    ASSUME DInv, BeginTraining \/ ReadSplit \/ Train
    PROVE  DInv'
<1> USE DEF DInv
<1>1. UNCHANGED <<parquet, manifest, pending, open, settled>>
  BY DEF BeginTraining, ReadSplit, Train, data
<1>2. Working'
  BY <1>1 DEF Working, Idle, Preparing, Splitting, Made
<1>3. ReadablePartsAreUsable' /\ (settled => Strict(parquet))'
  BY <1>1 DEF ReadablePartsAreUsable, Strict
<1>4. CASE BeginTraining
  <2>1. Typed' /\ Undisturbed'
    BY <1>1, <1>4 DEF BeginTraining, Typed, Undisturbed, Content, Part
  <2> QED BY <1>2, <1>3, <2>1
<1>5. CASE Train
  <2>1. Typed' /\ Undisturbed'
    BY <1>1, <1>5 DEF Train, Typed, Undisturbed, Strict, Part
  <2> QED BY <1>2, <1>3, <2>1
<1>6. CASE ReadSplit
  <2>1. training \in Part /\ quiet' = quiet
    BY <1>6 DEF ReadSplit
  <2>2. CASE training' = "failed" /\ seen' = [p \in Part |-> Absent]
    <3>1. Typed' /\ Undisturbed'
      BY <1>1, <2>1, <2>2 DEF Typed, Undisturbed, Part, Content
    <3> QED BY <1>2, <1>3, <3>1
  <2>3. CASE training' = After[training] /\ seen' = [seen EXCEPT ![training] = parquet[training]]
    <3>1. Typed'
      BY <1>1, <2>1, <2>3 DEF Typed, Content, Part, File, After
    <3>2. Undisturbed'
      <4>1. CASE training = "train"
        BY <1>1, <2>1, <2>3, <4>1 DEF Typed, Undisturbed, Part, After
      <4>2. CASE training = "validation"
        BY <1>1, <2>1, <2>3, <4>2 DEF Typed, Undisturbed, Part, After
      <4>3. CASE training = "test"
        <5>1. quiet => /\ seen'["train"] = parquet["train"] /\ Strict(parquet)
                       /\ seen'["validation"] = parquet["validation"]
                       /\ seen'["test"] = parquet["test"]
          BY <2>3, <4>3 DEF Typed, Undisturbed, Part
        <5>2. training' = "fitting"
          BY <2>3, <4>3 DEF After
        <5> QED BY <2>1, <5>1, <5>2 DEF Undisturbed, Strict
      <4> QED BY <2>1, <4>1, <4>2, <4>3 DEF Part
    <3> QED BY <1>2, <1>3, <3>1, <3>2
  <2> QED BY <1>6, <2>2, <2>3 DEF ReadSplit
<1> QED BY <1>4, <1>5, <1>6

\* Every step keeps the invariant, and a split that completes leaves a strict
\* partition of the interim rows behind.
LEMMA DatasetStep ==
    ASSUME DInv, [DatasetNext]_vars
    PROVE  DInv' /\ Completes
<1>1. CASE \/ \E rows \in Datasets : Prepare(rows)
           \/ \E b \in Boundaries : Split(b)
           \/ Crash
  <2>1. settled' = settled
    BY <1>1 DEF Prepare, Split, Crash
  <2> QED BY <1>1, <2>1, CommandStep DEF Completes
<1>2. CASE Open \/ Close
  <2>1. pending # <<>> \/ open
    BY <1>2 DEF Open, Close
  <2>2. ASSUME NEW rows \in SUBSET Row, Preparing(rows)
        PROVE  DInv' /\ (settled' => settled)
    <3>1. Head(pending)[1] = "interim"
      BY <2>2 DEF Preparing, Both, Manifest
    <3> QED BY <1>2, <2>2, <3>1, InterimWrite DEF Open, Close, DInv, Typed
  <2>3. CASE \E rows \in SUBSET Row : Preparing(rows)
    BY <2>2, <2>3 DEF Completes
  <2>4. CASE \E p \in [Part -> SUBSET Row], k \in 0 .. 5 : Splitting(p, k)
    BY <1>2, <2>4, PartWrite
  <2>5. ~Idle
    BY <2>1 DEF Idle
  <2> QED BY <2>3, <2>4, <2>5 DEF DInv, Working
<1>3. CASE BeginTraining \/ ReadSplit \/ Train
  <2>1. settled' = settled
    BY <1>3 DEF BeginTraining, ReadSplit, Train
  <2> QED BY <1>3, <2>1, TrainingStep DEF Completes
<1>4. CASE UNCHANGED vars
  <2> USE <1>4 DEF vars
  <2>1. Working'
    BY DEF DInv, Working, Idle, Preparing, Splitting, Made
  <2> QED BY <2>1 DEF DInv, Typed, ReadablePartsAreUsable, Undisturbed, Strict, Completes
<1> QED BY <1>1, <1>2, <1>3, <1>4 DEF DatasetNext

\* The inductive invariant of the data commands and the training run.
THEOREM DatasetInvariant == DatasetSpec => []DInv
  BY DatasetInitially, DatasetStep, PTL DEF DatasetSpec

\* The files, the commands and the run keep their types.
THEOREM DatasetTypes == DatasetSpec => []DatasetTypeOK
<1>1. DInv => DatasetTypeOK
  BY PendingTyped DEF DInv, Typed, DatasetTypeOK, Kind
<1> QED BY <1>1, DatasetInvariant, PTL

\* A part that can be read is never empty, and its rows are valid.
THEOREM PartsAreUsable == DatasetSpec => []ReadablePartsAreUsable
  BY DatasetInvariant, PTL DEF DInv

\* A run no split disturbs learns nothing from what it is evaluated on.
THEOREM QuietRunsDoNotLeak == DatasetSpec => []NoLeakWhenQuiet
<1>1. DInv => NoLeakWhenQuiet
  BY DEF DInv, Undisturbed, NoLeakWhenQuiet
<1> QED BY <1>1, DatasetInvariant, PTL

\* A completed split is a strict partition, whatever was killed before it.
THEOREM CompletedSplitsPartition == DatasetSpec => CompletedSplit
<1>1. DInv /\ [DatasetNext]_vars => [Completes]_vars
  BY DatasetStep
<1>2. [Completes]_vars <=>
        [settled' /\ ~settled =>
            /\ Strict(parquet')
            /\ UNION {parquet'[p] : p \in Part} = parquet'["interim"]
            /\ \A p \in Part : manifest'[p] = parquet'[p]]_vars
  BY DEF Completes
<1> QED BY <1>1, <1>2, DatasetInvariant, PTL DEF DatasetSpec, CompletedSplit
=============================================================================
