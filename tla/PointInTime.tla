----------------------------- MODULE PointInTime -----------------------------
(***************************************************************************)
(* The two implementations of the history features, replayed on the same   *)
(* transactions: features/offline/historical.py, which produces training   *)
(* rows, and snapshots_before in features/online/backfill.py, which        *)
(* produces the snapshot a scoring request would see.  One transaction is  *)
(* the target: the request is for it, and arrives lag after the cutoff of  *)
(* the snapshot, which is accepted for as long as its age allows.          *)
(*                                                                         *)
(* Both run over the rows in (event_time, transaction_id) order and keep   *)
(* one accumulator per customer and per merchant.  Averages and standard   *)
(* deviations are functions of count, total and total_squares, so the      *)
(* accumulators stand for the features.                                    *)
(***************************************************************************)
EXTENDS Naturals, FiniteSets, FiniteSetsExt

CONSTANTS
    TxIds,     \* transaction ids, ordered as naturals
    Contents,  \* what a row may hold: customer, merchant, time, amount, fraud
    NoTime,    \* prior_time before the first row
    MaxLag     \* the oldest snapshot served: feature_max_age_seconds

Customers == {x.customer : x \in Contents}
Merchants == {x.merchant : x \in Contents}

ASSUME ReplayAssumption ==
    /\ TxIds \subseteq Nat /\ IsFiniteSet(TxIds) /\ TxIds # {}
    /\ \A x \in Contents : x.time \in Nat /\ x.amount \in Nat /\ x.fraud \in {0, 1}
    /\ NoTime \notin Nat /\ MaxLag \in Nat

VARIABLES
    rows,     \* the history
    target,   \* the transaction whose features are compared
    lag,      \* how long before it the snapshot was taken
    left,     \* rows the offline replay has not come to
    customer, \* its accumulators
    merchant,
    output,   \* the training rows it has produced
    onLeft,   \* the same for the online replay
    onCustomer,
    onMerchant
vars == <<rows, target, lag, left, customer, merchant, output, onLeft, onCustomer, onMerchant>>

Zero == [count |-> 0, total |-> 0, squares |-> 0, maximum |-> 0, prior |-> NoTime, frauds |-> 0]
NoRow == [customer |-> Zero, merchant |-> Zero, elapsed |-> 0]

Init ==
    /\ rows \in [TxIds -> Contents]
    /\ target \in TxIds
    /\ lag \in {l \in 0 .. MaxLag : l <= rows[target].time}
    /\ left = TxIds
    /\ customer = [c \in Customers |-> Zero]
    /\ merchant = [m \in Merchants |-> Zero]
    /\ output = [i \in TxIds |-> NoRow]
    /\ onLeft = TxIds
    /\ onCustomer = [c \in Customers |-> Zero]
    /\ onMerchant = [m \in Merchants |-> Zero]

---------------------------------------------------------------------------
\* The sort key of both replays.
Before(i, j) ==
    \/ rows[i].time < rows[j].time
    \/ rows[i].time = rows[j].time /\ i < j

First(S) == CHOOSE i \in S : \A j \in S \ {i} : Before(i, j)

\* mutant of Updated: the maximum of the last two amounts
UpdatedLastMaximum(state, row) ==
    [count   |-> state.count + 1,
     total   |-> state.total + row.amount,
     squares |-> state.squares + row.amount * row.amount,
     maximum |-> row.amount,
     prior   |-> row.time,
     frauds  |-> state.frauds + row.fraud]

\* _AmountState.update, and _State.update but for the fraud count.
Updated(state, row) ==
    [count   |-> state.count + 1,
     total   |-> state.total + row.amount,
     squares |-> state.squares + row.amount * row.amount,
     maximum |-> IF row.amount > state.maximum THEN row.amount ELSE state.maximum,
     prior   |-> row.time,
     frauds  |-> state.frauds + row.fraud]

\* Seconds since the customer's previous transaction, 0 before the first.
Elapsed(state, time) == IF state.prior = NoTime THEN 0 ELSE time - state.prior

\* mutant of OfflineRow: the row is added before it is described
OfflineRowAfter ==
    LET i == First(left)
        r == rows[i]
    IN  /\ left # {}
        /\ left' = left \ {i}
        /\ customer' = [customer EXCEPT ![r.customer] = Updated(@, r)]
        /\ merchant' = [merchant EXCEPT ![r.merchant] = Updated(@, r)]
        /\ output' = [output EXCEPT ![i] =
                         [customer |-> customer'[r.customer],
                          merchant |-> merchant'[r.merchant],
                          elapsed  |-> Elapsed(customer'[r.customer], r.time)]]
        /\ UNCHANGED <<rows, target, lag, onLeft, onCustomer, onMerchant>>

\* One turn of the offline loop: describe the row by the state before it,
\* then add it to the state.
OfflineRow ==
    LET i == First(left)
        r == rows[i]
    IN  /\ left # {}
        /\ left' = left \ {i}
        /\ output' = [output EXCEPT ![i] =
                         [customer |-> customer[r.customer],
                          merchant |-> merchant[r.merchant],
                          elapsed  |-> Elapsed(customer[r.customer], r.time)]]
        /\ customer' = [customer EXCEPT ![r.customer] = Updated(@, r)]
        /\ merchant' = [merchant EXCEPT ![r.merchant] = Updated(@, r)]
        /\ UNCHANGED <<rows, target, lag, onLeft, onCustomer, onMerchant>>

Cutoff == rows[target].time - lag

\* mutant of OnlineRow: the cutoff is taken as inclusive
OnlineRowInclusive ==
    LET r == rows[First(onLeft)]
    IN  /\ left = {} /\ onLeft # {}
        /\ IF r.time > Cutoff
           THEN onLeft' = {} /\ UNCHANGED <<onCustomer, onMerchant>>
           ELSE /\ onLeft' = onLeft \ {First(onLeft)}
                /\ onCustomer' = [onCustomer EXCEPT ![r.customer] = Updated(@, r)]
                /\ onMerchant' = [onMerchant EXCEPT ![r.merchant] = Updated(@, r)]
        /\ UNCHANGED <<rows, target, lag, left, customer, merchant, output>>

\* One turn of the online loop, which breaks at the first row at the cutoff.
\* (The two replays share nothing; running them in turn loses nothing.)
OnlineRow ==
    LET r == rows[First(onLeft)]
    IN  /\ left = {} /\ onLeft # {}
        /\ IF r.time >= Cutoff
           THEN onLeft' = {} /\ UNCHANGED <<onCustomer, onMerchant>>
           ELSE /\ onLeft' = onLeft \ {First(onLeft)}
                /\ onCustomer' = [onCustomer EXCEPT ![r.customer] = Updated(@, r)]
                /\ onMerchant' = [onMerchant EXCEPT ![r.merchant] = Updated(@, r)]
        /\ UNCHANGED <<rows, target, lag, left, customer, merchant, output>>

Replayed == left = {} /\ onLeft = {}

Next == OfflineRow \/ OnlineRow \/ (Replayed /\ UNCHANGED vars)

Spec == Init /\ [][Next]_vars

---------------------------------------------------------------------------
\* The reference: what a set of rows amounts to, without replaying it.
Amount == [i \in TxIds |-> rows[i].amount]
Square == [i \in TxIds |-> rows[i].amount * rows[i].amount]
Fraud  == [i \in TxIds |-> rows[i].fraud]
Aggregate(S) ==
    [count   |-> Cardinality(S),
     total   |-> SumFunctionOnSet(Amount, S),
     squares |-> SumFunctionOnSet(Square, S),
     maximum |-> IF S = {} THEN 0 ELSE Max({rows[i].amount : i \in S}),
     prior   |-> IF S = {} THEN NoTime ELSE Max({rows[i].time : i \in S}),
     frauds  |-> SumFunctionOnSet(Fraud, S)]

\* A training row knows its customer's and merchant's rows that come strictly
\* before it, all of them, and neither itself nor anything later.
NoLookahead ==
    \A i \in TxIds \ left :
        /\ output[i].customer =
             Aggregate({j \in TxIds : Before(j, i) /\ rows[j].customer = rows[i].customer})
        /\ output[i].merchant =
             Aggregate({j \in TxIds : Before(j, i) /\ rows[j].merchant = rows[i].merchant})

\* A snapshot holds the rows strictly before its cutoff, all of them, though
\* the replay stops at the first one at or after it.
SnapshotIsHistory ==
    Replayed =>
        /\ \A c \in Customers : onCustomer[c] =
             Aggregate({j \in TxIds : rows[j].time < Cutoff /\ rows[j].customer = c})
        /\ \A m \in Merchants : onMerchant[m] =
             Aggregate({j \in TxIds : rows[j].time < Cutoff /\ rows[j].merchant = m})

\* What the request sees, where both snapshots exist, against what training
\* saw for it, the elapsed time apart; the online contract leaves the fraud
\* counts out.
BothThere == onCustomer[rows[target].customer].count > 0 /\ onMerchant[rows[target].merchant].count > 0
SameHistory ==
    LET seen == onCustomer[rows[target].customer]
        shop == onMerchant[rows[target].merchant]
        off  == output[target]
    IN  BothThere =>
            /\ [seen EXCEPT !.frauds = 0] = [off.customer EXCEPT !.frauds = 0]
            /\ shop.count = off.merchant.count /\ shop.total = off.merchant.total

\* seconds_since_previous_transaction, as frozen in the snapshot.
SameElapsed(shift) ==
    BothThere =>
        Elapsed(onCustomer[rows[target].customer], Cutoff) + shift = output[target].elapsed

\* No other row of the customer or the merchant from the cutoff to the target.
NothingSinceCutoff ==
    \A j \in TxIds \ {target} :
        rows[j].time \in Cutoff .. rows[target].time =>
            /\ rows[j].customer # rows[target].customer
            /\ rows[j].merchant # rows[target].merchant

\* Online and offline features agree for every transaction before which
\* nothing happened since the cutoff, except that the elapsed time is short by
\* the age of the snapshot.
ParityUpToTheAge ==
    Replayed /\ NothingSinceCutoff => SameHistory /\ SameElapsed(lag)
=============================================================================
