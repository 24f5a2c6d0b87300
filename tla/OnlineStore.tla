---------------------------- MODULE OnlineStore ----------------------------
(***************************************************************************)
(* The Redis keyspace of online snapshots, and the jobs that fill it.      *)
(*                                                                         *)
(* A key is a side ("customer" or "merchant") and an entity id; its value  *)
(* is one JSON snapshot.  features/online/backfill.py replays the history  *)
(* up to a cutoff and SETs one snapshot per entity in a pipeline that is   *)
(* not a transaction, so readers and other writers run between two SETs    *)
(* and a lost connection leaves the keyspace half written.  Redis deletes  *)
(* a key when its TTL has passed.                                          *)
(*                                                                         *)
(* Time is counted in the unit of feature_max_age_seconds and of the TTL.  *)
(***************************************************************************)
EXTENDS Integers, FiniteSets

CONSTANTS
    Customers,       \* customer ids
    Merchants,       \* merchant ids; the same id may be in both
    NoSnapshot,      \* what GET returns for an absent key
    Jobs,            \* runs of backfill_redis
    Cutoff,          \* the cutoff each job is called with
    FirstSeen,       \* event time of the first historical row of each key
    ForeignPayloads, \* values a writer other than backfill.py may leave
    TTL,             \* ttl_seconds
    MaxNow           \* bound on the clock

Side    == {"customer", "merchant"}
Ids     == Customers \cup Merchants
Key     == ({"customer"} \X Customers) \cup ({"merchant"} \X Merchants)

\* OnlineSnapshot as _parse can tell it apart: does model_validate_json
\* accept it, whose is it, when was it computed, and for which sides does it
\* hold every required feature.
Payload == [valid : BOOLEAN, entity : Ids, stamp : Nat, features : SUBSET Side]
Reply   == Payload \cup {NoSnapshot}

ASSUME StoreAssumption ==
    /\ NoSnapshot \notin Payload
    /\ Cutoff \in [Jobs -> Nat]
    /\ FirstSeen \in [Key -> Nat]
    /\ ForeignPayloads \subseteq Payload
    /\ TTL \in Nat \ {0}
    /\ MaxNow \in Nat

VARIABLES
    now,     \* the wall clock, datetime.now(UTC)
    store,   \* the value of each key, or NoSnapshot
    expiry,  \* the time at which Redis deletes the key
    todo     \* per job, the keys its pipeline has still to SET
storeVars == <<now, store, expiry, todo>>

---------------------------------------------------------------------------
\* Entities with a row strictly before the cutoff: the replay stops at the
\* first row at or after it, so nobody else gets a snapshot.
SnapshotsBefore(c) == {k \in Key : FirstSeen[k] < c}

SnapshotOf(k, c) ==
    [valid |-> TRUE, entity |-> k[2], stamp |-> c, features |-> {k[1]}]

\* Keys written without a TTL outlive the model's clock.
Never == MaxNow + 1

StoreTypeOK ==
    /\ now \in 0 .. MaxNow
    /\ store \in [Key -> Reply]
    /\ expiry \in [Key -> Nat]
    /\ todo \in [Jobs -> SUBSET Key]

StoreInit ==
    /\ now = 0
    /\ store = [k \in Key |-> NoSnapshot]
    /\ expiry = [k \in Key |-> 0]
    /\ todo = [b \in Jobs |-> SnapshotsBefore(Cutoff[b])]

\* Time passes; Redis drops what has reached its TTL.
Tick ==
    /\ now < MaxNow
    /\ now' = now + 1
    /\ store' = [k \in Key |-> IF expiry[k] <= now' THEN NoSnapshot ELSE store[k]]
    /\ expiry' = [k \in Key |-> IF expiry[k] <= now' THEN 0 ELSE expiry[k]]
    /\ UNCHANGED todo

\* The server executes the next SET of a job's pipeline: every customer
\* before any merchant.
BackfillSet(b, k) ==
    /\ k \in todo[b]
    /\ k[1] = "merchant" => \A j \in todo[b] : j[1] = "merchant"
    /\ store' = [store EXCEPT ![k] = SnapshotOf(k, Cutoff[b])]
    /\ expiry' = [expiry EXCEPT ![k] = now + TTL]
    /\ todo' = [todo EXCEPT ![b] = @ \ {k}]
    /\ UNCHANGED now

\* The connection is lost: SETs already executed stay, the others never run,
\* and execute() raises out of backfill_redis.
BackfillFail(b) ==
    /\ todo[b] # {}
    /\ todo' = [todo EXCEPT ![b] = {}]
    /\ UNCHANGED <<now, store, expiry>>

\* Somebody else writes a snapshot key (no TTL): what _parse has to survive.
ForeignWrite(k, p) ==
    /\ store' = [store EXCEPT ![k] = p]
    /\ expiry' = [expiry EXCEPT ![k] = Never]
    /\ UNCHANGED <<now, todo>>

StoreStep ==
    \/ Tick
    \/ \E b \in Jobs, k \in Key : BackfillSet(b, k)
    \/ \E b \in Jobs : BackfillFail(b)
    \/ \E k \in Key, p \in ForeignPayloads : ForeignWrite(k, p)
=============================================================================
