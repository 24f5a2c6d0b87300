------------------------------ MODULE Simulator ------------------------------
(***************************************************************************)
(* The transaction simulator: calls of TransactionSimulator.generate on    *)
(* one simulator (simulation/generator.py), each of which builds its rows  *)
(* one by one and returns them all or raises, and the command that then    *)
(* writes them to a JSONL file and may be killed.                          *)
(*                                                                         *)
(* Customers and merchants are their index; countries and categories go    *)
(* round in fives (simulation/profiles.py).  An amount is a number of      *)
(* dimes, a random one either end of its range.  A file is the rows it     *)
(* holds whole.                                                            *)
(***************************************************************************)
EXTENDS Integers, Sequences, FiniteSets

CONSTANTS
    Configurations, \* [customers, merchants, typical_amount_max, valid] records; valid says
                    \* that TransactionRequest takes the currency and ids of that seed
    Totals,         \* how many transactions a call may ask for
    MaxCalls        \* bound on the calls

ASSUME SimulatorAssumption ==
    /\ \A x \in Configurations :
          /\ x.customers \in Nat /\ x.merchants \in Nat
          /\ x.typical_amount_max \in 1000 .. 3000 /\ x.valid \in BOOLEAN
    /\ Totals \subseteq 1 .. 2491 /\ MaxCalls \in Nat

VARIABLES
    config,   \* the configuration, accepted by SimulationConfig
    sequence, \* _sequence
    scenario, \* the scenario of the call that runs, or of the last one
    total,    \* how many transactions it was asked for
    phase,    \* "idle", "building", "returned", "raised", "writing"
    out,      \* the rows built so far
    issued,   \* history: the ids of all rows returned by earlier calls
    calls,    \* history: how many calls began
    file,     \* the rows of the JSONL file
    given     \* history: the rows the command that last opened it was to write
vars == <<config, sequence, scenario, total, phase, out, issued, calls, file, given>>

\* mutant of Fixed: the indices count from one
FixedFromOne == [CARD_TESTING |-> 1, HIGH_VELOCITY |-> 2, ACCOUNT_TAKEOVER |-> 3,
                 IMPOSSIBLE_TRAVEL |-> 4, NEW_DEVICE_HIGH_VALUE |-> 5]

\* Scenarios with one customer and one merchant, both of this index.
Fixed == [CARD_TESTING |-> 0, HIGH_VELOCITY |-> 1, ACCOUNT_TAKEOVER |-> 2,
          IMPOSSIBLE_TRAVEL |-> 3, NEW_DEVICE_HIGH_VALUE |-> 4]

\* offset_seconds between two rows
Interval ==
    [NORMAL |-> 3600, CARD_TESTING |-> 20, HIGH_VELOCITY |-> 5, ACCOUNT_TAKEOVER |-> 120,
     IMPOSSIBLE_TRAVEL |-> 300, NEW_DEVICE_HIGH_VALUE |-> 600,
     SHARED_DEVICE_FRAUD |-> 90, FRAUD_RING |-> 60]
Scenario == DOMAIN Interval

\* SimulationConfig.__post_init__
Accepted(x) == x.customers >= 3 /\ x.merchants >= 3

Init ==
    /\ config \in {x \in Configurations : Accepted(x)}
    /\ sequence = 0
    /\ scenario = "NORMAL" /\ total = 0 /\ phase = "idle" /\ out = <<>>
    /\ issued = {} /\ calls = 0
    /\ file = <<>> /\ given = <<>>

---------------------------------------------------------------------------
Country(i) == i % 5
UsualCategories(c) == {c % 5, (c + 1) % 5}

\* The first country that is not the customer's.
Foreign(c) == IF Country(c) = 0 THEN 1 ELSE 0

Customer(s, i) ==
    CASE s \in DOMAIN Fixed -> Fixed[s]
      [] s = "FRAUD_RING"   -> i % 3
      [] OTHER              -> i % config.customers

\* The merchants the code may take; NORMAL takes the first of them.
Choices(s, i) ==
    CASE s \in DOMAIN Fixed -> {Fixed[s]}
      [] s = "FRAUD_RING"   -> {i % 3}
      [] s = "NORMAL"       -> {m \in 0 .. config.merchants - 1 :
                                   m % 5 \in UsualCategories(Customer(s, i))}
      [] OTHER              -> {i % config.merchants}
Merchant(s, i) == CHOOSE m \in Choices(s, i) : \A k \in Choices(s, i) : m <= k

\* Neither an index out of range nor an exhausted next().
Buildable(s, i) ==
    /\ Customer(s, i) < config.customers
    /\ \E m \in Choices(s, i) : m < config.merchants

\* A customer's own two devices are <<customer, 0>> and <<customer, 1>>.
Device(s, i) ==
    CASE s = "NORMAL"     -> <<Customer(s, i), i % 2>>
      [] s = "FRAUD_RING" -> <<s, i % 2>>
      [] OTHER            -> <<s, 0>>

\* mutant of Amounts: the large attempt comes one row early
AmountsEarly(s, i) ==
    LET max == config.typical_amount_max
    IN  CASE s = "NORMAL"       -> {50, max}
          [] s = "CARD_TESTING" -> {IF i = total - 2 THEN 2500 ELSE 10 + i}
          [] OTHER              -> {max, 3 * max}

Amounts(s, i) ==
    LET max == config.typical_amount_max
    IN  CASE s = "NORMAL"                -> {50, max}
          [] s = "CARD_TESTING"          -> {IF i = total - 1 THEN 2500 ELSE 10 + i}
          [] s = "HIGH_VELOCITY"         -> {250}
          [] s = "ACCOUNT_TAKEOVER"      -> {max, 3 * max}
          [] s = "IMPOSSIBLE_TRAVEL"     -> {800}
          [] s = "NEW_DEVICE_HIGH_VALUE" -> {4 * max}
          [] s = "SHARED_DEVICE_FRAUD"   -> {1250}
          [] s = "FRAUD_RING"            -> {3000}

CountryOf(s, i) ==
    LET c == Customer(s, i)
    IN  CASE s = "ACCOUNT_TAKEOVER"                -> Foreign(c)
          [] s = "IMPOSSIBLE_TRAVEL" /\ i % 2 = 1 -> Foreign(c)
          [] s = "FRAUD_RING"                      -> Country(Merchant(s, i))
          [] OTHER                                 -> Country(c)

\* _build, with the sequence number it has just taken.
Row(s, i, amount) ==
    [id       |-> sequence + 1,
     customer |-> Customer(s, i),
     merchant |-> Merchant(s, i),
     device   |-> Device(s, i),
     amount   |-> amount,
     time     |-> i * Interval[s],
     country  |-> CountryOf(s, i),
     fraud    |-> s # "NORMAL"]

Generate(s, n) ==
    /\ phase \in {"idle", "returned", "raised"} /\ calls < MaxCalls
    /\ scenario' = s /\ total' = n
    /\ phase' = "building" /\ out' = <<>>
    /\ issued' = issued \cup (IF phase = "returned" THEN {out[k].id : k \in DOMAIN out} ELSE {})
    /\ calls' = calls + 1
    /\ UNCHANGED <<config, sequence, file, given>>

\* mutant of Build: ids are numbered within their call
BuildFromOne ==
    LET i == Len(out)
    IN  /\ phase = "building" /\ i < total /\ Buildable(scenario, i) /\ config.valid
        /\ sequence' = i + 1
        /\ \E a \in Amounts(scenario, i) :
              out' = Append(out, [Row(scenario, i, a) EXCEPT !.id = i + 1])
        /\ UNCHANGED <<config, scenario, total, phase, issued, calls, file, given>>

Build ==
    LET i == Len(out)
    IN  /\ phase = "building" /\ i < total /\ Buildable(scenario, i) /\ config.valid
        /\ sequence' = sequence + 1
        /\ \E a \in Amounts(scenario, i) : out' = Append(out, Row(scenario, i, a))
        /\ UNCHANGED <<config, scenario, total, phase, issued, calls, file, given>>

\* IndexError, or the RuntimeError that StopIteration becomes, before a number is
\* taken; or the ValidationError of TransactionRequest, after.  The rows built so
\* far are lost, their numbers are spent.
Raise ==
    /\ phase = "building" /\ Len(out) < total
    /\ \/ ~Buildable(scenario, Len(out)) /\ sequence' = sequence
       \/ /\ Buildable(scenario, Len(out)) /\ ~config.valid
          /\ sequence' = sequence + 1
    /\ phase' = "raised" /\ out' = <<>>
    /\ UNCHANGED <<config, scenario, total, issued, calls, file, given>>

Return ==
    /\ phase = "building" /\ Len(out) = total
    /\ phase' = "returned"
    /\ UNCHANGED <<config, sequence, scenario, total, out, issued, calls, file, given>>

\* mutant of OpenFile: the file is opened to append
OpenFileAppending ==
    /\ phase = "returned"
    /\ phase' = "writing" /\ given' = out
    /\ UNCHANGED <<config, sequence, scenario, total, out, issued, calls, file>>

\* write_transactions_jsonl empties the file ...
OpenFile ==
    /\ phase = "returned"
    /\ phase' = "writing" /\ given' = out /\ file' = <<>>
    /\ UNCHANGED <<config, sequence, scenario, total, out, issued, calls>>

\* ... writes a line for each row, and may be killed before any of them.
WriteLine ==
    /\ phase = "writing" /\ Len(file) < Len(out)
    /\ file' = Append(file, out[Len(file) + 1])
    /\ UNCHANGED <<config, sequence, scenario, total, phase, out, issued, calls, given>>

\* The command is over, or killed at any point, and another one starts afresh: a new
\* simulator with the same seed, on the same file.
Restart ==
    /\ phase # "idle"
    /\ phase' = "idle" /\ out' = <<>> /\ sequence' = 0 /\ issued' = {}
    /\ UNCHANGED <<config, scenario, total, calls, file, given>>

Next ==
    \/ \E s \in Scenario, n \in Totals : Generate(s, n)
    \/ Build \/ Raise \/ Return \/ OpenFile \/ WriteLine \/ Restart

Spec == Init /\ [][Next]_vars

---------------------------------------------------------------------------
\* Ids never repeat within a simulator, across its calls and past those that
\* raised after taking numbers, and rise with event time within a call.
IdsNeverRepeat ==
    \A i \in DOMAIN out :
        /\ out[i].id <= sequence /\ out[i].id \notin issued
        /\ \A j \in 1 .. i - 1 : out[j].id < out[i].id /\ out[j].time < out[i].time

\* What makes each scenario what it is called, over a whole call of at most 2491
\* transactions, after which the low amounts of card testing reach the large one
\* (tests/simulation/test_simulator.py says the same of one configuration):
\* card testing ends with its one large attempt; travel changes country with
\* every row; a takeover costs at least what its customer ever spends; a ring
\* of six rows or more puts each of its customers on each of its devices; high
\* velocity is one customer on one device; a new device costs more than its
\* customer ever spends; a shared device is one, and meets every customer once
\* there is a row for each.
ScenariosKeepTheirShape ==
    phase = "returned" =>
        CASE scenario = "CARD_TESTING" ->
                \A i \in 1 .. total - 1 : out[i].amount < out[total].amount
          [] scenario = "IMPOSSIBLE_TRAVEL" ->
                \A i \in 1 .. total - 1 : out[i].country # out[i + 1].country
          [] scenario = "ACCOUNT_TAKEOVER" ->
                \A r \in {out[i] : i \in DOMAIN out} :
                    /\ r.country # Country(r.customer)
                    /\ \A spent \in {50, config.typical_amount_max} : spent <= r.amount
          [] scenario = "FRAUD_RING" ->
                total >= 6 =>
                    \A r, q \in {out[i] : i \in DOMAIN out} :
                        \E i \in DOMAIN out :
                            out[i].customer = r.customer /\ out[i].device = q.device
          [] scenario = "NORMAL" ->
                \A r \in {out[i] : i \in DOMAIN out} :
                    /\ r.merchant % 5 \in UsualCategories(r.customer)
                    /\ r.country = Country(r.customer) /\ r.device[1] = r.customer
          [] scenario = "HIGH_VELOCITY" ->
                \A i \in 1 .. total : /\ out[i].customer = out[1].customer
                                       /\ out[i].device = out[1].device
          [] scenario = "NEW_DEVICE_HIGH_VALUE" ->
                \A i \in 1 .. total : config.typical_amount_max < out[i].amount
          [] scenario = "SHARED_DEVICE_FRAUD" ->
                /\ \A i \in 1 .. total : out[i].device = out[1].device
                /\ total >= config.customers =>
                       \A c \in 0 .. config.customers - 1 :
                           \E i \in 1 .. total : out[i].customer = c

\* The file holds an initial part of what one call returned, however the
\* command ended; a call that raises has not touched it.
FileIsOneCall ==
    Len(file) <= Len(given) /\ \A i \in DOMAIN file : file[i] = given[i]

\* Sizes: with five customers and five merchants no scenario can run out of
\* them, and only a currency or a seed that TransactionRequest refuses can make
\* it raise.
FiveSuffice ==
    phase = "raised" => config.customers < 5 \/ config.merchants < 5 \/ ~config.valid
=============================================================================
