---------------------------- MODULE SimulatorProofs ----------------------------
(***************************************************************************)
(* Proofs about the simulator, for every accepted configuration and any    *)
(* number of calls: ids never repeat, five customers and five merchants    *)
(* are enough for every scenario, and the file is the start of one call.   *)
(***************************************************************************)
EXTENDS Simulator, FiniteSetTheorems, WellFoundedInduction, TLAPS

\* Whatever its elements are.
IsSequence(s) == \E S : s \in Seq(S)

\* Types: the configuration was accepted, and all numbers are natural.
Typed ==
    /\ config \in Configurations /\ Accepted(config)
    /\ sequence \in Nat /\ total \in Nat
    /\ scenario \in Scenario
    /\ phase \in {"idle", "building", "returned", "raised", "writing"}
    /\ IsSequence(out) /\ IsSequence(file) /\ IsSequence(given)

\* A row's time is its place in the call, and its id is not larger than the
\* last one taken; nor is any issued before, and those are all smaller than
\* the ids of the call.
Numbered ==
    /\ \A x \in issued : x \in Nat /\ x <= sequence
    /\ \A i \in 1 .. Len(out) :
          /\ out[i].id \in Nat /\ out[i].id <= sequence /\ out[i].id \notin issued
          /\ out[i].time = (i - 1) * Interval[scenario]
          /\ \A j \in 1 .. i - 1 : out[j].id < out[i].id

\* A file is written from the rows that were returned.
Written == phase = "writing" => given = out

\* The inductive invariant, two of the properties included.
SInv == Typed /\ Numbered /\ Written /\ FileIsOneCall /\ FiveSuffice

---------------------------------------------------------------------------
\* One row more leaves the others in place.
LEMMA Appended ==
    ASSUME NEW s, IsSequence(s), NEW x
    PROVE  /\ IsSequence(Append(s, x)) /\ Len(s) \in Nat /\ Len(Append(s, x)) = Len(s) + 1
           /\ \A i \in 1 .. Len(s) : Append(s, x)[i] = s[i]
           /\ Append(s, x)[Len(s) + 1] = x
<1>1. PICK S : s \in Seq(S)
  BY DEF IsSequence
<1>2. s \in Seq(S \cup {x}) /\ x \in S \cup {x}
  BY <1>1
<1>3. Append(s, x) \in Seq(S \cup {x})
  BY <1>2
<1> QED BY <1>2, <1>3 DEF IsSequence

LEMMA Emptied == IsSequence(<<>>) /\ Len(<<>>) = 0
<1>1. <<>> \in Seq({})
  OBVIOUS
<1> QED BY <1>1 DEF IsSequence

\* An index taken modulo five, or three, or the number of customers or
\* merchants, is one there is.
LEMMA FiveBuildable ==
    ASSUME Typed, config.customers >= 5, config.merchants >= 5, NEW i \in Nat
    PROVE  Buildable(scenario, i)
<1>1. config.customers \in Nat /\ config.merchants \in Nat
  BY SimulatorAssumption DEF Typed
<1> DEFINE c == config.customers
           m == config.merchants
<1>2. i % c \in 0 .. c - 1 /\ i % m \in 0 .. m - 1 /\ i % 3 \in 0 .. 2
  BY <1>1
<1>3. CASE scenario \in DOMAIN Fixed
  <2>1. Fixed[scenario] \in 0 .. 4
    BY <1>3 DEF Fixed
  <2>2. scenario \notin {"FRAUD_RING", "NORMAL"}
    BY <1>3 DEF Fixed
  <2>3. Customer(scenario, i) = Fixed[scenario] /\ Choices(scenario, i) = {Fixed[scenario]}
    BY <1>3, <2>2 DEF Customer, Choices
  <2> QED BY <1>1, <2>1, <2>3 DEF Buildable
<1>4. CASE scenario = "FRAUD_RING"
  BY <1>1, <1>2, <1>4 DEF Buildable, Customer, Choices, Fixed
<1>5. CASE scenario = "NORMAL"
  <2>1. Customer(scenario, i) = i % c
    BY <1>5 DEF Customer, Fixed
  <2>2. (i % c) % 5 \in 0 .. 4 /\ ((i % c) % 5) % 5 = (i % c) % 5
    BY <1>2
  <2>3. (i % c) % 5 \in Choices(scenario, i)
    BY <1>1, <1>5, <2>1, <2>2 DEF Choices, Fixed, UsualCategories
  <2> QED BY <1>1, <1>2, <2>1, <2>2, <2>3 DEF Buildable
<1>6. CASE scenario = "SHARED_DEVICE_FRAUD"
  BY <1>1, <1>2, <1>6 DEF Buildable, Customer, Choices, Fixed
<1>7. scenario \in DOMAIN Fixed \cup {"FRAUD_RING", "NORMAL", "SHARED_DEVICE_FRAUD"}
  BY DEF Typed, Scenario, Interval, Fixed
<1> QED BY <1>3, <1>4, <1>5, <1>6, <1>7

\* Event times move on in every scenario.
LEMMA Intervals == \A s \in Scenario : Interval[s] \in Nat /\ Interval[s] > 0
  BY DEF Scenario, Interval

\* No call has been made.
LEMMA SimulatorInitially == Init => SInv
<1> SUFFICES ASSUME Init PROVE SInv
  OBVIOUS
<1> USE Emptied DEF Init
<1>1. Typed
  BY DEF Typed, Scenario, Interval
<1>2. Numbered /\ Written /\ FileIsOneCall /\ FiveSuffice
  BY DEF Numbered, Written, FileIsOneCall, FiveSuffice
<1> QED BY <1>1, <1>2 DEF SInv

\* A call starts from no rows; the ids of the one before are issued.
LEMMA GenerateStep ==
    ASSUME SInv, NEW s \in Scenario, NEW n \in Totals, Generate(s, n)
    PROVE  SInv'
<1> USE DEF SInv, Generate
<1>1. Typed'
  BY SimulatorAssumption, Emptied DEF Typed, Accepted
<1>2. Numbered'
  <2>1. \A x \in issued' : x \in Nat /\ x <= sequence
    <3>1. \A k \in DOMAIN out : k \in 1 .. Len(out)
      BY DEF Typed, IsSequence
    <3> QED BY <3>1 DEF Numbered
  <2> QED BY <2>1, Emptied DEF Numbered
<1>3. Written' /\ FileIsOneCall' /\ FiveSuffice'
  BY DEF Written, FileIsOneCall, FiveSuffice
<1> QED BY <1>1, <1>2, <1>3

\* A row takes the next number and the next time.
LEMMA BuildStep == ASSUME SInv, Build PROVE SInv'
<1> USE DEF SInv
<1>1. PICK a \in Amounts(scenario, Len(out)) :
          out' = Append(out, Row(scenario, Len(out), a))
  BY DEF Build
<1> DEFINE row == Row(scenario, Len(out), a)
<1>2. /\ phase = "building" /\ sequence' = sequence + 1
      /\ UNCHANGED <<config, scenario, total, phase, issued, calls, file, given>>
  BY DEF Build
<1>3. row.id = sequence + 1 /\ row.time = Len(out) * Interval[scenario]
  BY DEF Row
<1> HIDE DEF row
<1>4. /\ IsSequence(out') /\ Len(out) \in Nat /\ Len(out') = Len(out) + 1
      /\ \A i \in 1 .. Len(out) : out'[i] = out[i]
      /\ out'[Len(out) + 1] = row
  BY <1>1, Appended DEF Typed, row
<1>5. Typed'
  BY <1>2, <1>4 DEF Typed, Accepted
<1>6. Numbered'
  <2>1. \A x \in issued' : x \in Nat /\ x <= sequence' /\ x # sequence + 1
    BY <1>2 DEF Typed, Numbered
  <2>2. ASSUME NEW i \in 1 .. Len(out)'
        PROVE  /\ out'[i].id \in Nat /\ out'[i].id <= sequence' /\ out'[i].id \notin issued'
               /\ out'[i].time = (i - 1) * Interval[scenario']
               /\ \A j \in 1 .. i - 1 : out'[j].id < out'[i].id
    <3>1. CASE i \in 1 .. Len(out)
      <4>1. \A j \in 1 .. i : out'[j] = out[j]
        BY <1>4, <3>1
      <4>2. \A j \in 1 .. i - 1 : out'[j].id < out'[i].id
        BY <1>4, <3>1, <4>1 DEF Numbered
      <4>3. /\ out'[i].id \in Nat /\ out'[i].id <= sequence' /\ out'[i].id \notin issued'
        BY <1>2, <3>1, <4>1 DEF Typed, Numbered
      <4>4. out'[i].time = (i - 1) * Interval[scenario']
        BY <1>2, <3>1, <4>1 DEF Numbered
      <4> QED BY <4>2, <4>3, <4>4
    <3>2. CASE i = Len(out) + 1
      <4>1. \A j \in 1 .. i - 1 : out'[j].id <= sequence /\ out'[j].id \in Nat
        BY <1>4, <3>2 DEF Numbered
      <4>2. out'[i] = row /\ i - 1 = Len(out)
        BY <1>4, <3>2
      <4>3. out'[i].time = (i - 1) * Interval[scenario']
        BY <1>2, <1>3, <4>2
      <4> QED BY <1>2, <1>3, <2>1, <4>1, <4>2, <4>3 DEF Typed
    <3> QED BY <1>4, <3>1, <3>2
  <2> QED BY <2>1, <2>2 DEF Numbered
<1>7. Written' /\ FileIsOneCall' /\ FiveSuffice'
  BY <1>2 DEF Written, FileIsOneCall, FiveSuffice
<1> QED BY <1>5, <1>6, <1>7

\* A call that raises leaves its numbers taken.
LEMMA RaiseStep == ASSUME SInv, Raise PROVE SInv'
<1> USE DEF SInv, Raise
<1>1. Typed' /\ Numbered'
  <2>1. sequence' \in {sequence, sequence + 1} /\ sequence \in Nat
    BY DEF Typed
  <2>2. Typed'
    BY <2>1, Emptied DEF Typed, Accepted
  <2>3. \A x \in issued' : x \in Nat /\ x <= sequence'
    BY <2>1 DEF Numbered
  <2> QED BY <2>2, <2>3, Emptied DEF Numbered
<1>2. FiveSuffice'
  <2>1. Len(out) \in Nat
    BY DEF Typed, IsSequence
  <2>2. ~(config.customers >= 5 /\ config.merchants >= 5 /\ config.valid)
    BY <2>1, FiveBuildable
  <2>3. config.customers \in Nat /\ config.merchants \in Nat
    BY SimulatorAssumption DEF Typed
  <2> QED BY <2>2, <2>3 DEF FiveSuffice
<1>3. Written' /\ FileIsOneCall'
  BY DEF Written, FileIsOneCall
<1> QED BY <1>1, <1>2, <1>3

\* A line is the next of the rows returned.
LEMMA WriteStep == ASSUME SInv, WriteLine PROVE SInv'
<1> USE DEF SInv, WriteLine
<1>1. /\ IsSequence(file') /\ Len(file) \in Nat /\ Len(file') = Len(file) + 1
      /\ \A i \in 1 .. Len(file) : file'[i] = file[i]
      /\ file'[Len(file) + 1] = out[Len(file) + 1]
  BY Appended DEF Typed
<1>2. Typed' /\ Numbered' /\ Written' /\ FiveSuffice'
  BY <1>1 DEF Typed, Accepted, Numbered, Written, FiveSuffice
<1>3. FileIsOneCall'
  <2>1. Len(out) \in Nat /\ DOMAIN file = 1 .. Len(file) /\ DOMAIN file' = 1 .. Len(file)'
    BY <1>2 DEF Typed, IsSequence
  <2> QED BY <1>1, <2>1 DEF FileIsOneCall, Written
<1> QED BY <1>2, <1>3

\* The inductive invariant of the simulator and its command.
THEOREM SimulatorInvariant == Spec => []SInv
<1>1. SInv /\ [Next]_vars => SInv'
  <2> SUFFICES ASSUME SInv, [Next]_vars PROVE SInv'
    OBVIOUS
  <2>1. CASE \E s \in Scenario, n \in Totals : Generate(s, n)
    BY <2>1, GenerateStep
  <2>2. CASE Build
    BY <2>2, BuildStep
  <2>3. CASE Raise
    BY <2>3, RaiseStep
  <2>4. CASE Return
    BY <2>4 DEF Return, SInv, Typed, Accepted, Numbered, Written, FileIsOneCall, FiveSuffice
  <2>5. CASE OpenFile
    <3>1. Len(out) \in Nat /\ DOMAIN file' = {}
      BY <2>5 DEF SInv, Typed, IsSequence, OpenFile
    <3> QED BY <2>5, <3>1, Emptied
            DEF OpenFile, SInv, Typed, Accepted, Numbered, Written, FileIsOneCall, FiveSuffice
  <2>6. CASE WriteLine
    BY <2>6, WriteStep
  <2>7. CASE Restart
    BY <2>7, Emptied
       DEF Restart, SInv, Typed, Accepted, Numbered, Written, FileIsOneCall, FiveSuffice
  <2>8. CASE UNCHANGED vars
    BY <2>8 DEF vars, SInv, Typed, Accepted, Numbered, Written, FileIsOneCall, FiveSuffice
  <2> QED BY <2>1, <2>2, <2>3, <2>4, <2>5, <2>6, <2>7, <2>8 DEF Next
<1> QED BY <1>1, SimulatorInitially, PTL DEF Spec

\* Ids never repeat within a simulator, and rise with event time.
THEOREM IdsDoNotRepeat == Spec => []IdsNeverRepeat
<1>1. SInv => IdsNeverRepeat
  <2> SUFFICES ASSUME SInv, NEW i \in DOMAIN out
               PROVE  /\ out[i].id <= sequence /\ out[i].id \notin issued
                      /\ \A j \in 1 .. i - 1 : out[j].id < out[i].id /\ out[j].time < out[i].time
    BY DEF IdsNeverRepeat
  <2>1. i \in 1 .. Len(out) /\ Len(out) \in Nat
    BY DEF SInv, Typed, IsSequence
  <2>2. Interval[scenario] \in Nat /\ Interval[scenario] > 0
    BY Intervals DEF SInv, Typed
  <2>3. \A j \in 1 .. i - 1 : (j - 1) * Interval[scenario] < (i - 1) * Interval[scenario]
    BY <2>1, <2>2
  <2>4. \A j \in 1 .. i - 1 : j \in 1 .. Len(out)
    BY <2>1
  <2> QED BY <2>1, <2>3, <2>4 DEF SInv, Numbered
<1> QED BY <1>1, SimulatorInvariant, PTL

\* No scenario raises for want of customers or merchants when there are five of each
\* or more.
THEOREM FiveAreEnough == Spec => []FiveSuffice
  BY SimulatorInvariant, PTL DEF SInv

\* The file is the start of what one call returned.
THEOREM FilesAreOneCall == Spec => []FileIsOneCall
  BY SimulatorInvariant, PTL DEF SInv

---------------------------------------------------------------------------
\* The row at index i of a call, its id and time apart.
Described(r, i) ==
    /\ Buildable(scenario, i)
    /\ r.customer = Customer(scenario, i) /\ r.merchant = Merchant(scenario, i)
    /\ r.device = Device(scenario, i) /\ r.country = CountryOf(scenario, i)
    /\ r.amount \in Amounts(scenario, i)
    /\ r.fraud = (scenario # "NORMAL")

\* While a call's rows are there, they are rows of its scenario, up to as many
\* as were asked for.
Shaped ==
    /\ out # <<>> \/ phase = "building" => total \in 1 .. 2491
    /\ phase = "building" => Len(out) <= total
    /\ phase \in {"returned", "writing"} => Len(out) = total /\ total \in 1 .. 2491
    /\ \A r : \A i \in 1 .. Len(out) : r = out[i] => Described(r, i - 1)

\* What a row should be depends on the call and the configuration only.
LEMMA DescribedKept ==
    ASSUME UNCHANGED <<config, scenario, total>>
    PROVE  \A r, i : Described(r, i)' = Described(r, i)
BY DEF Described, Buildable, Customer, Choices, Merchant, Device, CountryOf, Amounts

\* Every row that is built is the row of its index, and stays.
LEMMA ShapedStep == SInv /\ Shaped /\ [Next]_vars => Shaped'
<1> SUFFICES ASSUME SInv, Shaped, [Next]_vars PROVE Shaped'
  OBVIOUS
<1>1. Typed /\ Len(out) \in Nat
  BY DEF SInv, Typed, IsSequence
<1>2. ASSUME NEW s \in Scenario, NEW n \in Totals, Generate(s, n)
      PROVE  Shaped'
  <2>1. total' \in 1 .. 2491 /\ out' = <<>> /\ phase' = "building"
    BY <1>2, SimulatorAssumption DEF Generate
  <2> QED BY <2>1, Emptied DEF Shaped
<1>3. CASE Build
  <2>1. PICK a \in Amounts(scenario, Len(out)) :
            out' = Append(out, Row(scenario, Len(out), a))
    BY <1>3 DEF Build
  <2> DEFINE row == Row(scenario, Len(out), a)
  <2>2. /\ config' = config /\ scenario' = scenario /\ total' = total /\ phase' = phase
        /\ phase = "building" /\ Len(out) < total /\ Buildable(scenario, Len(out))
    BY <1>3 DEF Build
  <2>3. /\ Len(out') = Len(out) + 1
        /\ \A i \in 1 .. Len(out) : out'[i] = out[i]
        /\ out'[Len(out) + 1] = row
    <3> HIDE DEF row
    <3> QED BY <1>1, <2>1, Appended DEF Typed, row
  <2>4. Described(row, Len(out))
    BY <2>1, <2>2 DEF Described, Row
  <2> HIDE DEF row
  <2>5. \A r, i : Described(r, i)' = Described(r, i)
    BY <2>2, DescribedKept
  <2>6. ASSUME NEW i \in 1 .. Len(out')
        PROVE  Described(out'[i], i - 1)
    <3>1. CASE i \in 1 .. Len(out)
      BY <2>3, <3>1 DEF Shaped
    <3>2. CASE i = Len(out) + 1
      BY <1>1, <2>3, <2>4, <3>2
    <3> QED BY <1>1, <2>3, <3>1, <3>2
  <2>7. \A r : \A i \in 1 .. Len(out') : r = out'[i] => Described(r, i - 1)'
    BY <2>5, <2>6
  <2>8. total \in 1 .. 2491
    BY <2>2 DEF Shaped
  <2>9. Len(out') <= total
    BY <1>1, <2>2, <2>3, <2>8
  <2> QED BY <2>2, <2>7, <2>8, <2>9 DEF Shaped
<1>4. CASE Raise \/ Restart
  <2>1. out' = <<>> /\ phase' \in {"raised", "idle"}
    BY <1>4 DEF Raise, Restart
  <2> QED BY <2>1, Emptied DEF Shaped
<1>5. CASE Return \/ OpenFile \/ WriteLine \/ UNCHANGED vars
  <2>1. UNCHANGED <<config, scenario, total, out>>
    BY <1>5 DEF Return, OpenFile, WriteLine, vars
  <2>2. \A r : \A i \in 1 .. Len(out)' : r = out'[i] => Described(r, i - 1)'
    BY <2>1, DescribedKept DEF Shaped
  <2>3. CASE Return
    <3>1. phase = "building" /\ phase' = "returned" /\ Len(out) = total /\ total \in 1 .. 2491
      BY <2>3 DEF Return, Shaped
    <3> QED BY <2>1, <2>2, <3>1 DEF Shaped
  <2>4. CASE OpenFile
    <3>1. phase' = "writing" /\ Len(out) = total /\ total \in 1 .. 2491
      BY <2>4 DEF OpenFile, Shaped
    <3> QED BY <2>1, <2>2, <3>1 DEF Shaped
  <2>5. CASE WriteLine \/ UNCHANGED vars
    <3>1. phase' = phase
      BY <2>5 DEF WriteLine, vars
    <3> QED BY <2>1, <2>2, <3>1 DEF Shaped
  <2> QED BY <1>5, <2>3, <2>4, <2>5
<1> QED BY <1>2, <1>3, <1>4, <1>5 DEF Next

\* Any nonempty set of indices has a smallest one: among the starts that end at
\* its members one contains no other.
LEMMA SmallestIndex ==
    ASSUME NEW n \in Nat, NEW S, S \subseteq 0 .. n, S # {}
    PROVE  \E k \in S : \A j \in S : k <= j
<1> DEFINE P == {0 .. k : k \in S}
<1>1. IsWellFoundedOn(StrictSubsetOrdering(0 .. n), SUBSET (0 .. n))
  <2>1. IsFiniteSet(0 .. n)
    BY FS_Interval
  <2> QED BY <2>1, FS_StrictSubsetOrderingWellFounded, FS_FiniteSubsetsOfFinite
<1>2. P \subseteq SUBSET (0 .. n) /\ P # {}
  <2>1. \A k \in S : 0 .. k \in SUBSET (0 .. n)
    OBVIOUS
  <2> QED BY <2>1
<1>3. PICK s \in P : \A q \in P : ~ (<<q, s>> \in StrictSubsetOrdering(0 .. n))
  <2> HIDE DEF P
  <2> QED BY <1>1, <1>2, WFMin
<1>4. PICK k \in S : s = 0 .. k
  OBVIOUS
<1>5. ASSUME NEW j \in S, j < k
      PROVE  FALSE
  <2>1. 0 .. j \in P /\ 0 .. j \subseteq 0 .. k /\ 0 .. j # 0 .. k
    BY <1>5
  <2>2. <<0 .. j, 0 .. k>> \in StrictSubsetOrdering(0 .. n)
    BY <2>1 DEF StrictSubsetOrdering
  <2> QED BY <1>3, <1>4, <2>1, <2>2
<1>6. k \in Int /\ \A j \in S : j \in Int
  OBVIOUS
<1> QED BY <1>5, <1>6

\* A normal customer buys where they usually do.
LEMMA UsualMerchant ==
    ASSUME Typed, scenario = "NORMAL", NEW i \in Nat, Buildable(scenario, i)
    PROVE  Merchant(scenario, i) % 5 \in UsualCategories(Customer(scenario, i))
<1> DEFINE S == Choices(scenario, i)
<1>1. config.merchants \in Nat /\ config.merchants >= 3
  BY SimulatorAssumption DEF Typed, Accepted
<1>2. S = {m \in 0 .. config.merchants - 1 : m % 5 \in UsualCategories(Customer(scenario, i))}
  BY DEF Choices, Fixed
<1>3. S \subseteq 0 .. config.merchants - 1 /\ S # {} /\ config.merchants - 1 \in Nat
  BY <1>1, <1>2 DEF Buildable
<1>4. \E k \in S : \A j \in S : k <= j
  <2> HIDE DEF S
  <2> QED BY <1>3, SmallestIndex
<1>5. Merchant(scenario, i) \in S
  BY <1>4 DEF Merchant
<1> QED BY <1>2, <1>5

\* Among six rows of a ring each of its three customers meets each of its two
\* devices.
LEMMA RingMeets ==
    ASSUME NEW a \in Nat, NEW b \in Nat
    PROVE  \E k \in 0 .. 5 : k % 3 = a % 3 /\ k % 2 = b % 2
<1>1. a % 3 \in 0 .. 2 /\ b % 2 \in 0 .. 1
  OBVIOUS
<1>2. /\ 0 % 3 = 0 /\ 0 % 2 = 0 /\ 1 % 3 = 1 /\ 1 % 2 = 1 /\ 2 % 3 = 2 /\ 2 % 2 = 0
      /\ 3 % 3 = 0 /\ 3 % 2 = 1 /\ 4 % 3 = 1 /\ 4 % 2 = 0 /\ 5 % 3 = 2 /\ 5 % 2 = 1
  OBVIOUS
<1> QED BY <1>1, <1>2

\* Scenario by scenario, what the rows of the indices amount to.
LEMMA ShapeKept == SInv /\ Shaped => ScenariosKeepTheirShape
<1> SUFFICES ASSUME SInv, Shaped, phase = "returned"
             PROVE  ScenariosKeepTheirShape
  BY DEF ScenariosKeepTheirShape
<1>1. /\ Typed /\ Len(out) = total /\ total \in 1 .. 2491 /\ DOMAIN out = 1 .. total
      /\ config.typical_amount_max \in 1000 .. 3000
  BY SimulatorAssumption DEF SInv, Shaped, Typed, IsSequence
<1>2. \A i \in 1 .. total : Described(out[i], i - 1) /\ i - 1 \in Nat
  BY <1>1 DEF Shaped
<1>3. CASE scenario = "CARD_TESTING"
  <2>1. \A i \in 1 .. total :
            out[i].amount = IF i - 1 = total - 1 THEN 2500 ELSE 10 + (i - 1)
    BY <1>2, <1>3 DEF Described, Amounts
  <2>2. \A i \in 1 .. total - 1 : out[i].amount < out[total].amount
    BY <1>1, <2>1
  <2> QED BY <1>3, <2>2 DEF ScenariosKeepTheirShape
<1>4. CASE scenario = "IMPOSSIBLE_TRAVEL"
  <2>1. \A i \in 1 .. total : out[i].country = IF (i - 1) % 2 = 1 THEN 0 ELSE 3
    BY <1>2, <1>4 DEF Described, CountryOf, Customer, Fixed, Foreign, Country
  <2>2. \A i \in 1 .. total - 1 : out[i].country # out[i + 1].country
    <3> SUFFICES ASSUME NEW i \in 1 .. total - 1 PROVE out[i].country # out[i + 1].country
      OBVIOUS
    <3>1. i \in 1 .. total /\ i + 1 \in 1 .. total /\ ((i + 1) - 1) % 2 # (i - 1) % 2
      BY <1>1
    <3>2. (i - 1) % 2 \in {0, 1} /\ ((i + 1) - 1) % 2 \in {0, 1}
      BY <1>1
    <3> QED BY <2>1, <3>1, <3>2
  <2> QED BY <1>4, <2>2 DEF ScenariosKeepTheirShape
<1>5. CASE scenario = "ACCOUNT_TAKEOVER"
  <2>1. ASSUME NEW i \in 1 .. total
        PROVE  /\ out[i].country # Country(out[i].customer)
               /\ \A spent \in {50, config.typical_amount_max} : spent <= out[i].amount
    <3>1. /\ out[i].country = Foreign(out[i].customer)
          /\ out[i].amount \in {config.typical_amount_max, 3 * config.typical_amount_max}
      BY <1>2, <1>5 DEF Described, CountryOf, Amounts
    <3>2. Foreign(out[i].customer) # Country(out[i].customer)
      BY DEF Foreign
    <3>3. \A spent \in {50, config.typical_amount_max} : spent <= out[i].amount
      <4> DEFINE max == config.typical_amount_max
      <4>1. max \in 1000 .. 3000
        BY <1>1
      <4> HIDE DEF max
      <4>2. out[i].amount = max \/ out[i].amount = 3 * max
        BY <3>1 DEF max
      <4>3. 50 <= max /\ max <= max /\ 50 <= 3 * max /\ max <= 3 * max
        BY <4>1
      <4> QED BY <4>2, <4>3 DEF max
    <3> QED BY <3>1, <3>2, <3>3
  <2> QED BY <1>1, <1>5, <2>1 DEF ScenariosKeepTheirShape
<1>6. CASE scenario = "FRAUD_RING"
  <2>1. \A i \in 1 .. total : /\ out[i].customer = (i - 1) % 3
                              /\ out[i].device = <<"FRAUD_RING", (i - 1) % 2>>
    BY <1>2, <1>6 DEF Described, Customer, Device, Fixed
  <2>2. ASSUME total >= 6, NEW a \in 1 .. total, NEW b \in 1 .. total
        PROVE  \E i \in 1 .. total :
                  out[i].customer = out[a].customer /\ out[i].device = out[b].device
    <3>1. a - 1 \in Nat /\ b - 1 \in Nat
      BY <1>1
    <3>2. PICK k \in 0 .. 5 : k % 3 = (a - 1) % 3 /\ k % 2 = (b - 1) % 2
      BY <3>1, RingMeets
    <3>3. k + 1 \in 1 .. total /\ (k + 1) - 1 = k
      BY <1>1, <2>2
    <3>4. out[k + 1].customer = k % 3 /\ out[k + 1].device = <<"FRAUD_RING", k % 2>>
      BY <2>1, <3>3
    <3>5. out[a].customer = (a - 1) % 3 /\ out[b].device = <<"FRAUD_RING", (b - 1) % 2>>
      BY <2>1
    <3> QED BY <3>2, <3>3, <3>4, <3>5
  <2>3. total >= 6 =>
            \A r, q \in {out[i] : i \in DOMAIN out} :
                \E i \in DOMAIN out : out[i].customer = r.customer /\ out[i].device = q.device
    <3> SUFFICES ASSUME total >= 6,
                        NEW r \in {out[i] : i \in DOMAIN out}, NEW q \in {out[i] : i \in DOMAIN out}
                 PROVE  \E i \in DOMAIN out :
                            out[i].customer = r.customer /\ out[i].device = q.device
      OBVIOUS
    <3>1. PICK a \in 1 .. total, b \in 1 .. total : r = out[a] /\ q = out[b]
      BY <1>1
    <3>2. PICK i \in 1 .. total :
              out[i].customer = out[a].customer /\ out[i].device = out[b].device
      BY <2>2
    <3>3. i \in DOMAIN out
      BY <1>1
    <3> QED BY <3>1, <3>2, <3>3
  <2> QED BY <1>6, <2>3 DEF ScenariosKeepTheirShape
<1>7. CASE scenario = "NORMAL"
  <2>1. ASSUME NEW i \in 1 .. total
        PROVE  /\ out[i].merchant % 5 \in UsualCategories(out[i].customer)
               /\ out[i].country = Country(out[i].customer)
               /\ out[i].device[1] = out[i].customer
    <3>1. Described(out[i], i - 1) /\ i - 1 \in Nat
      BY <1>2
    <3>2. Merchant(scenario, i - 1) % 5 \in UsualCategories(Customer(scenario, i - 1))
      BY <1>1, <1>7, <3>1, UsualMerchant DEF Described
    <3>3. CountryOf(scenario, i - 1) = Country(Customer(scenario, i - 1))
      BY <1>7 DEF CountryOf
    <3>4. Device(scenario, i - 1)[1] = Customer(scenario, i - 1)
      BY <1>7 DEF Device
    <3> QED BY <3>1, <3>2, <3>3, <3>4 DEF Described
  <2> QED BY <1>1, <1>7, <2>1 DEF ScenariosKeepTheirShape
<1>8. CASE scenario = "HIGH_VELOCITY"
  <2>1. \A i \in 1 .. total : out[i].customer = 1 /\ out[i].device = <<"HIGH_VELOCITY", 0>>
    BY <1>2, <1>8 DEF Described, Customer, Device, Fixed
  <2>2. 1 \in 1 .. total
    BY <1>1
  <2> QED BY <1>8, <2>1, <2>2 DEF ScenariosKeepTheirShape
<1>9. CASE scenario = "NEW_DEVICE_HIGH_VALUE"
  <2>1. \A i \in 1 .. total : out[i].amount = 4 * config.typical_amount_max
    BY <1>2, <1>9 DEF Described, Amounts
  <2>2. config.typical_amount_max < 4 * config.typical_amount_max
    <3> DEFINE max == config.typical_amount_max
    <3>1. max \in 1000 .. 3000
      BY <1>1
    <3> HIDE DEF max
    <3>2. max < 4 * max
      BY <3>1
    <3> QED BY <3>2 DEF max
  <2> QED BY <1>9, <2>1, <2>2 DEF ScenariosKeepTheirShape
<1>10. CASE scenario = "SHARED_DEVICE_FRAUD"
  <2>1. \A i \in 1 .. total : /\ out[i].customer = (i - 1) % config.customers
                              /\ out[i].device = <<"SHARED_DEVICE_FRAUD", 0>>
    BY <1>2, <1>10 DEF Described, Customer, Device, Fixed
  <2>2. 1 \in 1 .. total
    BY <1>1
  <2>3. ASSUME total >= config.customers, NEW c \in 0 .. config.customers - 1
        PROVE  \E i \in 1 .. total : out[i].customer = c
    <3>1. config.customers \in Nat /\ config.customers >= 3
      BY <1>1, SimulatorAssumption DEF Typed, Accepted
    <3>2. c + 1 \in 1 .. total /\ (c + 1) - 1 = c /\ c % config.customers = c
      BY <1>1, <2>3, <3>1
    <3> QED BY <2>1, <3>2
  <2> QED BY <1>10, <2>1, <2>2, <2>3 DEF ScenariosKeepTheirShape
<1>11. scenario \in {"CARD_TESTING", "IMPOSSIBLE_TRAVEL", "ACCOUNT_TAKEOVER", "FRAUD_RING",
                     "NORMAL", "HIGH_VELOCITY", "NEW_DEVICE_HIGH_VALUE", "SHARED_DEVICE_FRAUD"}
  BY <1>1 DEF Typed, Scenario, Interval
<1> QED BY <1>3, <1>4, <1>5, <1>6, <1>7, <1>8, <1>9, <1>10, <1>11

\* What generate returns keeps what makes its scenario one, for any accepted
\* configuration and every total up to the 2491 that the assumption on Totals
\* allows.
THEOREM ScenariosKeepShape == Spec => []ScenariosKeepTheirShape
<1>1. Init => Shaped
  <2> SUFFICES ASSUME Init PROVE Shaped
    OBVIOUS
  <2>1. out = <<>> /\ phase = "idle"
    BY DEF Init
  <2> QED BY <2>1, Emptied DEF Shaped
<1>2. SInv /\ Shaped /\ [Next]_vars => Shaped'
  BY ShapedStep
<1> QED BY <1>1, <1>2, SimulatorInvariant, ShapeKept, PTL DEF Spec
=============================================================================
