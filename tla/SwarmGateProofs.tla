--------------------------- MODULE SwarmGateProofs ---------------------------
(***************************************************************************)
(* Theorems about the swarm registry of module SwarmGate, for any number   *)
(* of terminals and spawners, any bound, ttl and interval.                 *)
(***************************************************************************)
EXTENDS SwarmGate, FiniteSetTheorems, TLAPS

(* The bound is only inductive together with the finiteness of the registry:  *)
(* Cardinality says nothing of an infinite set.                               *)
Bounded == IsFiniteSet(live) /\ Cardinality(live) <= MaxSlots

IInv == TypeOK /\ Bounded

(* The arithmetic helpers stay within the natural numbers.                    *)
LEMMA MinusType == \A a, b \in Nat : Minus(a, b) \in Nat /\ Minus(a, b) <= a
BY DEF Minus

LEMMA CreditType == TypeOK => Credit \in Nat
<1>. SUFFICES ASSUME TypeOK PROVE Credit \in Nat
  OBVIOUS
<1>1. sinceWake \in Nat /\ Interval \in Nat
  BY SwarmAssumption DEF TypeOK
<1>. QED
  BY <1>1, MinusType DEF Credit

LEMMA InitInv == Init => IInv
<1>. SUFFICES ASSUME Init PROVE IInv
  OBVIOUS
<1>1. TypeOK
  BY SwarmAssumption DEF Init, TypeOK
<1>2. Bounded
  BY FS_EmptySet, SwarmAssumption DEF Init, Bounded
<1>. QED
  BY <1>1, <1>2 DEF IInv

(* A turn of the reaper keeps the types: what it credits lowers an age, and   *)
(* who stays is within its ttl.                                               *)
LEMMA ReapType == TypeOK /\ Reap => TypeOK'
<1>. SUFFICES ASSUME TypeOK, Reap PROVE TypeOK'
  OBVIOUS
<1>. DEFINE credited == [i \in Ids |-> Minus(age[i], Credit)]
<1>. DEFINE dead == {i \in live : Expired(i, credited[i])}
<1>1. \A i \in Ids : credited[i] \in Nat
  BY MinusType, CreditType DEF TypeOK
<1>2. /\ live' = live \ dead
      /\ age' = [i \in Ids |-> IF i \in live \ dead THEN credited[i] ELSE 0]
      /\ ttl' = [i \in Ids |-> IF i \in dead THEN DefaultTtl ELSE ttl[i]]
      /\ passes' = [i \in Ids |-> IF i \in live \ dead
                              THEN Smaller(passes[i] + 1, DefaultTtl) ELSE 0]
      /\ sinceWake' = 0
      /\ asking' = asking
  BY Zenon DEF Reap
<1>3. age' \in [Ids -> Nat]
  BY <1>1, <1>2
<1>4. ttl' \in [Ids -> 1..DefaultTtl] /\ passes' \in [Ids -> Nat]
  BY <1>2, SwarmAssumption DEF TypeOK, Smaller
<1>5. ASSUME NEW i \in live' PROVE age'[i] <= ttl'[i] + sinceWake'
  <2>1. i \in live /\ i \in Ids /\ i \notin dead
    BY <1>2, <1>5 DEF TypeOK
  <2>2. ~Expired(i, credited[i])
    BY <2>1
  <2>3. age'[i] = credited[i] /\ ttl'[i] = ttl[i]
    BY <1>2, <2>1
  <2>4. ttl[i] \in Nat
    BY <2>1, SwarmAssumption DEF TypeOK
  <2>. HIDE DEF credited
  <2>. QED
    BY <1>1, <1>2, <2>1, <2>2, <2>3, <2>4 DEF Expired
<1>. QED
  BY <1>2, <1>3, <1>4, <1>5 DEF TypeOK

(* Only SpawnGranted adds a terminal, and it looks at the bound as it does.   *)
LEMMA TypeStep == TypeOK /\ [Next]_vars => TypeOK'
<1>. SUFFICES ASSUME TypeOK, [Next]_vars PROVE TypeOK'
  OBVIOUS
<1>. USE SwarmAssumption DEF TypeOK
<1>1. ASSUME NEW p \in Spawners, SpawnRefused(p) PROVE TypeOK'
  BY <1>1 DEF SpawnRefused
<1>2. ASSUME NEW p \in Spawners, SpawnGranted(p) PROVE TypeOK'
  <2>. DEFINE i == asking[p]
  <2>1. i \in Ids
    BY <1>2 DEF SpawnGranted
  <2>2. \A t \in 1..(DefaultTtl + 1) : Smaller(t, DefaultTtl) \in 1..DefaultTtl
    BY DEF Smaller
  <2>3. ttl' \in [Ids -> 1..DefaultTtl]
    BY <1>2, <2>1, <2>2 DEF SpawnGranted
  <2>4. live' \subseteq Ids /\ age' \in [Ids -> Nat] /\ passes' \in [Ids -> Nat]
        /\ asking' \in [Spawners -> Ids \cup {NoId}] /\ sinceWake' \in Nat
    BY <1>2, <2>1 DEF SpawnGranted
  <2>5. ASSUME NEW j \in live' PROVE age'[j] <= ttl'[j] + sinceWake'
    <3>1. CASE j = i
      <4>1. age'[j] = 0
        BY <1>2, <2>1, <3>1 DEF SpawnGranted
      <4>. QED
        BY <2>1, <2>3, <2>4, <3>1, <4>1
    <3>2. CASE j # i
      <4>1. age'[j] = age[j] /\ ttl'[j] = ttl[j] /\ j \in live /\ sinceWake' = sinceWake
        BY <1>2, <2>1, <2>5, <3>2 DEF SpawnGranted
      <4>. QED
        BY <4>1
    <3>. QED
      BY <3>1, <3>2
  <2>. QED
    BY <2>3, <2>4, <2>5
<1>3. ASSUME NEW p \in Spawners, NEW i \in Ids, SpawnBegin(p, i) PROVE TypeOK'
  BY <1>3 DEF SpawnBegin
<1>4. ASSUME NEW i \in Ids, Release(i) PROVE TypeOK'
  BY <1>4 DEF Release, Forget
<1>5. ASSUME NEW i \in Ids, Heartbeat(i) PROVE TypeOK'
  BY <1>5 DEF Heartbeat
<1>6. CASE Tick
  BY <1>6 DEF Tick
<1>7. CASE Stall
  BY <1>7 DEF Stall
<1>8. CASE Reap
  BY <1>8, ReapType
<1>9. CASE UNCHANGED vars
  BY <1>9 DEF vars
<1>. QED
  BY <1>1, <1>2, <1>3, <1>4, <1>5, <1>6, <1>7, <1>8, <1>9 DEF Next

LEMMA BoundStep == IInv /\ [Next]_vars => Bounded'
<1>. SUFFICES ASSUME IInv, [Next]_vars PROVE Bounded'
  OBVIOUS
<1>1. ASSUME live' \subseteq live PROVE Bounded'
  <2>1. IsFiniteSet(live') /\ Cardinality(live') <= Cardinality(live)
    BY <1>1, FS_Subset DEF IInv, Bounded
  <2>2. Cardinality(live) \in Nat /\ Cardinality(live') \in Nat
    BY <2>1, FS_CardinalityType DEF IInv, Bounded
  <2>. QED
    BY <2>1, <2>2, SwarmAssumption DEF IInv, Bounded
<1>2. ASSUME NEW p \in Spawners, SpawnGranted(p) PROVE Bounded'
  <2>1. PICK i : live' = live \cup {i} /\ MaySpawn(i)
    BY <1>2 DEF SpawnGranted
  <2>2. IsFiniteSet(live') /\ Cardinality(live') = Cardinality(live) + 1
    BY <2>1, FS_AddElement DEF IInv, Bounded, MaySpawn
  <2>3. Cardinality(live) \in Nat /\ Cardinality(live) < MaxSlots
    BY <2>1, FS_CardinalityType DEF IInv, Bounded, MaySpawn
  <2>. QED
    BY <2>2, <2>3, SwarmAssumption DEF Bounded
<1>3. ASSUME NEW p \in Spawners, NEW i \in Ids, SpawnBegin(p, i) PROVE live' \subseteq live
  BY <1>3 DEF SpawnBegin
<1>4. ASSUME NEW p \in Spawners, SpawnRefused(p) PROVE live' \subseteq live
  BY <1>4 DEF SpawnRefused
<1>5. ASSUME NEW i \in Ids, Release(i) \/ Heartbeat(i) PROVE live' \subseteq live
  BY <1>5 DEF Release, Heartbeat
<1>6. ASSUME Reap \/ Tick \/ Stall PROVE live' \subseteq live
  BY <1>6 DEF Reap, Tick, Stall
<1>7. ASSUME UNCHANGED vars PROVE live' \subseteq live
  BY <1>7 DEF vars
<1>. QED
  BY <1>1, <1>2, <1>3, <1>4, <1>5, <1>6, <1>7 DEF Next

(* The registry's state is well formed in every reachable state, and never    *)
(* holds more terminals than max_swarm_slots (SwarmTerminalRegistry).         *)
THEOREM SwarmInvariant == Spec => []IInv
<1>1. IInv /\ [Next]_vars => IInv'
  BY TypeStep, BoundStep DEF IInv
<1>. QED
  BY <1>1, InitInv, PTL DEF Spec

(* The types, and the ttl of every live terminal after a turn of the reaper.  *)
THEOREM SwarmTypeCorrect == Spec => []TypeOK
BY SwarmInvariant, PTL DEF IInv

(* Concurrent spawns never exceed max_swarm_slots, though each awaited the    *)
(* capacity snapshot before it decided (SwarmTerminalRegistry.spawn).         *)
THEOREM SwarmSlotsBounded == Spec => []SlotsBounded
<1>1. IInv => SlotsBounded
  BY DEF IInv, Bounded, SlotsBounded
<1>. QED
  BY <1>1, SwarmInvariant, PTL

(* No step changes the record of a terminal that stays live: a reused id is   *)
(* refused (SwarmTerminalRegistry.spawn).                                     *)
THEOREM SwarmNoOverwrite == Spec => NoOverwrite
<1>. DEFINE A == \A i \in live : i \in live' => ttl'[i] = ttl[i]
<1>1. ASSUME IInv, Next PROVE A
  <2>. USE <1>1 DEF IInv, TypeOK
  <2>1. ASSUME NEW p \in Spawners, SpawnGranted(p) PROVE A
    BY <2>1 DEF SpawnGranted, MaySpawn
  <2>2. ASSUME NEW p \in Spawners, NEW i \in Ids, SpawnBegin(p, i) PROVE A
    BY <2>2 DEF SpawnBegin
  <2>3. ASSUME NEW p \in Spawners, SpawnRefused(p) PROVE A
    BY <2>3 DEF SpawnRefused
  <2>4. ASSUME NEW i \in Ids, Release(i) PROVE A
    BY <2>4 DEF Release, Forget
  <2>5. ASSUME NEW i \in Ids, Heartbeat(i) PROVE A
    BY <2>5 DEF Heartbeat
  <2>6. CASE Reap
    BY <2>6 DEF Reap
  <2>7. CASE Tick \/ Stall
    BY <2>7 DEF Tick, Stall
  <2>. QED
    BY <2>1, <2>2, <2>3, <2>4, <2>5, <2>6, <2>7 DEF Next
<1>2. IInv /\ [Next]_vars => [A]_vars
  BY <1>1
<1>. QED
  BY <1>2, SwarmInvariant, PTL DEF Spec, NoOverwrite

-----------------------------------------------------------------------------
(* Pauses and silence. *)

(* What a terminal is charged: three intervals at most for each turn of the   *)
(* reaper since its heartbeat, and the time since the last turn.  Turns are   *)
(* counted up to DefaultTtl, beyond which the bound says nothing more.        *)
Charged ==
  \A i \in live : passes[i] < DefaultTtl => age[i] <= 3 * Interval * passes[i] + sinceWake

LEMMA Products ==
  \A n, p \in Nat : /\ 3 * n * p \in Nat
                    /\ 3 * n * (p + 1) = 3 * n * p + 3 * n
                    /\ n >= 1 => 3 * n * (p + 1) > p
<1>. SUFFICES ASSUME NEW n \in Nat, NEW p \in Nat
     PROVE  /\ 3 * n * p \in Nat
            /\ 3 * n * (p + 1) = 3 * n * p + 3 * n
            /\ n >= 1 => 3 * n * (p + 1) > p
  OBVIOUS
<1>1. 3 * n * p \in Nat /\ 3 * n * (p + 1) = 3 * n * p + 3 * n
  OBVIOUS
<1>2. ASSUME n >= 1 PROVE 3 * n * p >= p
  <2>1. PICK k \in Nat : 3 * n = k + 1
    <3>1. 3 * n - 1 \in Nat /\ 3 * n = (3 * n - 1) + 1
      BY <1>2
    <3>. QED
      BY <3>1
  <2>2. k * p \in Nat /\ (k + 1) * p = k * p + p
    OBVIOUS
  <2>. QED
    BY <2>1, <2>2
<1>. QED
  BY <1>1, <1>2

(* After the credit of a turn no more than three intervals of the time since  *)
(* the last turn are left on any terminal's account.                          *)
LEMMA CreditLeavesThree ==
  ASSUME TypeOK, NEW a \in Nat, NEW b \in Nat, a <= b + sinceWake
  PROVE  Minus(a, Credit) <= b + 3 * Interval
<1>1. sinceWake \in Nat /\ Interval \in Nat
  BY SwarmAssumption DEF TypeOK
<1>2. CASE Minus(sinceWake, Interval) > 2 * Interval
  <2>1. Credit = sinceWake - Interval /\ sinceWake > Interval
    BY <1>1, <1>2 DEF Credit, Minus
  <2>. QED
    BY <1>1, <2>1 DEF Minus
<1>3. CASE ~(Minus(sinceWake, Interval) > 2 * Interval)
  <2>1. Credit = 0 /\ sinceWake <= 3 * Interval
    BY <1>1, <1>3 DEF Credit, Minus
  <2>. QED
    BY <1>1, <2>1 DEF Minus
<1>. QED
  BY <1>2, <1>3

LEMMA ReapCharged == TypeOK /\ Charged /\ Reap => Charged'
<1>. SUFFICES ASSUME TypeOK, Charged, Reap, NEW i \in live', passes'[i] < DefaultTtl
     PROVE  age'[i] <= 3 * Interval * passes'[i] + sinceWake'
  BY DEF Charged
<1>. DEFINE credited == [j \in Ids |-> Minus(age[j], Credit)]
            dead == {j \in live : Expired(j, credited[j])}
<1>1. /\ live' = live \ dead
      /\ age' = [j \in Ids |-> IF j \in live \ dead THEN credited[j] ELSE 0]
      /\ passes' = [j \in Ids |-> IF j \in live \ dead
                              THEN Smaller(passes[j] + 1, DefaultTtl) ELSE 0]
      /\ sinceWake' = 0
  BY Zenon DEF Reap
<1>2. i \in live /\ i \in Ids /\ i \notin dead
  BY <1>1 DEF TypeOK
<1>3. /\ age[i] \in Nat /\ passes[i] \in Nat /\ DefaultTtl \in Nat /\ Interval \in Nat
      /\ 3 * Interval * passes[i] \in Nat
  BY <1>2, SwarmAssumption, Products DEF TypeOK
<1>4. age'[i] = Minus(age[i], Credit) /\ passes'[i] = Smaller(passes[i] + 1, DefaultTtl)
  BY <1>1, <1>2
<1>5. passes'[i] = passes[i] + 1 /\ passes[i] < DefaultTtl
  BY <1>3, <1>4 DEF Smaller
<1>6. age[i] <= 3 * Interval * passes[i] + sinceWake
  BY <1>2, <1>5 DEF Charged
<1>7. Minus(age[i], Credit) <= 3 * Interval * passes[i] + 3 * Interval
  BY <1>3, <1>6, CreditLeavesThree
<1>8. 3 * Interval * passes'[i] = 3 * Interval * passes[i] + 3 * Interval
  BY <1>3, <1>5, Products
<1>. QED
  BY <1>1, <1>3, <1>4, <1>7, <1>8

LEMMA ChargedStep == TypeOK /\ Charged /\ [Next]_vars => Charged'
<1>. SUFFICES ASSUME TypeOK, Charged, [Next]_vars PROVE Charged'
  OBVIOUS
<1>1. /\ sinceWake \in Nat /\ Interval \in Nat
      /\ \A i \in Ids : passes[i] \in Nat /\ age[i] \in Nat /\ 3 * Interval * passes[i] \in Nat
      /\ live \subseteq Ids
  BY SwarmAssumption, Products DEF TypeOK
<1>2. ASSUME NEW i \in Ids, live' \subseteq live \cup {i}, sinceWake' = sinceWake,
             age'[i] = 0, passes'[i] = 0,
             \A j \in live : j # i => age'[j] = age[j] /\ passes'[j] = passes[j]
      PROVE  Charged'
  <2>1. ASSUME NEW j \in live', passes'[j] < DefaultTtl
        PROVE  age'[j] <= 3 * Interval * passes'[j] + sinceWake'
    <3>1. CASE j = i
      <4>1. 3 * Interval * passes'[j] = 0
        BY <1>1, <1>2, <3>1
      <4>. QED
        BY <1>1, <1>2, <3>1, <4>1
    <3>2. CASE j # i
      BY <1>2, <2>1, <3>2 DEF Charged
    <3>. QED
      BY <3>1, <3>2
  <2>. QED
    BY <2>1 DEF Charged
<1>3. ASSUME NEW d \in Nat, sinceWake' = sinceWake + d, UNCHANGED <<live, passes>>,
             \A i \in live : age'[i] = age[i] + d
      PROVE  Charged'
  BY <1>1, <1>3 DEF Charged
<1>4. ASSUME UNCHANGED <<live, age, sinceWake, passes>> PROVE Charged'
  BY <1>4 DEF Charged
<1>5. ASSUME NEW p \in Spawners, SpawnGranted(p) PROVE Charged'
  <2>1. asking[p] \in Ids
    BY <1>5 DEF SpawnGranted, TypeOK
  <2>. QED
    BY <1>1, <1>2, <1>5, <2>1 DEF SpawnGranted, TypeOK
<1>6. ASSUME NEW i \in Ids, Release(i) \/ Heartbeat(i) PROVE Charged'
  BY <1>1, <1>2, <1>6 DEF Release, Heartbeat, Forget, TypeOK
<1>7. CASE Tick
  BY <1>1, <1>3, <1>7 DEF Tick
<1>8. CASE Stall
  <2>1. PICK d \in Stalls : /\ sinceWake' = sinceWake + d
                            /\ age' = [i \in Ids |-> IF i \in live THEN age[i] + d ELSE 0]
    BY <1>8 DEF Stall
  <2>2. d \in Nat /\ UNCHANGED <<live, passes>>
    BY <1>8, SwarmAssumption DEF Stall
  <2>. QED
    BY <1>1, <1>3, <2>1, <2>2
<1>9. CASE Reap
  BY <1>9, ReapCharged
<1>10. ASSUME NEW p \in Spawners, SpawnRefused(p) PROVE Charged'
  BY <1>4, <1>10 DEF SpawnRefused
<1>11. ASSUME NEW p \in Spawners, NEW i \in Ids, SpawnBegin(p, i) PROVE Charged'
  BY <1>4, <1>11 DEF SpawnBegin
<1>12. CASE UNCHANGED vars
  BY <1>4, <1>12 DEF vars
<1>. QED
  BY <1>5, <1>6, <1>7, <1>8, <1>9, <1>10, <1>11, <1>12 DEF Next

(* For any ttl, interval and pauses: a terminal is only reaped after a        *)
(* silence that spans turns of the reaper; a pause of the event loop, however *)
(* long, is charged as three intervals at most (sweep_forever).               *)
THEOREM SwarmReapsTheSilent == Spec => ReapedAfterSilence
<1>. DEFINE A == \A i \in live : Reap /\ i \notin live' => 3 * Interval * (passes[i] + 1) > ttl[i]
<1>1. ASSUME TypeOK, Charged, Reap, NEW i \in live, i \notin live'
      PROVE  3 * Interval * (passes[i] + 1) > ttl[i]
  <2>1. Minus(age[i], Credit) > ttl[i]
    BY <1>1 DEF Reap, Expired, TypeOK
  <2>2. /\ age[i] \in Nat /\ passes[i] \in Nat /\ ttl[i] \in Nat /\ ttl[i] <= DefaultTtl
        /\ Interval \in Nat /\ Interval >= 1 /\ DefaultTtl \in Nat
        /\ 3 * Interval * passes[i] \in Nat
    BY <1>1, SwarmAssumption, Products DEF TypeOK
  <2>3. 3 * Interval * (passes[i] + 1) = 3 * Interval * passes[i] + 3 * Interval
    BY <2>2, Products
  <2>4. CASE passes[i] < DefaultTtl
    <3>1. Minus(age[i], Credit) <= 3 * Interval * passes[i] + 3 * Interval
      BY <1>1, <2>2, <2>4, CreditLeavesThree DEF Charged
    <3>2. Minus(age[i], Credit) \in Nat
      BY <1>1, <2>2, CreditType, MinusType
    <3>. QED
      BY <2>1, <2>2, <2>3, <3>1, <3>2
  <2>5. CASE ~(passes[i] < DefaultTtl)
    <3>1. 3 * Interval * (passes[i] + 1) > passes[i]
      BY <2>2, Products
    <3>. QED
      BY <2>2, <2>3, <2>5, <3>1
  <2>. QED
    BY <2>4, <2>5
<1>2. Init => Charged
  BY DEF Init, Charged
<1>3. TypeOK /\ Charged /\ [Next]_vars => Charged'
  BY ChargedStep
<1>4. TypeOK /\ Charged => [A]_vars
  BY <1>1
<1>. QED
  BY <1>2, <1>3, <1>4, SwarmTypeCorrect, PTL DEF Spec, ReapedAfterSilence
=============================================================================
