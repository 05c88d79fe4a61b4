------------------------------ MODULE SwarmGate ------------------------------
(***************************************************************************)
(* service/swarm_gate.py, class SwarmTerminalRegistry: the registry of the *)
(* sub-agents' logical terminals.  A spawn awaits a capacity snapshot and  *)
(* then decides and inserts under the lock; a reaper removes terminals     *)
(* that stopped sending heartbeats.                                        *)
(*                                                                         *)
(* No section under self._lock awaits, so each is one step.  Time is kept  *)
(* as durations: the age of each terminal's last heartbeat and the time    *)
(* since the reaper last woke.  While the host is awake the reaper's timer *)
(* fires when it is due; a sleeping host or a blocked event loop lets time *)
(* pass with nobody running.                                               *)
(***************************************************************************)
EXTENDS Naturals, FiniteSets

CONSTANTS
  Ids,        (* terminal ids                                               *)
  Spawners,   (* concurrent spawn() calls                                   *)
  NoId,       (* no terminal                                                *)
  MaxSlots,   (* max_swarm_slots                                            *)
  DefaultTtl, (* default_ttl_seconds, in clock ticks                        *)
  Interval,   (* the reaper's interval, in clock ticks                      *)
  Stalls      (* lengths of the pauses of the event loop                    *)

ASSUME SwarmAssumption ==
  /\ NoId \notin Ids
  /\ MaxSlots \in Nat
  /\ DefaultTtl \in Nat \ {0} /\ Interval \in Nat \ {0}
  /\ Stalls \subseteq Nat

VARIABLES
  live,       (* the ids in _terminals                                      *)
  ttl,        (* ttl_seconds of each terminal                               *)
  age,        (* clock() - last_heartbeat of each terminal                  *)
  asking,     (* the id a spawn() call wants, while it awaits _capacity()   *)
  sinceWake,  (* clock() - last of sweep_forever                            *)
  passes      (* ghost: wakes of the reaper since a terminal's heartbeat,   *)
              (* counted up to DefaultTtl                                   *)

vars == <<live, ttl, age, asking, sinceWake, passes>>

Init ==
  /\ live = {}
  /\ ttl = [i \in Ids |-> DefaultTtl]
  /\ age = [i \in Ids |-> 0]
  /\ asking = [p \in Spawners |-> NoId]
  /\ sinceWake = 0
  /\ passes = [i \in Ids |-> 0]

Smaller(a, b) == IF a < b THEN a ELSE b
Minus(a, b) == IF a > b THEN a - b ELSE 0

(* the record of a terminal as it is kept when the terminal is not live *)
Forget(gone) ==
  /\ ttl' = [i \in Ids |-> IF i \in gone THEN DefaultTtl ELSE ttl[i]]
  /\ passes' = [i \in Ids |-> IF i \in gone THEN 0 ELSE passes[i]]

-----------------------------------------------------------------------------
(* mutated: the call decides before it awaits the snapshot *)
MaySpawnAlways(i) == TRUE

(* mutated: an id in use is not refused *)
MaySpawnAgain(i) == Cardinality(live \ {i}) < MaxSlots

(* terminal_id_conflict and swarm_slots_full are decided under the lock that  *)
(* inserts                                                                    *)
MaySpawn(i) == i \notin live /\ Cardinality(live) < MaxSlots

SpawnBegin(p, i) ==
  /\ asking[p] = NoId
  /\ asking' = [asking EXCEPT ![p] = i]
  /\ UNCHANGED <<live, ttl, age, sinceWake, passes>>

(* the policy, the models and the VRAM of the snapshot may refuse *)
SpawnRefused(p) ==
  /\ asking[p] # NoId
  /\ asking' = [asking EXCEPT ![p] = NoId]
  /\ UNCHANGED <<live, ttl, age, sinceWake, passes>>

(* a client may shorten its ttl, never lengthen it *)
SpawnGranted(p) ==
  LET i == asking[p]
  IN  /\ i # NoId
      /\ MaySpawn(i)
      /\ live' = live \cup {i}
      /\ \E t \in 1..(DefaultTtl + 1) : ttl' = [ttl EXCEPT ![i] = Smaller(t, DefaultTtl)]
      /\ age' = [age EXCEPT ![i] = 0]
      /\ passes' = [passes EXCEPT ![i] = 0]
      /\ asking' = [asking EXCEPT ![p] = NoId]
      /\ UNCHANGED sinceWake

Release(i) ==
  /\ i \in live
  /\ live' = live \ {i}
  /\ age' = [age EXCEPT ![i] = 0]
  /\ Forget({i})
  /\ UNCHANGED <<asking, sinceWake>>

Heartbeat(i) ==
  /\ i \in live
  /\ age' = [age EXCEPT ![i] = 0]
  /\ passes' = [passes EXCEPT ![i] = 0]
  /\ UNCHANGED <<live, ttl, asking, sinceWake>>

-----------------------------------------------------------------------------
(* mutated: a stall is charged to the terminals *)
CreditNothing == 0

(* mutated: the whole turn is given back, its interval too *)
CreditElapsed == IF sinceWake > 3 * Interval THEN sinceWake ELSE 0

(* what sweep_forever gives back for time in which nobody ran; a stall of up  *)
(* to two intervals is not noticed                                            *)
Credit ==
  LET stalled == Minus(sinceWake, Interval)
  IN  IF stalled > 2 * Interval THEN stalled ELSE 0

(* mutated: the reaper leaves a grace beyond the ttl *)
ExpiredLate(i, a) == a > ttl[i] + 4 * Interval

(* sweep(): past its ttl since the last heartbeat *)
Expired(i, a) == a > ttl[i]

(* one turn of sweep_forever *)
Reap ==
  LET credited == [i \in Ids |-> Minus(age[i], Credit)]
      dead == {i \in live : Expired(i, credited[i])}
  IN  /\ sinceWake >= Interval
      /\ live' = live \ dead
      /\ age' = [i \in Ids |-> IF i \in live \ dead THEN credited[i] ELSE 0]
      /\ ttl' = [i \in Ids |-> IF i \in dead THEN DefaultTtl ELSE ttl[i]]
      /\ passes' = [i \in Ids |-> IF i \in live \ dead
                              THEN Smaller(passes[i] + 1, DefaultTtl) ELSE 0]
      /\ sinceWake' = 0
      /\ UNCHANGED asking

(* time passes while tasks run *)
Tick ==
  /\ sinceWake < Interval
  /\ sinceWake' = sinceWake + 1
  /\ age' = [i \in Ids |-> IF i \in live THEN age[i] + 1 ELSE 0]
  /\ UNCHANGED <<live, ttl, asking, passes>>

(* time passes while nothing runs; clients may be served before the reaper is *)
Stall ==
  /\ sinceWake < Interval
  /\ \E d \in Stalls :
       /\ sinceWake' = sinceWake + d
       /\ age' = [i \in Ids |-> IF i \in live THEN age[i] + d ELSE 0]
  /\ UNCHANGED <<live, ttl, asking, passes>>

Next ==
  \/ \E p \in Spawners : SpawnRefused(p) \/ SpawnGranted(p)
  \/ \E p \in Spawners, i \in Ids : SpawnBegin(p, i)
  \/ \E i \in Ids : Release(i) \/ Heartbeat(i)
  \/ Reap \/ Tick \/ Stall

Spec == Init /\ [][Next]_vars

(* time goes on and the reaper, which never dies, runs when it is due *)
Fairness == WF_vars(Tick) /\ WF_vars(Reap)

FairSpec == Spec /\ Fairness

-----------------------------------------------------------------------------
(* Properties *)

(* The state has its shape, and after every turn of the reaper no live        *)
(* terminal is past its ttl: between two turns only the time since the last   *)
(* one can have been added.                                                   *)
TypeOK ==
  /\ live \subseteq Ids
  /\ ttl \in [Ids -> 1..DefaultTtl]
  /\ age \in [Ids -> Nat] /\ passes \in [Ids -> Nat]
  /\ asking \in [Spawners -> Ids \cup {NoId}]
  /\ sinceWake \in Nat
  /\ \A i \in live : age[i] <= ttl[i] + sinceWake

(* Concurrent spawns never grant more terminals than max_swarm_slots: what a  *)
(* call learned before it awaited the capacity snapshot is not what it        *)
(* decides on.                                                                *)
SlotsBounded == Cardinality(live) <= MaxSlots

(* A live terminal is never overwritten by a spawn that reuses its id.        *)
NoOverwrite ==
  [][\A i \in live : i \in live' => ttl'[i] = ttl[i]]_vars

(* The reaper only removes a terminal that has been silent over enough turns  *)
(* of the reaper: a pause of the event loop, however long, is charged as      *)
(* three intervals at most.                                                   *)
ReapedAfterSilence ==
  [][\A i \in live :
       Reap /\ i \notin live' => 3 * Interval * (passes[i] + 1) > ttl[i]]_vars

(* A terminal that is never heard of again is reaped: no slot leaks.          *)
ZombieReaped ==
  \A i \in Ids : i \in live ~> (i \notin live \/ age[i] = 0)
=============================================================================
