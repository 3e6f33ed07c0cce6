-------------------------- MODULE CpuParkingProofs --------------------------
(***************************************************************************)
(* Proofs about CpuParking for every finite set of parkable cores, minimum *)
(* of online cores and number of refused calls, with and without hotplug.  *)
(***************************************************************************)
EXTENDS CpuParking, FiniteSetTheorems, TLAPS

(* From a sample to remove_cpu the driver takes nothing, so that the       *)
(* sampled count still bounds what it has taken.                           *)
SampleInv ==
    /\ pc["work"] \in {"decide", "park"} => Cardinality(taken) + count <= Cardinality(Parkable)
    /\ pc["work"] = "park" => count > MinOnline

ParkingInv == TypeOK /\ PollingNeverStops /\ SampleInv /\ TakenWithinBudget

(* Once the exit has cancelled the work nothing queues or runs it.         *)
QuietInv ==
    /\ pc["exit"] # "loaded" => ~timer /\ setter = "idle"
    /\ pc["exit"] \in {"unpark", "added", "gone"} => pc["work"] = "idle"

(* The cores the driver still knows it has to bring back: those in the     *)
(* mask, the one about to be put there, and at the end those that          *)
(* unpark_all has not looked at yet.                                       *)
Remembered ==
    CASE pc["exit"] \in {"loaded", "cancel"} ->
            IF pc["work"] = "removed" THEN parked \cup {Next1("work")} ELSE parked
      [] pc["exit"] \in {"unpark", "added"} -> parked \cap todo["exit"]
      [] pc["exit"] = "gone" -> {}

(* Every core beyond those was left behind by a call the kernel refused.   *)
MemoryInv ==
    /\ \A t \in Threads : pc[t] = "added" => Next1(t) \notin taken
    /\ Cardinality(taken \ Remembered) <= failures

UnloadInv == QuietInv /\ MemoryInv

----------------------------------------------------------------------------
(* Lemmas about finite sets of cores.                                      *)

(* Induction over the subsets of a finite set, Good being those for which  *)
(* the claim holds.                                                        *)
LEMMA SubsetInduction ==
    ASSUME NEW S, IsFiniteSet(S), NEW Good \in SUBSET SUBSET S,
           {} \in Good,
           \A T \in Good : \A x \in S : T \cup {x} \in Good
    PROVE  S \in Good
<1> DEFINE Bad == (SUBSET S) \ Good
<1>1. IsWellFoundedOn(StrictSubsetOrdering(S), FiniteSubsetsOf(S))
  BY FS_StrictSubsetOrderingWellFounded
<1>2. Bad \subseteq FiniteSubsetsOf(S)
  BY FS_FiniteSubsetsOfFinite
<1>3. SUFFICES ASSUME Bad # {} PROVE FALSE
  OBVIOUS
<1>4. PICK T \in Bad : \A U \in Bad : <<U, T>> \notin StrictSubsetOrdering(S)
  BY <1>1, <1>2, <1>3, WFMin
<1>5. PICK x \in T : TRUE
  OBVIOUS
<1>6. T \ {x} \notin Bad
  BY <1>4, <1>5 DEF StrictSubsetOrdering
<1>7. (T \ {x}) \cup {x} = T /\ x \in S
  BY <1>5
<1>8. QED
  BY <1>6, <1>7

(* A nonempty finite set of cores has a lowest and a highest one.          *)
LEMMA CoresHaveBounds ==
    ASSUME NEW S, S \subseteq Parkable, S # {}
    PROVE  Lowest(S) \in S /\ Highest(S) \in S
<1> DEFINE Bounded(T) == /\ \E c \in T : \A d \in T : c <= d
                         /\ \E c \in T : \A d \in T : c >= d
           Good == {T \in SUBSET S : T # {} => Bounded(T)}
<1>1. IsFiniteSet(S)
  BY FS_Subset, ParkingAssumption
<1>2. ASSUME NEW T \in Good, NEW x \in S PROVE T \cup {x} \in Good
  <2>1. CASE T = {}
    BY <2>1, ParkingAssumption
  <2>2. CASE T # {}
    <3>1. PICK c \in T : \A d \in T : c <= d
      BY <2>2
    <3>2. PICK e \in T : \A d \in T : e >= d
      BY <2>2
    <3>3. T \subseteq Nat /\ x \in Nat /\ T \cup {x} \in SUBSET S
      BY ParkingAssumption
    <3>4. \E l \in T \cup {x} : \A d \in T \cup {x} : l <= d
      BY <3>1, <3>3
    <3>5. \E h \in T \cup {x} : \A d \in T \cup {x} : h >= d
      BY <3>2, <3>3
    <3>6. QED
      BY <3>3, <3>4, <3>5
  <2>3. QED
    BY <2>1, <2>2
<1>3. {} \in Good /\ Good \in SUBSET SUBSET S
  OBVIOUS
<1>4. S \in Good
  <2> HIDE DEF Good
  <2>1. QED
    BY <1>1, <1>2, <1>3, SubsetInduction
<1>5. QED
  BY <1>4 DEF Lowest, Highest

(* What a thread looks at next is one of the cores it has to do; the core  *)
(* being parked is the only one.                                           *)
LEMMA NextIsToDo ==
    ASSUME TypeOK, NEW t \in Threads
    PROVE  /\ todo[t] # {} => Next1(t) \in todo[t]
           /\ todo[t] \subseteq Parkable
           /\ t = "work" /\ pc["work"] \in {"park", "removed"} =>
                todo["work"] = {Next1("work")} /\ Next1("work") \in Parkable
<1>1. todo[t] \subseteq Parkable
  BY DEF TypeOK
<1>2. todo[t] # {} => Next1(t) \in todo[t]
  BY <1>1, CoresHaveBounds DEF Next1
<1>3. ASSUME t = "work", pc["work"] \in {"park", "removed"}
      PROVE  todo["work"] = {Next1("work")}
  <2>1. IsFiniteSet(todo["work"]) /\ Cardinality(todo["work"]) = 1
    BY <1>1, <1>3, FS_Subset, ParkingAssumption DEF TypeOK
  <2>2. \E c : todo["work"] = {c}
    BY <2>1, FS_Singleton
  <2>3. QED
    BY <1>2, <1>3, <2>2
<1>4. QED
  BY <1>1, <1>2, <1>3

(* Sets of cores are finite, and their sizes compare as the sets do.       *)
LEMMA CoreSets ==
    ASSUME NEW S, S \subseteq Parkable
    PROVE  /\ IsFiniteSet(S) /\ Cardinality(S) \in Nat
           /\ \A T \in SUBSET S : Cardinality(T) \in Nat /\ Cardinality(T) <= Cardinality(S)
           /\ \A c \in S : Cardinality(S \ {c}) = Cardinality(S) - 1
           /\ \A c : Cardinality(S \cup {c}) <= Cardinality(S) + 1
<1>1. IsFiniteSet(S) /\ Cardinality(S) \in Nat
  BY FS_Subset, FS_CardinalityType, ParkingAssumption
<1>2. \A T \in SUBSET S : Cardinality(T) \in Nat /\ Cardinality(T) <= Cardinality(S)
  BY <1>1, FS_Subset, FS_CardinalityType
<1>3. \A c \in S : Cardinality(S \ {c}) = Cardinality(S) - 1
  BY <1>1, FS_RemoveElement
<1>4. \A c : Cardinality(S \cup {c}) <= Cardinality(S) + 1
  BY <1>1, FS_AddElement
<1>5. QED
  BY <1>1, <1>2, <1>3, <1>4

(* What the driver has taken is counted, and counts less when cores come   *)
(* back.                                                                   *)
LEMMA TakenCounts ==
    ASSUME TypeOK
    PROVE  /\ Cardinality(taken) \in Nat /\ Cardinality(Parkable) \in Nat
           /\ taken' \subseteq taken =>
                Cardinality(taken') \in Nat /\ Cardinality(taken') <= Cardinality(taken)
<1>1. taken \subseteq Parkable
  BY DEF TypeOK
<1>2. QED
  BY <1>1, CoreSets

----------------------------------------------------------------------------
(* The invariant of the loaded module, action by action.                   *)

(* A core that is skipped is only no longer to do.                         *)
LEMMA SkipCpuKeepsParkingInv ==
    ASSUME ParkingInv, NEW t \in Threads, SkipCpu(t)
    PROVE  ParkingInv'
<1> USE DEF ParkingInv, SkipCpu, sample, Looking, Done1
<1>1. TypeOK'
  BY NextIsToDo DEF TypeOK, Threads
<1>2. PollingNeverStops'
  BY DEF PollingNeverStops, WillPoll, TypeOK, Threads
<1>3. SampleInv'
  BY NextIsToDo DEF SampleInv, TypeOK, Threads
<1>4. TakenWithinBudget'
  BY NextIsToDo DEF TakenWithinBudget, SampleInv, TypeOK, Threads
<1>5. QED
  BY <1>1, <1>2, <1>3, <1>4

(* A core that comes back is taken no longer; a refused one keeps its bit  *)
(* and is no longer to do.                                                 *)
LEMMA AddCpuKeepsParkingInv ==
    ASSUME ParkingInv, NEW t \in Threads, AddCpu(t)
    PROVE  ParkingInv'
<1> USE DEF ParkingInv, AddCpu, sample, Looking, Done1, BringUp, Refused, Goto
<1>1. /\ UNCHANGED <<parked, enabled, timer, setter, count, high, low, again>>
      /\ taken' \subseteq taken /\ online' \in {online, online \cup {Next1(t)}}
      /\ online' # online => taken' = taken \ {Next1(t)}
      /\ pc' \in {pc, [pc EXCEPT ![t] = "added"]}
      /\ todo' \in {todo, [todo EXCEPT ![t] = @ \ {Next1(t)}]}
      /\ pc[t] = "unpark" /\ Next1(t) \in Parkable
  BY DEF TypeOK
<1>2. failures' \in 0..MaxFailures
  BY ParkingAssumption DEF TypeOK
<1>3. TypeOK'
  <2>1. online' \subseteq Parkable /\ taken' \subseteq Parkable \ online'
    BY <1>1 DEF TypeOK
  <2>2. todo' \in [Threads -> SUBSET Parkable]
    BY <1>1 DEF TypeOK
  <2>3. /\ pc'["work"] \in {"park", "removed"} =>
             pc["work"] \in {"park", "removed"} /\ todo'["work"] = todo["work"]
        /\ DOMAIN pc' = Threads
        /\ pc'["work"] \in {"idle", "start", "decide", "park", "removed", "unpark", "added"}
        /\ pc'["exit"] \in {"loaded", "cancel", "unpark", "added", "gone"}
    BY <1>1 DEF TypeOK, Threads
  <2>4. QED
    BY <1>1, <1>2, <2>1, <2>2, <2>3 DEF TypeOK
<1>4. PollingNeverStops'
  BY DEF PollingNeverStops, WillPoll, TypeOK, Threads
<1>5. SampleInv'
  BY <1>1, TakenCounts DEF SampleInv, TypeOK, Threads
<1>6. TakenWithinBudget'
  BY <1>1, TakenCounts, ParkingAssumption, FS_EmptySet DEF TakenWithinBudget
<1>7. QED
  BY <1>3, <1>4, <1>5, <1>6

(* unpark_cpu clears the bit of the core it brought up.                    *)
LEMMA ClearBitKeepsParkingInv ==
    ASSUME ParkingInv, NEW t \in Threads, ClearBit(t)
    PROVE  ParkingInv'
<1> USE DEF ParkingInv, ClearBit, sample, Done1, Goto
<1>1. TypeOK'
  BY DEF TypeOK, Threads
<1>2. PollingNeverStops'
  BY DEF PollingNeverStops, WillPoll, TypeOK, Threads
<1>3. SampleInv'
  BY DEF SampleInv, TypeOK, Threads
<1>4. TakenWithinBudget'
  BY DEF TakenWithinBudget, SampleInv, TypeOK, Threads
<1>5. QED
  BY <1>1, <1>2, <1>3, <1>4

(* The timer that fires is gone, but the work function it starts will      *)
(* poll.                                                                   *)
LEMMA TimerFiresKeepsParkingInv ==
    ASSUME ParkingInv, TimerFires
    PROVE  ParkingInv'
<1> USE DEF ParkingInv, TimerFires, sample, Goto
<1>1. TypeOK'
  BY DEF TypeOK, Threads
<1>2. PollingNeverStops'
  BY DEF PollingNeverStops, WillPoll, TypeOK, Threads
<1>3. SampleInv'
  BY DEF SampleInv, TypeOK, Threads
<1>4. TakenWithinBudget'
  BY DEF TakenWithinBudget, SampleInv, TypeOK, Threads
<1>5. QED
  BY <1>1, <1>2, <1>3, <1>4

(* The work function gives up polling only where it saw parking disabled.  *)
LEMMA WorkDisabledKeepsParkingInv ==
    ASSUME ParkingInv, WorkDisabled
    PROVE  ParkingInv'
<1> USE DEF ParkingInv, WorkDisabled, sample, Goto
<1>1. TypeOK'
  BY DEF TypeOK, Threads
<1>2. PollingNeverStops'
  BY DEF PollingNeverStops, WillPoll, TypeOK, Threads
<1>3. SampleInv'
  BY DEF SampleInv, TypeOK, Threads
<1>4. TakenWithinBudget'
  BY DEF TakenWithinBudget, SampleInv, TypeOK, Threads
<1>5. QED
  BY <1>1, <1>2, <1>3, <1>4

(* The count of online cores leaves out every core the driver has taken,   *)
(* so that both together fit into the machine.                             *)
LEMMA SampleKeepsParkingInv ==
    ASSUME ParkingInv, Sample
    PROVE  ParkingInv'
<1> USE DEF ParkingInv, Sample, sample, Goto
<1>1. TypeOK'
  BY CoreSets DEF TypeOK, Threads
<1>2. PollingNeverStops'
  BY DEF PollingNeverStops, WillPoll, TypeOK, Threads
<1>3. SampleInv'
  <2>1. taken \subseteq Parkable \ online /\ online \subseteq Parkable
    BY DEF TypeOK
  <2>2. Cardinality(taken) <= Cardinality(Parkable \ online)
    BY <2>1, CoreSets
  <2>3. Cardinality(Parkable \ online) = Cardinality(Parkable) - Cardinality(online)
    BY <2>1, FS_Difference, ParkingAssumption, Parkable \cap online = online
  <2>4. Cardinality(taken) + count' <= Cardinality(Parkable)
    BY <2>1, <2>2, <2>3, CoreSets
  <2>5. taken' = taken /\ pc'["work"] = "decide"
    BY DEF TypeOK, Threads
  <2>6. QED
    BY <2>4, <2>5 DEF SampleInv
<1>4. TakenWithinBudget'
  BY CoreSets DEF TakenWithinBudget, SampleInv, TypeOK, Threads
<1>5. QED
  BY <1>1, <1>2, <1>3, <1>4

(* A tick chooses at most one core, and one to park only above min_online. *)
LEMMA DecideKeepsParkingInv ==
    ASSUME ParkingInv, Decide
    PROVE  ParkingInv'
<1> USE DEF ParkingInv, Decide, sample, Goto, Idle
<1>1. TypeOK'
  <2>1. /\ pc'["work"] \in {"park", "unpark"} /\ pc'["exit"] = pc["exit"]
        /\ DOMAIN pc' = Threads
    BY DEF TypeOK, Threads
  <2>2. CASE Busy
    <3>1. Lowest(parked) \in Parkable
      BY <2>2, CoresHaveBounds DEF Busy, TypeOK
    <3>2. todo' = [todo EXCEPT !["work"] = {Lowest(parked)}] /\ pc'["work"] = "unpark"
      BY <2>2 DEF TypeOK, Threads
    <3>3. QED
      BY <2>1, <3>1, <3>2 DEF TypeOK, Threads
  <2>3. CASE Idle
    <3>1. Highest(online \ parked) \in Parkable
      BY <2>3, CoresHaveBounds DEF TypeOK
    <3>2. todo' = [todo EXCEPT !["work"] = {Highest(online \ parked)}]
      BY <2>3
    <3>3. todo' \in [Threads -> SUBSET Parkable] /\ Cardinality(todo'["work"]) = 1
      BY <3>1, <3>2, FS_Singleton, SMTT(30) DEF TypeOK, Threads
    <3>4. QED
      BY <2>1, <3>3 DEF TypeOK
  <2>4. CASE ~Busy /\ ~Idle
    BY <2>1, <2>4 DEF TypeOK, Threads
  <2>5. QED
    BY <2>2, <2>3, <2>4
<1>2. PollingNeverStops'
  BY DEF PollingNeverStops, WillPoll, TypeOK, Threads
<1>3. SampleInv'
  BY DEF SampleInv, TypeOK, Threads
<1>4. TakenWithinBudget'
  BY DEF TakenWithinBudget
<1>5. QED
  BY <1>1, <1>2, <1>3, <1>4

(* The core that is parked was counted by a sample above min_online, and   *)
(* the driver has taken none since: one more stays within the budget.      *)
LEMMA RemoveCpuKeepsParkingInv ==
    ASSUME ParkingInv, RemoveCpu
    PROVE  ParkingInv'
<1> DEFINE c == Next1("work")
<1> USE DEF ParkingInv, RemoveCpu, sample
<1>1. /\ UNCHANGED <<parked, enabled, timer, setter, count, high, low, again>>
      /\ todo["work"] = {c} /\ c \in Parkable /\ pc["work"] = "park"
  BY NextIsToDo DEF Threads
<1>2. CASE c \in online /\ online' = online \ {c} /\ taken' = taken \cup {c}
           /\ Goto("work", "removed") /\ UNCHANGED <<todo, failures>>
  <2> USE DEF Goto
  <2>1. TypeOK'
    <3>1. taken' \subseteq Parkable \ online' /\ online' \subseteq Parkable
      BY <1>1, <1>2 DEF TypeOK
    <3>2. QED
      BY <1>1, <1>2, <3>1 DEF TypeOK, Threads
  <2>2. PollingNeverStops' /\ SampleInv'
    BY <1>1, <1>2 DEF PollingNeverStops, WillPoll, SampleInv, TypeOK, Threads
  <2>3. TakenWithinBudget'
    <3>1. Cardinality(taken') <= Cardinality(taken) + 1 /\ Cardinality(taken') \in Nat
      <4>1. taken \subseteq Parkable /\ taken' \subseteq Parkable
        BY <1>1, <1>2 DEF TypeOK
      <4>2. QED
        BY <1>2, <4>1, CoreSets
    <3>2. Cardinality(taken) + count <= Cardinality(Parkable) /\ count > MinOnline
          /\ count \in Nat
      BY <1>1, TakenCounts DEF SampleInv, TypeOK
    <3>3. QED
      BY <3>1, <3>2, TakenCounts, ParkingAssumption DEF TakenWithinBudget
  <2>4. QED
    BY <2>1, <2>2, <2>3
<1>3. CASE failures' \in {failures, failures + 1} /\ failures' \in 0..MaxFailures
           /\ Done1("work") /\ Goto("work", "unpark") /\ UNCHANGED <<online, taken>>
  <2> USE DEF Goto, Done1
  <2>1. TypeOK'
    BY <1>1, <1>3 DEF TypeOK, Threads
  <2>2. PollingNeverStops' /\ SampleInv' /\ TakenWithinBudget'
    BY <1>1, <1>3 DEF PollingNeverStops, WillPoll, SampleInv, TakenWithinBudget, TypeOK,
                      Threads
  <2>3. QED
    BY <2>1, <2>2
<1>4. QED
  <2>1. failures \in 0..MaxFailures /\ (Refused => failures' \in 0..MaxFailures)
    BY ParkingAssumption DEF Refused, TypeOK
  <2>2. QED
    BY <1>2, <1>3, <2>1 DEF Refused

(* park_cpu sets the bit of the core it took.                              *)
LEMMA SetBitKeepsParkingInv ==
    ASSUME ParkingInv, SetBit
    PROVE  ParkingInv'
<1> USE DEF ParkingInv, SetBit, sample, Goto, Done1
<1>1. TypeOK'
  BY NextIsToDo DEF TypeOK, Threads
<1>2. PollingNeverStops'
  BY DEF PollingNeverStops, WillPoll, TypeOK, Threads
<1>3. SampleInv'
  BY NextIsToDo DEF SampleInv, TypeOK, Threads
<1>4. TakenWithinBudget'
  BY NextIsToDo DEF TakenWithinBudget, SampleInv, TypeOK, Threads
<1>5. QED
  BY <1>1, <1>2, <1>3, <1>4

(* A work function that will poll again schedules itself before it         *)
(* returns.                                                                *)
LEMMA WorkReturnsKeepsParkingInv ==
    ASSUME ParkingInv, WorkReturns
    PROVE  ParkingInv'
<1> USE DEF ParkingInv, WorkReturns, sample, Goto, Schedule
<1>1. TypeOK'
  BY DEF TypeOK, Threads
<1>2. PollingNeverStops'
  BY DEF PollingNeverStops, WillPoll, TypeOK, Threads
<1>3. SampleInv'
  BY DEF SampleInv, TypeOK, Threads
<1>4. TakenWithinBudget'
  BY DEF TakenWithinBudget, SampleInv, TypeOK, Threads
<1>5. QED
  BY <1>1, <1>2, <1>3, <1>4

(* Turning parking on again goes on to re-arm the work.                    *)
LEMMA WriteEnabledKeepsParkingInv ==
    ASSUME ParkingInv, NEW v \in BOOLEAN, WriteEnabled(v)
    PROVE  ParkingInv'
<1> USE DEF ParkingInv, WriteEnabled, sample
<1>1. TypeOK'
  BY DEF TypeOK, Threads
<1>2. PollingNeverStops'
  BY DEF PollingNeverStops, WillPoll, TypeOK, Threads
<1>3. SampleInv'
  BY DEF SampleInv, TypeOK, Threads
<1>4. TakenWithinBudget'
  BY DEF TakenWithinBudget, SampleInv, TypeOK, Threads
<1>5. QED
  BY <1>1, <1>2, <1>3, <1>4

(* Re-arming sets the timer unless the module is leaving.                  *)
LEMMA ReArmKeepsParkingInv ==
    ASSUME ParkingInv, ReArm
    PROVE  ParkingInv'
<1> USE DEF ParkingInv, ReArm, sample, Schedule
<1>1. TypeOK'
  BY DEF TypeOK, Threads
<1>2. PollingNeverStops'
  BY DEF PollingNeverStops, WillPoll, TypeOK, Threads
<1>3. SampleInv'
  BY DEF SampleInv, TypeOK, Threads
<1>4. TakenWithinBudget'
  BY DEF TakenWithinBudget, SampleInv, TypeOK, Threads
<1>5. QED
  BY <1>1, <1>2, <1>3, <1>4

(* From the exit on polling is over.                                       *)
LEMMA BeginExitKeepsParkingInv ==
    ASSUME ParkingInv, BeginExit
    PROVE  ParkingInv'
<1> USE DEF ParkingInv, BeginExit, sample, Goto
<1>1. TypeOK'
  BY DEF TypeOK, Threads
<1>2. PollingNeverStops'
  BY DEF PollingNeverStops, WillPoll, TypeOK, Threads
<1>3. SampleInv'
  BY DEF SampleInv, TypeOK, Threads
<1>4. TakenWithinBudget'
  BY DEF TakenWithinBudget, SampleInv, TypeOK, Threads
<1>5. QED
  BY <1>1, <1>2, <1>3, <1>4

(* unpark_all has every parkable core to look at.                          *)
LEMMA CancelledKeepsParkingInv ==
    ASSUME ParkingInv, Cancelled
    PROVE  ParkingInv'
<1> USE DEF ParkingInv, Cancelled, sample, Goto
<1>1. TypeOK'
  BY DEF TypeOK, Threads
<1>2. PollingNeverStops'
  BY DEF PollingNeverStops, WillPoll, TypeOK, Threads
<1>3. SampleInv'
  BY DEF SampleInv, TypeOK, Threads
<1>4. TakenWithinBudget'
  BY DEF TakenWithinBudget, SampleInv, TypeOK, Threads
<1>5. QED
  BY <1>1, <1>2, <1>3, <1>4

(* The exit returns.                                                       *)
LEMMA UnloadedKeepsParkingInv ==
    ASSUME ParkingInv, Unloaded
    PROVE  ParkingInv'
<1> USE DEF ParkingInv, Unloaded, sample, Goto
<1>1. TypeOK'
  BY DEF TypeOK, Threads
<1>2. PollingNeverStops'
  BY DEF PollingNeverStops, WillPoll, TypeOK, Threads
<1>3. SampleInv'
  BY DEF SampleInv, TypeOK, Threads
<1>4. TakenWithinBudget'
  BY DEF TakenWithinBudget, SampleInv, TypeOK, Threads
<1>5. QED
  BY <1>1, <1>2, <1>3, <1>4

(* A module that is loaded again has its timer set.                        *)
LEMMA LoadKeepsParkingInv ==
    ASSUME ParkingInv, Load
    PROVE  ParkingInv'
<1> USE DEF ParkingInv, Load, sample, Goto
<1>1. TypeOK'
  BY DEF TypeOK, Threads
<1>2. PollingNeverStops'
  BY DEF PollingNeverStops, WillPoll, TypeOK, Threads
<1>3. SampleInv'
  BY DEF SampleInv, TypeOK, Threads
<1>4. TakenWithinBudget'
  BY DEF TakenWithinBudget, SampleInv, TypeOK, Threads
<1>5. QED
  BY <1>1, <1>2, <1>3, <1>4

(* CPU hotplug takes no core for the driver, and may give one back.        *)
LEMMA AdminSetsKeepsParkingInv ==
    ASSUME ParkingInv, NEW c \in Parkable, AdminSets(c)
    PROVE  ParkingInv'
<1> USE DEF ParkingInv, AdminSets, sample, BringUp
<1>1. TypeOK'
  BY CoreSets DEF TypeOK, Threads
<1>2. PollingNeverStops'
  BY DEF PollingNeverStops, WillPoll, TypeOK, Threads
<1>3. SampleInv'
  BY CoreSets DEF SampleInv, TypeOK, Threads
<1>4. TakenWithinBudget'
  <2>1. taken' \subseteq taken
    OBVIOUS
  <2>2. QED
    BY <2>1, TakenCounts, ParkingAssumption DEF TakenWithinBudget
<1>5. QED
  BY <1>1, <1>2, <1>3, <1>4

(* A step that changes nothing.                                            *)
LEMMA StutterKeepsParkingInv ==
    ASSUME ParkingInv, UNCHANGED vars
    PROVE  ParkingInv'
  BY DEF ParkingInv, TypeOK, PollingNeverStops, WillPoll, SampleInv, TakenWithinBudget,
         vars, sample

(* The module has just been loaded: all cores are online and the timer is  *)
(* set.                                                                    *)
LEMMA InitEstablishesParkingInv == Init => ParkingInv
<1> SUFFICES ASSUME Init PROVE ParkingInv
  OBVIOUS
<1>1. Cardinality(Parkable) \in Nat
  BY FS_CardinalityType, ParkingAssumption
<1>2. TypeOK
  <2>1. todo \in [Threads -> SUBSET Parkable] /\ DOMAIN pc = Threads
        /\ pc["work"] = "idle" /\ pc["exit"] = "loaded"
    BY DEF Init, Threads
  <2>2. count \in 0..Cardinality(Parkable) /\ failures \in 0..MaxFailures
    BY <1>1, ParkingAssumption DEF Init
  <2>3. {enabled, timer, high, low, again} \subseteq BOOLEAN
    BY DEF Init
  <2>4. QED
    BY <2>1, <2>2, <2>3 DEF Init, TypeOK
<1>3. QED
  BY <1>2 DEF Init, ParkingInv, PollingNeverStops, SampleInv, TakenWithinBudget

(* Every step of the module, of a writer, and of hotplug keeps it.         *)
LEMMA NextKeepsParkingInv == ParkingInv /\ [Next]_vars => ParkingInv'
<1> SUFFICES ASSUME ParkingInv, [Next]_vars PROVE ParkingInv'
  OBVIOUS
<1>1. ASSUME NEW t \in Threads, UnparkStep(t) PROVE ParkingInv'
  BY <1>1, SkipCpuKeepsParkingInv, AddCpuKeepsParkingInv, ClearBitKeepsParkingInv
     DEF UnparkStep
<1>2. CASE WorkStep
  BY <1>1, <1>2, TimerFiresKeepsParkingInv, WorkDisabledKeepsParkingInv,
     SampleKeepsParkingInv, DecideKeepsParkingInv, RemoveCpuKeepsParkingInv,
     SetBitKeepsParkingInv, WorkReturnsKeepsParkingInv DEF WorkStep, Threads
<1>3. CASE ExitStep
  BY <1>1, <1>3, CancelledKeepsParkingInv, UnloadedKeepsParkingInv DEF ExitStep, Threads
<1>4. CASE ReArm \/ BeginExit \/ Load
  BY <1>4, ReArmKeepsParkingInv, BeginExitKeepsParkingInv, LoadKeepsParkingInv
<1>5. ASSUME NEW v \in BOOLEAN, WriteEnabled(v) PROVE ParkingInv'
  BY <1>5, WriteEnabledKeepsParkingInv
<1>6. ASSUME NEW c \in Parkable, AdminSets(c) PROVE ParkingInv'
  BY <1>6, AdminSetsKeepsParkingInv
<1>7. CASE UNCHANGED vars
  BY <1>7, StutterKeepsParkingInv
<1>8. QED
  BY <1>2, <1>3, <1>4, <1>5, <1>6, <1>7 DEF Next

(* The invariant of the loaded module holds in every reachable state.      *)
LEMMA ParkingInvariant == Spec => []ParkingInv
<1>1. Init => ParkingInv
  BY InitEstablishesParkingInv
<1>2. ParkingInv /\ [Next]_vars => ParkingInv'
  BY NextKeepsParkingInv
<1>3. QED
  BY <1>1, <1>2, PTL DEF Spec

----------------------------------------------------------------------------
(* What is remembered across parking and unloading, action by action, when *)
(* no writer races the unload.                                             *)

(* A step that forgets no core beyond those the kernel refuses with it     *)
(* keeps the count.                                                        *)
LEMMA ForgottenCounts ==
    ASSUME TypeOK, TypeOK', Cardinality(taken \ Remembered) <= failures,
           \/ /\ taken' \ Remembered' \subseteq taken \ Remembered
              /\ failures <= failures'
           \/ /\ \E c \in Parkable : taken' \ Remembered' \subseteq (taken \ Remembered) \cup {c}
              /\ failures' = failures + 1
    PROVE  Cardinality(taken' \ Remembered') <= failures'
<1> DEFINE Old == taken \ Remembered
           New == taken' \ Remembered'
<1>1. Old \subseteq Parkable /\ New \subseteq Parkable /\ failures \in Nat /\ failures' \in Nat
  BY DEF TypeOK
<1>2. Cardinality(Old) \in Nat /\ Cardinality(New) \in Nat /\ Cardinality(Old) <= failures
  BY <1>1, CoreSets
<1>3. CASE New \subseteq Old /\ failures <= failures'
  <2>1. Cardinality(New) <= Cardinality(Old)
    BY <1>1, <1>3, CoreSets
  <2> HIDE DEF Old, New
  <2>2. Cardinality(New) <= failures'
    BY <1>1, <1>2, <1>3, <2>1
  <2>3. QED
    BY <2>2 DEF New
<1>4. ASSUME NEW c \in Parkable, New \subseteq Old \cup {c}, failures' = failures + 1
      PROVE  Cardinality(New) <= failures'
  <2>1. Old \cup {c} \subseteq Parkable
    BY <1>1
  <2>2. Cardinality(New) <= Cardinality(Old \cup {c}) /\ Cardinality(Old \cup {c}) \in Nat
    BY <1>1, <1>4, <2>1, CoreSets
  <2>3. Cardinality(Old \cup {c}) <= Cardinality(Old) + 1
    BY <1>1, CoreSets
  <2> HIDE DEF Old, New
  <2>4. QED
    BY <1>1, <1>2, <1>4, <2>2, <2>3
<1>5. QED
  BY <1>3, <1>4

(* A core that is skipped is up, or was forgotten before.                  *)
LEMMA SkipCpuKeepsUnloadInv ==
    ASSUME ~RacyUnload, TypeOK, TypeOK', UnloadInv, NEW t \in Threads, SkipCpu(t)
    PROVE  UnloadInv'
<1> USE DEF UnloadInv, SkipCpu, Looking, Done1
<1>1. QuietInv'
  BY DEF QuietInv, TypeOK, Threads
<1>2. \A s \in Threads : pc'[s] = "added" => Next1(s)' \notin taken'
  BY NextIsToDo DEF MemoryInv, QuietInv, TypeOK, Threads, Next1
<1>3. taken' \ Remembered' \subseteq taken \ Remembered /\ failures <= failures'
  BY NextIsToDo DEF Remembered, MemoryInv, QuietInv, TypeOK, Threads, Next1
<1>4. QED
  BY <1>1, <1>2, <1>3, ForgottenCounts DEF MemoryInv

(* Only a refused core is forgotten, and it is counted.                    *)
LEMMA AddCpuKeepsUnloadInv ==
    ASSUME ~RacyUnload, TypeOK, TypeOK', UnloadInv, NEW t \in Threads, AddCpu(t)
    PROVE  UnloadInv'
<1> USE DEF UnloadInv, AddCpu, Looking, Done1, BringUp, Refused, Goto
<1>1. QuietInv'
  BY DEF QuietInv, TypeOK, Threads
<1>2. \A s \in Threads : pc'[s] = "added" => Next1(s)' \notin taken'
  BY NextIsToDo DEF MemoryInv, QuietInv, TypeOK, Threads, Next1
<1>3. \/ taken' \ Remembered' \subseteq taken \ Remembered /\ failures <= failures'
      \/ /\ \E c \in Parkable : taken' \ Remembered' \subseteq (taken \ Remembered) \cup {c}
         /\ failures' = failures + 1
  BY NextIsToDo DEF Remembered, MemoryInv, QuietInv, TypeOK, Threads, Next1
<1>4. QED
  BY <1>1, <1>2, <1>3, ForgottenCounts DEF MemoryInv

(* The core whose bit is cleared is back, so that nothing is forgotten.    *)
LEMMA ClearBitKeepsUnloadInv ==
    ASSUME ~RacyUnload, TypeOK, TypeOK', UnloadInv, NEW t \in Threads, ClearBit(t)
    PROVE  UnloadInv'
<1> USE DEF UnloadInv, ClearBit, Done1, Goto
<1>1. QuietInv'
  BY DEF QuietInv, TypeOK, Threads
<1>2. \A s \in Threads : pc'[s] = "added" => Next1(s)' \notin taken'
  BY DEF MemoryInv, QuietInv, TypeOK, Threads, Next1
<1>3. taken' \ Remembered' \subseteq taken \ Remembered /\ failures <= failures'
  BY DEF Remembered, MemoryInv, QuietInv, TypeOK, Threads, Next1
<1>4. QED
  BY <1>1, <1>2, <1>3, ForgottenCounts DEF MemoryInv

(* Only a timer that the exit has not cancelled starts the work.           *)
LEMMA TimerFiresKeepsUnloadInv ==
    ASSUME ~RacyUnload, TypeOK, TypeOK', UnloadInv, TimerFires
    PROVE  UnloadInv'
<1> USE DEF UnloadInv, TimerFires, Goto
<1>1. QuietInv'
  BY DEF QuietInv, TypeOK, Threads
<1>2. \A t \in Threads : pc'[t] = "added" => Next1(t)' \notin taken'
  BY DEF MemoryInv, QuietInv, TypeOK, Threads, Next1
<1>3. taken' \ Remembered' \subseteq taken \ Remembered /\ failures <= failures'
  BY DEF Remembered, MemoryInv, QuietInv, TypeOK, Threads, Next1
<1>4. QED
  BY <1>1, <1>2, <1>3, ForgottenCounts DEF MemoryInv

(* What the work function of a disabled module has to do forgets nothing.  *)
LEMMA WorkDisabledKeepsUnloadInv ==
    ASSUME ~RacyUnload, TypeOK, TypeOK', UnloadInv, WorkDisabled
    PROVE  UnloadInv'
<1> USE DEF UnloadInv, WorkDisabled, Goto
<1>1. QuietInv'
  BY DEF QuietInv, TypeOK, Threads
<1>2. \A t \in Threads : pc'[t] = "added" => Next1(t)' \notin taken'
  BY DEF MemoryInv, QuietInv, TypeOK, Threads, Next1
<1>3. taken' \ Remembered' \subseteq taken \ Remembered /\ failures <= failures'
  BY DEF Remembered, MemoryInv, QuietInv, TypeOK, Threads, Next1
<1>4. QED
  BY <1>1, <1>2, <1>3, ForgottenCounts DEF MemoryInv

(* A sample changes no core.                                               *)
LEMMA SampleKeepsUnloadInv ==
    ASSUME ~RacyUnload, TypeOK, TypeOK', UnloadInv, Sample
    PROVE  UnloadInv'
<1> USE DEF UnloadInv, Sample, Goto
<1>1. QuietInv'
  BY DEF QuietInv, TypeOK, Threads
<1>2. \A t \in Threads : pc'[t] = "added" => Next1(t)' \notin taken'
  BY DEF MemoryInv, QuietInv, TypeOK, Threads, Next1
<1>3. taken' \ Remembered' \subseteq taken \ Remembered /\ failures <= failures'
  BY DEF Remembered, MemoryInv, QuietInv, TypeOK, Threads, Next1
<1>4. QED
  BY <1>1, <1>2, <1>3, ForgottenCounts DEF MemoryInv

(* A decision changes no core.                                             *)
LEMMA DecideKeepsUnloadInv ==
    ASSUME ~RacyUnload, TypeOK, TypeOK', UnloadInv, Decide
    PROVE  UnloadInv'
<1> USE DEF UnloadInv, Decide, Goto
<1>1. QuietInv'
  BY DEF QuietInv, TypeOK, Threads
<1>2. \A t \in Threads : pc'[t] = "added" => Next1(t)' \notin taken'
  BY DEF MemoryInv, QuietInv, TypeOK, Threads, Next1
<1>3. taken' \ Remembered' \subseteq taken \ Remembered /\ failures <= failures'
  BY DEF Remembered, MemoryInv, QuietInv, TypeOK, Threads, Next1
<1>4. QED
  BY <1>1, <1>2, <1>3, ForgottenCounts DEF MemoryInv

(* A core taken offline is remembered before its bit is set.               *)
LEMMA RemoveCpuKeepsUnloadInv ==
    ASSUME ~RacyUnload, TypeOK, TypeOK', UnloadInv, RemoveCpu
    PROVE  UnloadInv'
<1> USE DEF UnloadInv, RemoveCpu, Goto, Refused, Done1
<1>1. QuietInv'
  BY DEF QuietInv, TypeOK, Threads
<1>2. \A t \in Threads : pc'[t] = "added" => Next1(t)' \notin taken'
  BY NextIsToDo DEF MemoryInv, QuietInv, TypeOK, Threads, Next1
<1>3. taken' \ Remembered' \subseteq taken \ Remembered /\ failures <= failures'
  BY NextIsToDo DEF Remembered, MemoryInv, QuietInv, TypeOK, Threads, Next1
<1>4. QED
  BY <1>1, <1>2, <1>3, ForgottenCounts DEF MemoryInv

(* The core on its way into the mask arrives there.                        *)
LEMMA SetBitKeepsUnloadInv ==
    ASSUME ~RacyUnload, TypeOK, TypeOK', UnloadInv, SetBit
    PROVE  UnloadInv'
<1> USE DEF UnloadInv, SetBit, Goto, Done1
<1>1. QuietInv'
  BY DEF QuietInv, TypeOK, Threads
<1>2. \A t \in Threads : pc'[t] = "added" => Next1(t)' \notin taken'
  BY DEF MemoryInv, QuietInv, TypeOK, Threads, Next1
<1>3. taken' \ Remembered' \subseteq taken \ Remembered /\ failures <= failures'
  BY DEF Remembered, MemoryInv, QuietInv, TypeOK, Threads, Next1
<1>4. QED
  BY <1>1, <1>2, <1>3, ForgottenCounts DEF MemoryInv

(* A work function that returns while it is being cancelled queues         *)
(* nothing.                                                                *)
LEMMA WorkReturnsKeepsUnloadInv ==
    ASSUME ~RacyUnload, TypeOK, TypeOK', UnloadInv, WorkReturns
    PROVE  UnloadInv'
<1> USE DEF UnloadInv, WorkReturns, Goto, Schedule
<1>1. QuietInv'
  BY DEF QuietInv, TypeOK, Threads
<1>2. \A t \in Threads : pc'[t] = "added" => Next1(t)' \notin taken'
  BY DEF MemoryInv, QuietInv, TypeOK, Threads, Next1
<1>3. taken' \ Remembered' \subseteq taken \ Remembered /\ failures <= failures'
  BY DEF Remembered, MemoryInv, QuietInv, TypeOK, Threads, Next1
<1>4. QED
  BY <1>1, <1>2, <1>3, ForgottenCounts DEF MemoryInv

(* Where no writer races the unload, `enabled` is written only while the   *)
(* module stays loaded.                                                    *)
LEMMA WriteEnabledKeepsUnloadInv ==
    ASSUME ~RacyUnload, TypeOK, TypeOK', UnloadInv, NEW v \in BOOLEAN, WriteEnabled(v)
    PROVE  UnloadInv'
<1> USE DEF UnloadInv, WriteEnabled, MayWrite
<1>1. QuietInv'
  BY DEF QuietInv, TypeOK, Threads
<1>2. \A t \in Threads : pc'[t] = "added" => Next1(t)' \notin taken'
  BY DEF MemoryInv, QuietInv, TypeOK, Threads, Next1
<1>3. taken' \ Remembered' \subseteq taken \ Remembered /\ failures <= failures'
  BY DEF Remembered, MemoryInv, QuietInv, TypeOK, Threads, Next1
<1>4. QED
  BY <1>1, <1>2, <1>3, ForgottenCounts DEF MemoryInv

(* A writer re-arms the work only before the exit has begun.               *)
LEMMA ReArmKeepsUnloadInv ==
    ASSUME ~RacyUnload, TypeOK, TypeOK', UnloadInv, ReArm
    PROVE  UnloadInv'
<1> USE DEF UnloadInv, ReArm, Schedule
<1>1. QuietInv'
  BY DEF QuietInv, TypeOK, Threads
<1>2. \A t \in Threads : pc'[t] = "added" => Next1(t)' \notin taken'
  BY DEF MemoryInv, QuietInv, TypeOK, Threads, Next1
<1>3. taken' \ Remembered' \subseteq taken \ Remembered /\ failures <= failures'
  BY DEF Remembered, MemoryInv, QuietInv, TypeOK, Threads, Next1
<1>4. QED
  BY <1>1, <1>2, <1>3, ForgottenCounts DEF MemoryInv

(* The exit begins when no writer is about, and cancels the timer.         *)
LEMMA BeginExitKeepsUnloadInv ==
    ASSUME ~RacyUnload, TypeOK, TypeOK', UnloadInv, BeginExit
    PROVE  UnloadInv'
<1> USE DEF UnloadInv, BeginExit, Goto
<1>1. QuietInv'
  BY DEF QuietInv, TypeOK, Threads
<1>2. \A t \in Threads : pc'[t] = "added" => Next1(t)' \notin taken'
  BY DEF MemoryInv, QuietInv, TypeOK, Threads, Next1
<1>3. taken' \ Remembered' \subseteq taken \ Remembered /\ failures <= failures'
  BY DEF Remembered, MemoryInv, QuietInv, TypeOK, Threads, Next1
<1>4. QED
  BY <1>1, <1>2, <1>3, ForgottenCounts DEF MemoryInv

(* unpark_all starts with every core.                                      *)
LEMMA CancelledKeepsUnloadInv ==
    ASSUME ~RacyUnload, TypeOK, TypeOK', UnloadInv, Cancelled
    PROVE  UnloadInv'
<1> USE DEF UnloadInv, Cancelled, Goto
<1>1. QuietInv'
  BY DEF QuietInv, TypeOK, Threads
<1>2. \A t \in Threads : pc'[t] = "added" => Next1(t)' \notin taken'
  BY DEF MemoryInv, QuietInv, TypeOK, Threads, Next1
<1>3. taken' \ Remembered' \subseteq taken \ Remembered /\ failures <= failures'
  BY DEF Remembered, MemoryInv, QuietInv, TypeOK, Threads, Next1
<1>4. QED
  BY <1>1, <1>2, <1>3, ForgottenCounts DEF MemoryInv

(* At the end nothing is left to look at: what is still taken is what the  *)
(* kernel refused.                                                         *)
LEMMA UnloadedKeepsUnloadInv ==
    ASSUME ~RacyUnload, TypeOK, TypeOK', UnloadInv, Unloaded
    PROVE  UnloadInv'
<1> USE DEF UnloadInv, Unloaded, Goto
<1>1. QuietInv'
  BY DEF QuietInv, TypeOK, Threads
<1>2. \A t \in Threads : pc'[t] = "added" => Next1(t)' \notin taken'
  BY DEF MemoryInv, QuietInv, TypeOK, Threads, Next1
<1>3. taken' \ Remembered' \subseteq taken \ Remembered /\ failures <= failures'
  BY DEF Remembered, MemoryInv, QuietInv, TypeOK, Threads, Next1
<1>4. QED
  BY <1>1, <1>2, <1>3, ForgottenCounts DEF MemoryInv

(* The new module knows of no core; those left behind by the old one were  *)
(* refused.                                                                *)
LEMMA LoadKeepsUnloadInv ==
    ASSUME ~RacyUnload, TypeOK, TypeOK', UnloadInv, Load
    PROVE  UnloadInv'
<1> USE DEF UnloadInv, Load, Goto
<1>1. QuietInv'
  BY DEF QuietInv, TypeOK, Threads
<1>2. \A t \in Threads : pc'[t] = "added" => Next1(t)' \notin taken'
  BY DEF MemoryInv, QuietInv, TypeOK, Threads, Next1
<1>3. taken' \ Remembered' \subseteq taken \ Remembered /\ failures <= failures'
  BY DEF Remembered, MemoryInv, QuietInv, TypeOK, Threads, Next1
<1>4. QED
  BY <1>1, <1>2, <1>3, ForgottenCounts DEF MemoryInv

(* Hotplug that brings a core back shrinks what is taken.                  *)
LEMMA AdminSetsKeepsUnloadInv ==
    ASSUME ~RacyUnload, TypeOK, TypeOK', UnloadInv, NEW c \in Parkable, AdminSets(c)
    PROVE  UnloadInv'
<1> USE DEF UnloadInv, AdminSets, BringUp
<1>1. QuietInv'
  BY DEF QuietInv, TypeOK, Threads
<1>2. \A t \in Threads : pc'[t] = "added" => Next1(t)' \notin taken'
  BY DEF MemoryInv, QuietInv, TypeOK, Threads, Next1
<1>3. taken' \ Remembered' \subseteq taken \ Remembered /\ failures <= failures'
  BY DEF Remembered, MemoryInv, QuietInv, TypeOK, Threads, Next1
<1>4. QED
  BY <1>1, <1>2, <1>3, ForgottenCounts DEF MemoryInv

(* A step that changes nothing.                                            *)
LEMMA StutterKeepsUnloadInv ==
    ASSUME UnloadInv, UNCHANGED vars
    PROVE  UnloadInv'
  BY DEF UnloadInv, QuietInv, MemoryInv, Remembered, Next1, vars

(* Nothing is taken and the exit has not begun.                            *)
LEMMA InitEstablishesUnloadInv == Init => UnloadInv
<1> SUFFICES ASSUME Init PROVE UnloadInv
  OBVIOUS
<1>1. QuietInv /\ \A t \in Threads : pc[t] # "added"
  BY DEF Init, QuietInv, Threads
<1>2. taken \ Remembered = {} /\ failures = 0
  BY DEF Init
<1>3. QED
  BY <1>1, <1>2, FS_EmptySet DEF UnloadInv, MemoryInv

(* Every step keeps it.                                                    *)
LEMMA NextKeepsUnloadInv ==
    ~RacyUnload /\ TypeOK /\ TypeOK' /\ UnloadInv /\ [Next]_vars => UnloadInv'
<1> SUFFICES ASSUME ~RacyUnload, TypeOK, TypeOK', UnloadInv, [Next]_vars PROVE UnloadInv'
  OBVIOUS
<1>1. ASSUME NEW t \in Threads, UnparkStep(t) PROVE UnloadInv'
  BY <1>1, SkipCpuKeepsUnloadInv, AddCpuKeepsUnloadInv, ClearBitKeepsUnloadInv
     DEF UnparkStep
<1>2. CASE WorkStep
  BY <1>1, <1>2, TimerFiresKeepsUnloadInv, WorkDisabledKeepsUnloadInv,
     SampleKeepsUnloadInv, DecideKeepsUnloadInv, RemoveCpuKeepsUnloadInv,
     SetBitKeepsUnloadInv, WorkReturnsKeepsUnloadInv DEF WorkStep, Threads
<1>3. CASE ExitStep
  BY <1>1, <1>3, CancelledKeepsUnloadInv, UnloadedKeepsUnloadInv DEF ExitStep, Threads
<1>4. CASE ReArm \/ BeginExit \/ Load
  BY <1>4, ReArmKeepsUnloadInv, BeginExitKeepsUnloadInv, LoadKeepsUnloadInv
<1>5. ASSUME NEW v \in BOOLEAN, WriteEnabled(v) PROVE UnloadInv'
  BY <1>5, WriteEnabledKeepsUnloadInv
<1>6. ASSUME NEW c \in Parkable, AdminSets(c) PROVE UnloadInv'
  BY <1>6, AdminSetsKeepsUnloadInv
<1>7. CASE UNCHANGED vars
  BY <1>7, StutterKeepsUnloadInv
<1>8. QED
  BY <1>2, <1>3, <1>4, <1>5, <1>6, <1>7 DEF Next

(* Where no writer races the unload, no core is forgotten and no work      *)
(* outlives the exit.                                                      *)
LEMMA UnloadInvariant ==
    ASSUME ~RacyUnload
    PROVE  Spec => []UnloadInv
<1>1. Init => UnloadInv
  BY InitEstablishesUnloadInv
<1>2. ParkingInv /\ ParkingInv' /\ UnloadInv /\ [Next]_vars => UnloadInv'
  BY NextKeepsUnloadInv DEF ParkingInv
<1>3. QED
  BY <1>1, <1>2, ParkingInvariant, PTL DEF Spec

----------------------------------------------------------------------------
(* The theorems.                                                           *)

(* The variables keep their types, and a tick takes at most one core.      *)
THEOREM TypeCorrect == Spec => []TypeOK
<1>1. ParkingInv => TypeOK
  BY DEF ParkingInv
<1>2. QED
  BY <1>1, ParkingInvariant, PTL

(* While parking is enabled the next tick is on its way.                   *)
THEOREM PollingGoesOn == Spec => []PollingNeverStops
<1>1. ParkingInv => PollingNeverStops
  BY DEF ParkingInv
<1>2. QED
  BY <1>1, ParkingInvariant, PTL

(* The driver never takes more cores than min_online leaves it.            *)
THEOREM BudgetKept == Spec => []TakenWithinBudget
<1>1. ParkingInv => TakenWithinBudget
  BY DEF ParkingInv
<1>2. QED
  BY <1>1, ParkingInvariant, PTL

(* When no writer races the unload, the driver forgets only cores that the *)
(* kernel refused to bring back.                                           *)
THEOREM TakenNotForgotten ==
    ASSUME ~RacyUnload
    PROVE  Spec => []TakenIsRemembered
<1>1. ParkingInv /\ UnloadInv => TakenIsRemembered
  <2> SUFFICES ASSUME TypeOK, UnloadInv, pc["exit"] # "gone"
               PROVE  Cardinality(taken \ parked) <=
                        failures + (IF pc["work"] = "removed" THEN 1 ELSE 0)
    BY DEF ParkingInv, TakenIsRemembered
  <2> DEFINE Forgotten == taken \ Remembered
  <2>1. Forgotten \subseteq Parkable /\ Cardinality(Forgotten) <= failures
        /\ taken \ parked \subseteq Parkable /\ failures \in Nat
    BY DEF UnloadInv, MemoryInv, TypeOK
  <2>2. CASE pc["work"] = "removed"
    <3>1. taken \ parked \subseteq Forgotten \cup {Next1("work")}
          /\ Forgotten \cup {Next1("work")} \subseteq Parkable
      BY <2>1, <2>2, NextIsToDo DEF UnloadInv, QuietInv, TypeOK, Remembered, Threads
    <3> HIDE DEF Forgotten
    <3>2. Cardinality(taken \ parked) <= Cardinality(Forgotten \cup {Next1("work")})
          /\ Cardinality(taken \ parked) \in Nat
          /\ Cardinality(Forgotten \cup {Next1("work")}) \in Nat
      BY <3>1, CoreSets
    <3>3. Cardinality(Forgotten \cup {Next1("work")}) <= Cardinality(Forgotten) + 1
          /\ Cardinality(Forgotten) \in Nat
      BY <2>1, CoreSets
    <3>4. QED
      BY <2>1, <2>2, <3>2, <3>3
  <2>3. CASE pc["work"] # "removed"
    <3>1. taken \ parked \subseteq Forgotten
      BY <2>3 DEF TypeOK, Remembered
    <3> HIDE DEF Forgotten
    <3>2. Cardinality(taken \ parked) <= Cardinality(Forgotten)
          /\ Cardinality(taken \ parked) \in Nat /\ Cardinality(Forgotten) \in Nat
      BY <2>1, <3>1, CoreSets
    <3>3. QED
      BY <2>1, <2>3, <3>2
  <2>4. QED
    BY <2>2, <2>3
<1>2. QED
  BY <1>1, ParkingInvariant, UnloadInvariant, PTL

(* After an unload that no writer races, the freed work is neither queued  *)
(* nor running, and only refused cores stay down.                          *)
THEOREM UnloadLeavesNothing ==
    ASSUME ~RacyUnload
    PROVE  Spec => []UnloadIsClean
<1>1. UnloadInv => UnloadIsClean
  <2> SUFFICES ASSUME UnloadInv, pc["exit"] = "gone"
               PROVE  ~timer /\ pc["work"] = "idle" /\ Cardinality(taken) <= failures
    BY DEF UnloadIsClean
  <2>1. taken \ Remembered = taken
    BY DEF Remembered
  <2>2. QED
    BY <2>1 DEF UnloadInv, QuietInv, MemoryInv
<1>2. QED
  BY <1>1, UnloadInvariant, PTL
============================================================================
