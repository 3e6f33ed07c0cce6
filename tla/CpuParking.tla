----------------------------- MODULE CpuParking -----------------------------
(***************************************************************************)
(* The cpu_parking kernel module (custom/usr/src/cpu-parking): delayed     *)
(* work that takes cores offline when the machine is idle and back online  *)
(* when it is busy, the writable `enabled` parameter, loading and          *)
(* unloading, and an administrator who uses CPU hotplug at the same time.  *)
(*                                                                         *)
(* Only parkable cores are kept, and the parameters other than `enabled`   *)
(* have the values they were loaded with.  A sample of the idle times is   *)
(* its outcome: utilisation above busy_up_pct, below busy_down_pct.        *)
(***************************************************************************)
EXTENDS Naturals, FiniteSets

CONSTANTS
    Parkable,      \* parkable_cpus, CPU numbers
    MinOnline,     \* min_online
    MaxFailures,   \* bound on add_cpu and remove_cpu calls the kernel refuses
    Hotplug,       \* the administrator uses CPU hotplug too
    RacyUnload     \* `enabled` is written while the module is being unloaded

ASSUME ParkingAssumption ==
    /\ Parkable \subseteq Nat /\ IsFiniteSet(Parkable)
    /\ MinOnline \in Nat /\ MaxFailures \in Nat
    /\ Hotplug \in BOOLEAN /\ RacyUnload \in BOOLEAN

VARIABLES
    online,        \* cores that are online
    parked,        \* parked_mask
    enabled,
    timer,         \* parking_work is scheduled
    pc,            \* control state of the work function and of the module's exit
    todo,          \* cores each of them still has to look at
    setter,        \* set_enabled: "idle", or "schedule" before it re-arms the work
    count,         \* online_parkable of the last sample
    high, low,     \* outcome of the last sample
    again,         \* the work function will reschedule itself
    taken,         \* history: cores the driver took offline, not brought back yet
    failures

sample == <<count, high, low>>
vars == <<online, parked, enabled, timer, pc, todo, setter, sample, again, taken,
          failures>>

Threads == {"work", "exit"}
Lowest(S) == CHOOSE c \in S : \A d \in S : c <= d
Highest(S) == CHOOSE c \in S : \A d \in S : c >= d

(* cpu_parking_init, on a machine whose cores are all online.              *)
Init ==
    /\ online = Parkable /\ parked = {} /\ taken = {}
    /\ enabled = TRUE /\ timer = TRUE /\ setter = "idle"
    /\ pc = [work |-> "idle", exit |-> "loaded"]
    /\ todo = [t \in Threads |-> {}]
    /\ count = 0 /\ high = FALSE /\ low = FALSE /\ again = FALSE
    /\ failures = 0

Goto(t, label) == pc' = [pc EXCEPT ![t] = label]

(* schedule_delayed_work: nothing while the work is pending or cancelled.  *)
Schedule == timer' = (pc["exit"] # "cancel")

BringUp(c) == online' = online \cup {c} /\ taken' = taken \ {c}
Refused == failures < MaxFailures /\ failures' = failures + 1

----------------------------------------------------------------------------
(* unpark_cpu for the cores in todo[t], lowest first: one that is online   *)
(* already, or that add_cpu refuses, keeps its bit.  A core that hotplug  *)
(* brings up after the check is one that add_cpu refuses.                  *)

Looking(t) == pc[t] = "unpark" /\ todo[t] # {}
Next1(t) == Lowest(todo[t])
Done1(t) == todo' = [todo EXCEPT ![t] = @ \ {Next1(t)}]

SkipCpu(t) ==
    /\ Looking(t)
    /\ Next1(t) \notin parked \/ Next1(t) \in online
    /\ Done1(t)
    /\ UNCHANGED <<online, parked, enabled, timer, pc, setter, sample, again, taken,
                   failures>>

AddCpu(t) ==
    /\ Looking(t) /\ Next1(t) \in parked \ online
    /\ \/ BringUp(Next1(t)) /\ Goto(t, "added") /\ UNCHANGED <<todo, failures>>
       \/ Refused /\ Done1(t) /\ UNCHANGED <<online, taken, pc>>
    /\ UNCHANGED <<parked, enabled, timer, setter, sample, again>>

ClearBit(t) ==
    /\ pc[t] = "added"
    /\ parked' = parked \ {Next1(t)}
    /\ Done1(t) /\ Goto(t, "unpark")
    /\ UNCHANGED <<online, enabled, timer, setter, sample, again, taken, failures>>

UnparkStep(t) == SkipCpu(t) \/ AddCpu(t) \/ ClearBit(t)

----------------------------------------------------------------------------
(* parking_work_fn                                                         *)

TimerFires ==
    /\ timer /\ pc["work"] = "idle" /\ pc["exit"] # "gone"
    /\ timer' = FALSE /\ Goto("work", "start")
    /\ UNCHANGED <<online, parked, enabled, todo, setter, sample, again, taken, failures>>

WorkDisabled ==
    /\ pc["work"] = "start" /\ ~enabled
    /\ again' = FALSE
    /\ todo' = [todo EXCEPT !["work"] = Parkable] /\ Goto("work", "unpark")
    /\ UNCHANGED <<online, parked, enabled, timer, setter, sample, taken, failures>>

Sample ==
    /\ pc["work"] = "start" /\ enabled
    /\ again' = TRUE
    /\ count' = Cardinality(online)
    /\ high' \in BOOLEAN /\ low' \in BOOLEAN
    /\ Goto("work", "decide")
    /\ UNCHANGED <<online, parked, enabled, timer, todo, setter, taken, failures>>

Busy == high /\ parked # {}
Idle_OffByOne == ~Busy /\ low /\ count >= MinOnline /\ online \ parked # {}

(* Idle enough to park one more core, and there is one.                    *)
Idle == ~Busy /\ low /\ count > MinOnline /\ online \ parked # {}

Decide_NoBreak ==
    /\ pc["work"] = "decide" /\ Idle
    /\ todo' = [todo EXCEPT !["work"] = online \ parked] /\ Goto("work", "park")
    /\ UNCHANGED <<online, parked, enabled, timer, setter, sample, again, taken, failures>>

(* One core per tick: the lowest parked one up or the highest one down.    *)
Decide ==
    /\ pc["work"] = "decide"
    /\ \/ /\ Busy
          /\ todo' = [todo EXCEPT !["work"] = {Lowest(parked)}] /\ Goto("work", "unpark")
       \/ /\ Idle
          /\ todo' = [todo EXCEPT !["work"] = {Highest(online \ parked)}]
          /\ Goto("work", "park")
       \/ /\ ~Busy /\ ~Idle
          /\ UNCHANGED todo /\ Goto("work", "unpark")
    /\ UNCHANGED <<online, parked, enabled, timer, setter, sample, again, taken, failures>>

(* park_cpu: the core may have gone offline since, or remove_cpu refuse.   *)
RemoveCpu ==
    /\ pc["work"] = "park"
    /\ LET c == Next1("work") IN
       \/ /\ c \in online
          /\ online' = online \ {c} /\ taken' = taken \cup {c}
          /\ Goto("work", "removed") /\ UNCHANGED <<todo, failures>>
       \/ /\ c \in online /\ Refused
          /\ Done1("work") /\ Goto("work", "unpark") /\ UNCHANGED <<online, taken>>
       \/ /\ c \notin online
          /\ Done1("work") /\ Goto("work", "unpark")
          /\ UNCHANGED <<online, taken, failures>>
    /\ UNCHANGED <<parked, enabled, timer, setter, sample, again>>

SetBit_Skipped ==
    /\ pc["work"] = "removed"
    /\ Done1("work") /\ Goto("work", "unpark")
    /\ UNCHANGED <<online, parked, enabled, timer, setter, sample, again, taken, failures>>

SetBit ==
    /\ pc["work"] = "removed"
    /\ parked' = parked \cup {Next1("work")}
    /\ Done1("work") /\ Goto("work", "unpark")
    /\ UNCHANGED <<online, enabled, timer, setter, sample, again, taken, failures>>

(* The work function returns, after rescheduling itself if it was enabled. *)
WorkReturns ==
    /\ pc["work"] = "unpark" /\ todo["work"] = {}
    /\ \/ again /\ Schedule
       \/ ~again /\ UNCHANGED timer
    /\ Goto("work", "idle")
    /\ UNCHANGED <<online, parked, enabled, todo, setter, sample, again, taken, failures>>

WorkStep == TimerFires \/ WorkDisabled \/ Sample \/ Decide \/ RemoveCpu \/ SetBit
            \/ UnparkStep("work") \/ WorkReturns

----------------------------------------------------------------------------
(* set_enabled, serialized by the kernel's parameter lock.                 *)

MayWrite == pc["exit"] # "gone" /\ (RacyUnload \/ pc["exit"] = "loaded")

WriteEnabled(v) ==
    /\ setter = "idle" /\ MayWrite
    /\ enabled' = v
    /\ setter' = IF ~enabled /\ v THEN "schedule" ELSE "idle"
    /\ UNCHANGED <<online, parked, timer, pc, todo, sample, again, taken, failures>>

ReArm_Skipped ==
    /\ setter = "schedule"
    /\ setter' = "idle"
    /\ UNCHANGED <<online, parked, enabled, timer, pc, todo, sample, again, taken, failures>>

ReArm ==
    /\ setter = "schedule"
    /\ Schedule /\ setter' = "idle"
    /\ UNCHANGED <<online, parked, enabled, pc, todo, sample, again, taken, failures>>

----------------------------------------------------------------------------
(* cpu_parking_exit: cancel_delayed_work_sync, then unpark_all.            *)

BeginExit ==
    /\ pc["exit"] = "loaded" /\ (RacyUnload \/ setter = "idle")
    /\ timer' = FALSE /\ Goto("exit", "cancel")
    /\ UNCHANGED <<online, parked, enabled, todo, setter, sample, again, taken, failures>>

Cancelled_NotSync ==
    /\ pc["exit"] = "cancel"
    /\ todo' = [todo EXCEPT !["exit"] = Parkable] /\ Goto("exit", "unpark")
    /\ UNCHANGED <<online, parked, enabled, timer, setter, sample, again, taken, failures>>

Cancelled ==
    /\ pc["exit"] = "cancel" /\ pc["work"] = "idle"
    /\ todo' = [todo EXCEPT !["exit"] = Parkable] /\ Goto("exit", "unpark")
    /\ UNCHANGED <<online, parked, enabled, timer, setter, sample, again, taken, failures>>

(* The kernel waits for a writer in sysfs before it frees the module.      *)
Unloaded ==
    /\ pc["exit"] = "unpark" /\ todo["exit"] = {} /\ setter = "idle"
    /\ Goto("exit", "gone")
    /\ UNCHANGED <<online, parked, enabled, timer, todo, setter, sample, again, taken,
                   failures>>

(* Loaded again, the module knows nothing of its previous life.            *)
Load ==
    /\ pc["exit"] = "gone" /\ pc["work"] = "idle" /\ ~timer
    /\ parked' = {} /\ enabled' = TRUE /\ timer' = TRUE
    /\ Goto("exit", "loaded")
    /\ UNCHANGED <<online, todo, setter, sample, again, taken, failures>>

ExitStep == Cancelled \/ UnparkStep("exit") \/ Unloaded

(* CPU hotplug by the administrator: external.                             *)
AdminSets(c) ==
    /\ Hotplug
    /\ \/ c \in online /\ online' = online \ {c} /\ UNCHANGED taken
       \/ c \notin online /\ BringUp(c)
    /\ UNCHANGED <<parked, enabled, timer, pc, todo, setter, sample, again, failures>>

Next ==
    \/ WorkStep \/ ReArm \/ BeginExit \/ ExitStep \/ Load
    \/ \E v \in BOOLEAN : WriteEnabled(v)
    \/ \E c \in Parkable : AdminSets(c)

Spec == Init /\ [][Next]_vars

(* The workqueue runs what is due, system calls return; nobody has to      *)
(* write parameters, use hotplug, or unload the module.                    *)
FairSpec == Spec /\ WF_vars(WorkStep) /\ WF_vars(ReArm) /\ WF_vars(ExitStep)
----------------------------------------------------------------------------
(* Every variable has its type, and a tick takes at most one core offline. *)
TypeOK ==
    /\ online \subseteq Parkable /\ parked \subseteq Parkable
    /\ taken \subseteq Parkable \ online
    /\ pc["work"] \in {"idle", "start", "decide", "park", "removed", "unpark", "added"}
    /\ pc["exit"] \in {"loaded", "cancel", "unpark", "added", "gone"}
    /\ DOMAIN pc = Threads
    /\ todo \in [Threads -> SUBSET Parkable]
    /\ pc["work"] \in {"park", "removed"} => Cardinality(todo["work"]) = 1
    /\ setter \in {"idle", "schedule"}
    /\ {enabled, timer, high, low, again} \subseteq BOOLEAN
    /\ count \in 0..Cardinality(Parkable)
    /\ failures \in 0..MaxFailures

WillPoll == pc["work"] = "start" \/ (pc["work"] # "idle" /\ again)

(* While parking is enabled the next tick is on its way, whatever the order*)
(* of disabling, re-enabling and a tick in progress (set_enabled re-arms   *)
(* work that stopped itself when it saw `enabled` off).                    *)
PollingNeverStops ==
    pc["exit"] = "loaded" /\ enabled => timer \/ WillPoll \/ setter = "schedule"

(* A core the driver took offline stays in parked_mask until it is back,   *)
(* so that unpark_all will find it (park_cpu and unpark_cpu).              *)
TakenIsRemembered ==
    pc["exit"] # "gone" =>
        Cardinality(taken \ parked) <= failures + (IF pc["work"] = "removed" THEN 1 ELSE 0)

(* The driver alone never takes more cores than min_online leaves it, even *)
(* when hotplug changes the cores between a sample and remove_cpu.         *)
TakenWithinBudget == taken # {} => Cardinality(taken) + MinOnline <= Cardinality(Parkable)

(* After an unload that no writer disturbs the freed work is not queued or *)
(* running, and only cores that add_cpu refused stay down.                 *)
UnloadIsClean ==
    pc["exit"] = "gone" =>
        /\ ~timer /\ pc["work"] = "idle"
        /\ Cardinality(taken) <= failures

(* Turning parking off brings back all cores but those add_cpu refused, or *)
(* parking is turned on again or unloaded first (parking_work_fn).         *)
DisablingRestores ==
    pc["exit"] = "loaded" /\ ~enabled ~>
        enabled \/ pc["exit"] # "loaded" \/ Cardinality(taken) <= failures

(* "Avg util%% above which to unpark a core": under a lasting high load,   *)
(* and once hotplug is left alone, the cores that were parked come back.   *)
BusyUnparks ==
    /\ <>[](pc["exit"] = "loaded" /\ enabled /\ high /\ ~low)
    /\ <>[][\A c \in Parkable : ~AdminSets(c)]_vars
    => <>[](taken = {})

(* "unloaded, all cores online": no core that the driver took offline is   *)
(* left behind when cpu_parking_exit returns.                              *)
UnloadedAllOnline == pc["exit"] = "gone" => taken = {}
============================================================================
