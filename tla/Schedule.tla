------------------------------ MODULE Schedule ------------------------------
(***************************************************************************)
(* The schedule of timed requests (modules/conditioner/schedule.go) and    *)
(* its two users: runTimer, which keeps the next cron time of a Condition  *)
(* scheduled, and the Epoch RPC, which schedules both ends of a window     *)
(* around sunset and which the weather module repeats every hour for the   *)
(* sunset of the current day.  One Condition with one Remediation: on when *)
(* active, off when inactive.                                              *)
(*                                                                         *)
(* Epoch's immediate activation and deactivation go through applyDesired,  *)
(* whose cache Conditioner models; here they reach the zone.               *)
(***************************************************************************)
EXTENDS Integers, Sequences, FiniteSets

CONSTANTS
    Id,            \* the goroutines that add() spawns, reused once they end
    Day,           \* ticks of a day
    Sunset,        \* tick of the event within a day
    Start, Stop,   \* WhenGate, relative to the event
    Cron,          \* the times the cron expression names
    MaxClock, MaxFail,
    None

ASSUME ConstantsAssumption ==
    /\ Day \in Nat \ {0} /\ Sunset \in 0..(Day - 1)
    /\ Start \in Int /\ Stop \in Int /\ Start <= Stop
    /\ Cron \subseteq Nat
    /\ MaxClock \in Nat /\ MaxFail \in Nat
    /\ None \notin Id

(* Keys of the events map: what setSchedule adds and what it removes, and  *)
(* the two ends of the Epoch window.                                       *)
Name == {"c-schedule-z-activate", "c", "sunset-c-z-activate", "sunset-c-z-deactivate"}

VARIABLES
    clock,
    events,     \* events: the goroutine of the event scheduled under a name, or None
    job,        \* job[i]: name, time and request of goroutine i
    cancelled,  \* goroutines whose context is cancelled
    waiting,    \* goroutines in the select on timer and context
    queue,      \* goroutines blocked sending on itemCh, in order
    running,    \* the goroutine whose item run() has received, or None
    executed,   \* run() has executed the item and has still to remove it
    timer,      \* the cron time setSchedule is about to add, or None
    epoch,      \* what an Epoch RPC has still to do
    enabled,    \* Spec.Enabled of the Condition
    zone,       \* the zone's state
    fails,
    ahead,      \* history: the days whose window was scheduled before it opened
    ran         \* history: the scheduled requests that reached the zone

sched == <<events, job, cancelled, waiting>>
runner == <<queue, running, executed>>
hist == <<ahead, ran>>
vars == <<clock, sched, runner, timer, epoch, enabled, zone, fails, hist>>

Request == {"ON", "OFF"}

Job == [name : Name, t : Int, req : Request]

Queued == {queue[k] : k \in DOMAIN queue}

\* Goroutines that have not ended.
Alive == waiting \cup Queued \cup ({running} \ {None})

TypeOK ==
    /\ clock \in Nat
    /\ events \in [Name -> Id \cup {None}]
    /\ job \in [Id -> Job \cup {None}]
    /\ cancelled \subseteq Id /\ waiting \subseteq Id
    /\ queue \in Seq(Id)
    /\ running \in Id \cup {None} /\ executed \in BOOLEAN
    /\ timer \in Cron \cup {None}
    /\ epoch \in Seq(Job)
    /\ enabled \in BOOLEAN
    /\ zone \in Request
    /\ fails \in Nat
    /\ ahead \subseteq Int /\ ran \subseteq Job

Init ==
    /\ clock = 0
    /\ events = [n \in Name |-> None]
    /\ job = [i \in Id |-> None]
    /\ cancelled = {} /\ waiting = {} /\ queue = <<>>
    /\ running = None /\ executed = FALSE
    /\ timer = None /\ epoch = <<>>
    /\ enabled \in BOOLEAN
    /\ zone = "OFF"
    /\ fails = 0
    /\ ahead = {} /\ ran = {}

-----------------------------------------------------------------------------
(* The schedule.                                                           *)

Old(n) == {events[n]} \ {None}

Same(j) == events[j.name] # None /\ job[events[j.name]] = j

Free == CHOOSE i \in Id : i \notin Alive

AddKeepsOld(j) ==
    /\ Id \ Alive # {}
    /\ events' = [events EXCEPT ![j.name] = Free]
    /\ job' = [job EXCEPT ![Free] = j]
    /\ waiting' = waiting \cup {Free}
    /\ UNCHANGED cancelled

(* Adding what is there already changes nothing; anything else cancels the *)
(* old event and starts a goroutine.                                       *)
Add(j) ==
    \/ Same(j) /\ UNCHANGED sched
    \/ /\ ~Same(j) /\ Id \ Alive # {}
       /\ events' = [events EXCEPT ![j.name] = Free]
       /\ job' = [job EXCEPT ![Free] = j]
       /\ waiting' = waiting \cup {Free}
       /\ cancelled' = cancelled \cup Old(j.name)

Remove(n) ==
    /\ events' = [events EXCEPT ![n] = None]
    /\ cancelled' = cancelled \cup Old(n)
    /\ UNCHANGED <<job, waiting>>

\* Goroutine i has ended.
Ends(i) == job' = [job EXCEPT ![i] = None]

(* The timer of a goroutine fires.  With its context cancelled as well the *)
(* select may take either branch.                                          *)
Fire(i) ==
    /\ i \in waiting /\ job[i].t <= clock
    /\ waiting' = waiting \ {i}
    /\ queue' = Append(queue, i)
    /\ UNCHANGED <<clock, events, job, cancelled, running, executed, timer, epoch, enabled,
                   zone, fails, hist>>

Quit(i) ==
    /\ i \in waiting \cap cancelled
    /\ waiting' = waiting \ {i} /\ cancelled' = cancelled \ {i}
    /\ Ends(i)
    /\ UNCHANGED <<clock, events, runner, timer, epoch, enabled, zone, fails, hist>>

(* run() receives an item, executes it and removes its name. *)
Receive ==
    /\ running = None /\ queue # <<>>
    /\ running' = Head(queue) /\ queue' = Tail(queue)
    /\ executed' = FALSE
    /\ UNCHANGED <<clock, sched, timer, epoch, enabled, zone, fails, hist>>

(* The item carries the goroutine's context: once that is cancelled the    *)
(* RPC fails before it is sent.                                            *)
Execute ==
    /\ running # None /\ ~executed
    /\ executed' = TRUE
    /\ \/ /\ running \in cancelled
          /\ UNCHANGED <<zone, ran>>
       \/ /\ running \notin cancelled
          /\ zone' = job[running].req
          /\ ran' = ran \cup {job[running]}
    /\ UNCHANGED <<clock, sched, queue, running, timer, epoch, enabled, fails, ahead>>

ExecuteFails ==
    /\ running # None /\ ~executed /\ fails < MaxFail
    /\ fails' = fails + 1
    /\ executed' = TRUE
    /\ \/ UNCHANGED <<zone, ran>>
       \/ /\ running \notin cancelled
          /\ zone' = job[running].req
          /\ ran' = ran \cup {job[running]}
    /\ UNCHANGED <<clock, sched, queue, running, timer, epoch, enabled, ahead>>

Finish ==
    /\ running # None /\ executed
    /\ LET n == job[running].name
       IN  /\ events' = [events EXCEPT ![n] = None]
           /\ cancelled' = (cancelled \cup Old(n)) \ {running}
    /\ Ends(running)
    /\ running' = None
    /\ UNCHANGED <<clock, waiting, queue, executed, timer, epoch, enabled, zone, fails, hist>>

(* The process is restarted: goroutines, channel and events are gone.      *)
Restart ==
    /\ fails < MaxFail
    /\ fails' = fails + 1
    /\ events' = [n \in Name |-> None]
    /\ job' = [i \in Id |-> None]
    /\ cancelled' = {} /\ waiting' = {} /\ queue' = <<>>
    /\ running' = None /\ executed' = FALSE /\ timer' = None /\ epoch' = <<>>
    /\ UNCHANGED <<clock, enabled, zone, hist>>

-----------------------------------------------------------------------------
(* runTimer: setSchedule reads the clock, then adds.  A disabled Condition *)
(* has its name removed.                                                   *)

Later == {t \in Cron : t > clock}

(* cron.Next *)
IsNext(t) == t \in Later /\ \A u \in Later : t <= u

SetSchedule ==
    /\ timer = None /\ enabled
    /\ \E t \in Later : IsNext(t) /\ timer' = t
    /\ UNCHANGED <<clock, sched, runner, epoch, enabled, zone, fails, hist>>

SetScheduleAdds ==
    /\ timer # None
    /\ Add([name |-> "c-schedule-z-activate", t |-> timer, req |-> "ON"])
    /\ timer' = None
    /\ UNCHANGED <<clock, runner, epoch, enabled, zone, fails, hist>>

SetScheduleRemoves ==
    /\ timer = None /\ ~enabled
    /\ Remove("c")
    /\ UNCHANGED <<clock, runner, timer, epoch, enabled, zone, fails, hist>>

Edit ==
    /\ enabled' = ~enabled
    /\ UNCHANGED <<clock, sched, runner, timer, epoch, zone, fails, hist>>

-----------------------------------------------------------------------------
(* The Epoch RPC for today's sunset.                                       *)

TodayAbroad == (clock + 2) \div Day

Today == clock \div Day

When(d) == d * Day + Sunset

WindowStart(d) == When(d) + Start
WindowStop(d) == When(d) + Stop

timeContains(t, d) == WindowStart(d) <= t /\ t <= WindowStop(d)

Deactivation(d) == [name |-> "sunset-c-z-deactivate", t |-> WindowStop(d), req |-> "OFF"]

Activation(d) == [name |-> "sunset-c-z-activate", t |-> WindowStart(d), req |-> "ON"]

EpochNeverOff(d) ==
    /\ zone' = IF timeContains(clock, d) THEN "ON" ELSE zone
    /\ UNCHANGED epoch

EpochNow(d) ==
    /\ zone' = IF timeContains(clock, d) THEN "ON" ELSE "OFF"
    /\ UNCHANGED epoch

EpochAhead(d) ==
    /\ epoch' = <<Activation(d), Deactivation(d)>>
    /\ UNCHANGED zone

(* matchCondition passes over a disabled Condition. *)
Epoch ==
    /\ epoch = <<>> /\ enabled
    /\ IF clock < WindowStart(Today) THEN EpochAhead(Today) ELSE EpochNow(Today)
    /\ UNCHANGED <<clock, sched, runner, timer, enabled, fails, hist>>

(* The list of Conditions or an immediate call fails. *)
EpochFails ==
    /\ epoch = <<>> /\ fails < MaxFail
    /\ fails' = fails + 1
    /\ UNCHANGED <<clock, sched, runner, timer, epoch, enabled, zone, hist>>

EpochAdds ==
    /\ epoch # <<>>
    /\ Add(Head(epoch))
    /\ epoch' = Tail(epoch)
    /\ ahead' = IF Len(epoch) = 1 THEN ahead \cup {Head(epoch).t} ELSE ahead
    /\ UNCHANGED <<clock, runner, timer, enabled, zone, fails, ran>>

-----------------------------------------------------------------------------
(* A tick is far longer than a call: what is due is dealt with before the  *)
(* clock moves on.                                                         *)
Idle ==
    /\ \A i \in waiting : job[i].t > clock /\ i \notin cancelled
    /\ queue = <<>> /\ running = None /\ epoch = <<>>

Tick ==
    /\ clock < MaxClock /\ Idle
    /\ clock' = clock + 1
    /\ UNCHANGED <<sched, runner, timer, epoch, enabled, zone, fails, hist>>

Next ==
    \/ \E i \in Id : Fire(i) \/ Quit(i)
    \/ Receive \/ Execute \/ ExecuteFails \/ Finish \/ Restart
    \/ SetSchedule \/ SetScheduleAdds \/ SetScheduleRemoves \/ Edit
    \/ Epoch \/ EpochFails \/ EpochAdds
    \/ Tick

Spec == Init /\ [][Next]_vars

(* Goroutines run on, time passes, and the weather module keeps sending    *)
(* the Epoch of the day.                                                   *)
FairSpec ==
    /\ Spec
    /\ \A i \in Id : WF_vars(Fire(i)) /\ WF_vars(Quit(i))
    /\ WF_vars(Receive) /\ WF_vars(Execute) /\ WF_vars(Finish)
    /\ WF_vars(SetScheduleAdds) /\ WF_vars(Epoch) /\ WF_vars(EpochAdds) /\ SF_vars(Tick)

-----------------------------------------------------------------------------
(* Properties.                                                             *)

(* The map of events and the goroutines agree: the goroutine an event      *)
(* names is alive, was started for that name and is not cancelled, and     *)
(* every other goroutine is cancelled.                                     *)
Current ==
    /\ \A n \in Name : events[n] # None =>
          events[n] \in Alive /\ job[events[n]].name = n
    /\ \A i \in Alive : i \notin cancelled <=> events[job[i].name] = i

(* What makes Current inductive: a goroutine is in one place, has a job,   *)
(* and only live goroutines are cancelled.                                 *)
Placed ==
    /\ waiting \cap Queued = {} /\ running \notin waiting \cup Queued
    /\ \A k, l \in DOMAIN queue : queue[k] = queue[l] => k = l
    /\ cancelled \subseteq Alive
    /\ \A i \in Alive : job[i] \in Job

IInv == TypeOK /\ Placed /\ Current

(* A scheduled request reaches the zone only while it is the event of its  *)
(* name: an event that was replaced or removed, even while its goroutine   *)
(* was blocked on the channel or its item in the hands of run(), has no    *)
(* effect any more (add, remove).                                          *)
OnlyCurrent ==
    [][\A j \in ran' \ ran : events[j.name] = running /\ job[running] = j]_vars

(* A window that an Epoch RPC scheduled ahead is opened and closed: once   *)
(* its ends have passed and no call failed, both requests have reached the *)
(* zone, however often Epoch was repeated and whatever cron did.           *)
BothEnds ==
    Idle /\ fails = 0 => \A t \in ahead : \A d \in 0..Today :
        t = WindowStop(d) =>
            /\ clock > WindowStart(d) => Activation(d) \in ran
            /\ clock > WindowStop(d) => Deactivation(d) \in ran

(* Whatever failed, was lost in a restart or was replaced, the Epoch that  *)
(* keeps arriving after a window has closed leaves the zone off, if the    *)
(* Condition is left enabled.                                              *)
OffAtLast == <>[]enabled => <>[](clock = MaxClock /\ zone = "OFF")
=============================================================================
