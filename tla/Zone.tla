-------------------------------- MODULE Zone --------------------------------
(***************************************************************************)
(* One zone of the ZoneKeeper: the RPCs that change it                     *)
(* (modules/zonekeeper/zonekeeper.go), the flush that sends its state to   *)
(* its devices through the applied cache (pkg/iot/zone.go), the Status     *)
(* written back to the apiserver and the restart that reads it again.      *)
(*                                                                         *)
(* Zones share no state but the ZoneKeeper's map, so one zone stands for   *)
(* all.  Each RPC runs on its own goroutine; Zone.mtx and appliedMu guard  *)
(* single field accesses, so an RPC is a sequence of short atomic steps    *)
(* and other RPCs run between them.                                        *)
(***************************************************************************)
EXTENDS Canonical

CONSTANTS
    Proc,       \* the goroutines that serve RPCs
    Devices,    \* the devices registered in the zone
    Lights,     \* those that are COLOR_LIGHTs; the others are RELAYs
    Native,     \* those driven through the native Zigbee handler
    Scenarios,  \* calls: for each goroutine the RPCs it serves (built with the
                \* operators below); faults: how many mishaps there may be
    Powers, Levels, Hues,  \* what an outside event may leave in a device
    RefreshAge, \* in ticks: how long a cached value is trusted
    None

ASSUME ConstantsAssumption ==
    /\ RefreshAge \in Nat \ {0}
    /\ Lights \subseteq Devices
    /\ Native \subseteq Devices

VARIABLES
    sc,       \* the scenario
    zone,     \* the in-memory Zone: state, named and continuous values
    applied,  \* applied[d][kind]: the cached value and its age, or None
    job,      \* job[p]: what goroutine p is doing
    recent,   \* the devices that announced themselves within the last second
    status,   \* Status of the Zone resource at the apiserver
    device,   \* device[d]: what the device really shows
    trouble,  \* trouble[d][a]: ticks since attribute a of d last changed, or
              \* failed to change, behind the back of its own cache entry
    missed,   \* the last Status patch failed
    faults,   \* the mishaps so far: lost and failing calls, drift, restarts
    calm      \* nothing disturbs the zone any more

vars == <<sc, zone, applied, job, recent, status, device, trouble, missed, faults, calm>>

Kind == {"state", "brightness", "color_temp", "color"}
\* A hue is a colour temperature in mireds, an RGB colour (0 for the empty
\* string) or a colour of the zone's pool the handler picks.
Random == -1

State == {"UNSPECIFIED", "ON", "OFF", "OFFTIMER", "COLOR", "RANDOMCOLOR"}

-----------------------------------------------------------------------------
(* The RPCs: the setters they call in order, the devices they flush (None   *)
(* for SetScene, which does not flush) and whether they write Status.      *)

Set(field, v) == <<[field |-> field, v |-> v]>>

SetWhen(field, v, unset) == IF v = unset THEN <<>> ELSE Set(field, v)

SetState(s) == [set |-> Set("state", s), flush |-> Devices, status |-> TRUE]

AdjustBrightness(delta) ==
    [set |-> [i \in 1..Dist(delta, 0) |-> [field |-> "step", v |-> delta > 0]]
               \o Set("on", TRUE),
     flush |-> Devices, status |-> TRUE]

\* s, bv, b, k, c, col: the request's fields, zero values left out; the
\* continuous brightness and Kelvin win over the named levels.
ApplyValues(s, bv, b, k, c, col) ==
    [set |-> SetWhen("state", s, "UNSPECIFIED")
               \o (IF bv > 0 THEN Set("brightnessValue", bv) ELSE SetWhen("brightness", b, 0))
               \o (IF k > 0 THEN Set("kelvin", k) ELSE SetWhen("colorTemp", c, 0))
               \o SetWhen("color", col, 0),
     flush |-> Devices, status |-> TRUE]

SetScene(b, c, col) ==
    [set |-> SetWhen("brightness", b, 0) \o SetWhen("colorTemp", c, 0)
               \o SetWhen("color", col, 0),
     flush |-> None, status |-> TRUE]

SelfAnnounce(d) == [set |-> Set("announced", d), flush |-> {d}, status |-> FALSE]

\* The setters with their arguments; v of "on" does not matter.
Setter ==
    [field : {"state"}, v : State] \cup [field : {"on", "step"}, v : BOOLEAN]
      \cup [field : {"brightness"}, v : Brightness] \cup [field : {"brightnessValue", "kelvin"}, v : Nat \ {0}]
      \cup [field : {"colorTemp"}, v : ColorTemperature] \cup [field : {"color"}, v : Int]
      \cup [field : {"announced"}, v : Devices]

\* An RPC that does not flush leaves the state alone, and one that does not
\* write Status changes nothing that Status shows.
Request(r) ==
    /\ r.set \in Seq(Setter) /\ (r.flush = None \/ r.flush \subseteq Devices) /\ r.status \in BOOLEAN
    /\ r.flush = None => r.status /\ \A i \in DOMAIN r.set : r.set[i].field \notin {"state", "on"}
    /\ ~r.status => r.set # <<>> /\ \A i \in DOMAIN r.set : r.set[i].field = "announced"

ASSUME ScenariosAssumption ==
    \A s \in Scenarios :
        /\ DOMAIN s.calls = Proc /\ s.faults \in Nat
        /\ \A p \in Proc : \A r \in s.calls[p] : Request(r)

\* What a message of a kind, and a cache entry of that kind, can say.
Value(kind) == IF kind = "state" THEN {"ON", "OFF"} ELSE Int
Entry(kind) == [v : Value(kind), age : Nat]
Msg(kind) == [kind : {kind}, v : Value(kind)]

ASSUME NoneAssumption ==
    /\ \A ds \in SUBSET Devices : None # ds
    /\ \A k \in Kind \cup {"random"} : None \notin Entry(k) /\ None \notin Msg(k)

-----------------------------------------------------------------------------
(* The setters of Zone. *)

Write(z, s) ==
    CASE s.field = "state" -> [z EXCEPT !.state = s.v]
      [] s.field = "on" -> [z EXCEPT !.state = "ON"]
      [] s.field = "brightness" ->
            [z EXCEPT !.brightness = s.v, !.brightnessValue = BrightnessCanonical(s.v)]
      [] s.field = "brightnessValue" ->
            [z EXCEPT !.brightnessValue = s.v, !.brightness = BrightnessNearestEnum(s.v)]
      [] s.field = "colorTemp" ->
            [z EXCEPT !.colorTemp = s.v, !.kelvin = ColorTempCanonical(s.v)]
      [] s.field = "kelvin" ->
            [z EXCEPT !.kelvin = s.v, !.colorTemp = ColorTempNearestEnum(s.v)]
      [] s.field = "color" -> [z EXCEPT !.color = s.v]
      [] s.field = "announced" -> z
      [] s.field = "step" ->
            [z EXCEPT !.brightness = IF s.v THEN IncrementBrightness(@)
                                     ELSE DecrementBrightness(@)]

\* GetZone rebuilds a zone from Status; the colour is not read back.
Load(st) ==
    LET b == IF st.brightness = 0 THEN FULL ELSE st.brightness
        c == IF st.colorTemp = 0 THEN FIRSTLIGHT ELSE st.colorTemp
    IN  [state |-> IF st.state = "UNSPECIFIED" THEN "ON" ELSE st.state,
         brightness |-> b, brightnessValue |-> BrightnessCanonical(b),
         colorTemp |-> c, kelvin |-> ColorTempCanonical(c), color |-> 0]

Report(z) == [state |-> z.state, brightness |-> z.brightness,
              colorTemp |-> z.colorTemp, color |-> z.color]

-----------------------------------------------------------------------------
(* The three switches of Flush: the kind of message each sends and its     *)
(* value, or None when the switch sends nothing.                           *)

Message(n, z) ==
    CASE n = 1 /\ z.state \in {"ON", "OFFTIMER"} -> [kind |-> "state", v |-> "ON"]
      [] n = 1 /\ z.state = "OFF" -> [kind |-> "state", v |-> "OFF"]
      [] n = 1 /\ z.state = "COLOR" -> [kind |-> "color", v |-> z.color]
      [] n = 1 /\ z.state = "RANDOMCOLOR" -> [kind |-> "random", v |-> Random]
      [] n = 2 /\ z.state # "OFF" ->
            [kind |-> "brightness", v |-> BrightVal(z.brightnessValue, z.brightness)]
      [] n = 3 /\ z.state \notin {"RANDOMCOLOR", "COLOR", "OFF"} ->
            [kind |-> "color_temp", v |-> TempVal(z.kelvin, z.colorTemp)]
      [] OTHER -> None

\* The devices a message of this kind goes to.
Takes(kind) == IF kind = "state" THEN Devices ELSE Lights

\* A cache that never expires.
SuppressForever(d, msg) ==
    /\ msg.kind \in Kind
    /\ applied[d][msg.kind] # None
    /\ applied[d][msg.kind].v = msg.v

shouldSuppress(d, msg) ==
    /\ msg.kind \in Kind
    /\ applied[d][msg.kind] # None
    /\ applied[d][msg.kind].age < RefreshAge
    /\ applied[d][msg.kind].v = msg.v

-----------------------------------------------------------------------------
(* The devices.  A brightness message also switches a light on; the native *)
(* handler has no colour command and sends On instead.                     *)

Primary(d, kind) ==
    CASE kind = "state" -> "power"
      [] kind = "brightness" -> "level"
      [] kind \in {"color", "random"} /\ d \in Native -> "power"
      [] OTHER -> "hue"

Deliver(d, msg) ==
    CASE Primary(d, msg.kind) = "power" ->
            [device[d] EXCEPT !.power = IF msg.kind = "state" THEN msg.v ELSE "ON"]
      [] msg.kind = "brightness" -> [device[d] EXCEPT !.level = msg.v, !.power = "ON"]
      [] OTHER -> [device[d] EXCEPT !.hue = msg.v]

\* The cache entries of d made doubtful when it goes to show `new`.
Doubtful(d, new) ==
    {k \in Kind : device[d][Primary(d, k)] # new[Primary(d, k)]}

Doubt(d, kinds) ==
    trouble' = [trouble EXCEPT ![d] = [k \in Kind |-> IF k \in kinds THEN 0 ELSE @[k]]]

-----------------------------------------------------------------------------
(* Flow of an RPC through its goroutine. *)

Idle == [pc |-> "idle"]

\* SetScene without its Status update.
StartSilent(j) == IF j.todo # <<>> THEN j
                  ELSE IF j.req.flush = None THEN Idle
                  ELSE [j EXCEPT !.pc = "switch", !.n = 1]

\* Past the setters: flush, or straight to the end for SetScene.
Start(j) == IF j.todo # <<>> THEN j
            ELSE IF j.req.flush = None THEN [j EXCEPT !.pc = "ended"]
            ELSE [j EXCEPT !.pc = "switch", !.n = 1]

\* The next switch of Flush, or the end of it.
NextSwitch(j) == IF j.n = 3 THEN [j EXCEPT !.pc = "ended", !.n = 4]
                 ELSE [j EXCEPT !.pc = "switch", !.n = @ + 1]

\* The next device of the current message, or the next switch.
NextDevice(j) == IF j.left = {} THEN NextSwitch([j EXCEPT !.msg = None])
                 ELSE [j EXCEPT !.pc = "check"]

Becomes(p, j) == job' = [job EXCEPT ![p] = j]

Init ==
    /\ sc \in Scenarios
    /\ status = [state |-> "UNSPECIFIED", brightness |-> 0, colorTemp |-> 0, color |-> 0]
    /\ zone = Load(status)
    /\ applied = [d \in Devices |-> [k \in Kind |-> None]]
    /\ job = [p \in Proc |-> Idle]
    /\ recent = {}
    /\ device = [d \in Devices |-> [power |-> "OFF", level |-> 0, hue |-> 0]]
    /\ trouble = [d \in Devices |-> [k \in Kind |-> RefreshAge]]
    /\ missed = FALSE
    /\ faults = 0
    /\ calm = FALSE

-----------------------------------------------------------------------------
(* A caller makes request r; SelfAnnounce returns at once for a device      *)
(* heard from within the last second, and ApplyValues when no field is set. *)
Call(p, r) ==
    /\ job[p].pc = "idle" /\ r \in sc.calls[p]
    /\ r.status => ~calm
    /\ ~r.status => r.flush \cap recent = {}
    /\ r.set = <<>> => r.flush = None
    /\ Becomes(p, Start([pc |-> "set", req |-> r, todo |-> r.set, n |-> 0, left |-> {},
                         msg |-> None, cur |-> None, err |-> FALSE, snap |-> None]))
    /\ UNCHANGED <<sc, zone, applied, recent, status, device, trouble, missed, faults, calm>>

(* One setter, under Zone.mtx (the announcement time is written without it). *)
SetField(p) ==
    /\ job[p].pc = "set"
    /\ zone' = Write(zone, Head(job[p].todo))
    /\ recent' = IF Head(job[p].todo).field = "announced"
                 THEN recent \cup {Head(job[p].todo).v} ELSE recent
    /\ Becomes(p, Start([job[p] EXCEPT !.todo = Tail(@)]))
    /\ UNCHANGED <<sc, applied, status, device, trouble, missed, faults, calm>>

(* A switch of Flush reads zone.state, without the lock. *)
Switch(p) ==
    /\ job[p].pc = "switch"
    /\ LET j == job[p]
           msg == Message(j.n, zone)
       IN  Becomes(p,
             IF j.n = 1 /\ zone.state = "UNSPECIFIED" THEN [j EXCEPT !.pc = "raise"]
             ELSE IF msg = None THEN NextSwitch(j)
             ELSE NextDevice([j EXCEPT !.msg = msg, !.left = Takes(msg.kind) \cap j.req.flush]))
    /\ UNCHANGED <<sc, zone, applied, recent, status, device, trouble, missed, faults, calm>>

(* Flush of an UNSPECIFIED zone sets it OFF and returns, sending nothing. *)
Raise(p) ==
    /\ job[p].pc = "raise"
    /\ zone' = [zone EXCEPT !.state = "OFF"]
    /\ Becomes(p, [job[p] EXCEPT !.pc = "ended"])
    /\ UNCHANGED <<sc, applied, recent, status, device, trouble, missed, faults, calm>>

(* The next device, in the map's arbitrary order: the cache suppresses the  *)
(* message or lets it through.                                             *)
Check(p) ==
    /\ job[p].pc = "check"
    /\ \E d \in job[p].left :
          LET j == [job[p] EXCEPT !.left = @ \ {d}]
          IN  Becomes(p, IF shouldSuppress(d, j.msg) THEN NextDevice(j)
                         ELSE [j EXCEPT !.pc = "send", !.cur = d])
    /\ UNCHANGED <<sc, zone, applied, recent, status, device, trouble, missed, faults, calm>>

(* The handler's message reaches the device and is acknowledged. *)
Send(p) ==
    /\ job[p].pc = "send"
    /\ LET j == job[p]
           d == j.cur
       IN  /\ device' = [device EXCEPT ![d] = Deliver(d, j.msg)]
           /\ Doubt(d, Doubtful(d, Deliver(d, j.msg)) \ {j.msg.kind})
           /\ Becomes(p, [j EXCEPT !.pc = "mark"])
    /\ UNCHANGED <<sc, zone, applied, recent, status, missed, faults, calm>>

Mishap == ~calm /\ faults < sc.faults /\ faults' = faults + 1

(* The handler reports success, but a QoS 0 publish or a radio frame is     *)
(* lost: the device does not change.                                       *)
SendLost(p) ==
    /\ job[p].pc = "send"
    /\ Mishap
    /\ Doubt(job[p].cur, {job[p].msg.kind})
    /\ Becomes(p, [job[p] EXCEPT !.pc = "mark"])
    /\ UNCHANGED <<sc, zone, applied, recent, status, device, missed, calm>>

(* The handler fails, before or after the device took the message. *)
SendFails(p) ==
    /\ job[p].pc = "send"
    /\ Mishap
    /\ LET j == job[p]
           d == j.cur
       IN  /\ \E new \in {device[d], Deliver(d, j.msg)} :
                 /\ device' = [device EXCEPT ![d] = new]
                 /\ Doubt(d, Doubtful(d, new))
           /\ Becomes(p, NextDevice([j EXCEPT !.err = TRUE, !.cur = None]))
    /\ UNCHANGED <<sc, zone, applied, recent, status, missed, calm>>

(* A successful message is recorded, under appliedMu; a random colour is    *)
(* never recorded.                                                         *)
markApplied(d, msg) ==
    IF msg.kind \in Kind
    THEN [applied EXCEPT ![d][msg.kind] = [v |-> msg.v, age |-> 0]]
    ELSE applied

Mark(p) ==
    /\ job[p].pc = "mark"
    /\ applied' = markApplied(job[p].cur, job[p].msg)
    /\ Becomes(p, NextDevice([job[p] EXCEPT !.cur = None]))
    /\ UNCHANGED <<sc, zone, recent, status, device, trouble, missed, faults, calm>>

-----------------------------------------------------------------------------
(* The RPC returns, or goes on to apiStatusUpdate, which reads the colour   *)
(* first and the other fields after it has fetched the Zone resource.       *)
End(p) ==
    /\ job[p].pc = "ended"
    /\ Becomes(p, IF ~job[p].req.status THEN Idle
                  ELSE [job[p] EXCEPT !.pc = "marshal", !.snap = [color |-> zone.color]])
    /\ UNCHANGED <<sc, zone, applied, recent, status, device, trouble, missed, faults, calm>>

Marshal(p) ==
    /\ job[p].pc = "marshal"
    /\ Becomes(p, [job[p] EXCEPT !.pc = "patch",
                                 !.snap = [Report(zone) EXCEPT !.color = job[p].snap.color]])
    /\ UNCHANGED <<sc, zone, applied, recent, status, device, trouble, missed, faults, calm>>

Patch(p) ==
    /\ job[p].pc = "patch"
    /\ status' = job[p].snap
    /\ missed' = FALSE
    /\ Becomes(p, Idle)
    /\ UNCHANGED <<sc, zone, applied, recent, device, trouble, faults, calm>>

(* Fetching the Zone resource or patching it fails: the error is only       *)
(* logged.                                                                 *)
PatchFails(p) ==
    /\ job[p].pc \in {"marshal", "patch"}
    /\ Mishap
    /\ missed' = TRUE
    /\ Becomes(p, Idle)
    /\ UNCHANGED <<sc, zone, applied, recent, status, device, trouble, calm>>

-----------------------------------------------------------------------------
(* The process restarts: memory is lost, starting registers the devices     *)
(* and builds the zone from Status.                                        *)
Restart ==
    /\ Mishap
    /\ zone' = Load(status)
    /\ applied' = [d \in Devices |-> [k \in Kind |-> None]]
    /\ job' = [p \in Proc |-> Idle]
    /\ recent' = {}
    /\ missed' = FALSE
    /\ UNCHANGED <<sc, status, device, trouble, calm>>

(* A wall switch, another controller or a power cut changes a device. *)
Drift(d) ==
    /\ Mishap
    /\ \E new \in [power : Powers, level : Levels, hue : Hues] :
          /\ new # device[d]
          /\ device' = [device EXCEPT ![d] = new]
          /\ Doubt(d, Doubtful(d, new))
    /\ UNCHANGED <<sc, zone, applied, job, recent, status, missed, calm>>

Quiet == \A p \in Proc : job[p].pc = "idle"

Older(n) == IF n < RefreshAge THEN n + 1 ELSE n

(* A tick is longer than an RPC: the handlers wait three seconds at most,   *)
(* refresh ages are minutes.                                               *)
Tick ==
    /\ Quiet
    /\ applied' = [d \in Devices |-> [k \in Kind |->
          IF applied[d][k] = None THEN None ELSE [applied[d][k] EXCEPT !.age = Older(@)]]]
    /\ trouble' = [d \in Devices |-> [k \in Kind |-> Older(trouble[d][k])]]
    /\ recent' = {}
    /\ UNCHANGED <<sc, zone, job, status, device, missed, faults, calm>>

CalmDown ==
    /\ ~calm
    /\ calm' = TRUE
    /\ UNCHANGED <<sc, zone, applied, job, recent, status, device, trouble, missed, faults>>

Step(p) ==
    \/ SetField(p) \/ Switch(p) \/ Raise(p) \/ Check(p) \/ Send(p) \/ Mark(p)
    \/ End(p) \/ Marshal(p) \/ Patch(p)

Next ==
    \/ \E p \in Proc :
          \/ \E r \in sc.calls[p] : Call(p, r)
          \/ Step(p)
          \/ SendLost(p) \/ SendFails(p) \/ PatchFails(p)
    \/ \E d \in Devices : Drift(d)
    \/ Restart
    \/ Tick
    \/ CalmDown

Spec == Init /\ [][Next]_vars

(* RPCs run to completion, time passes, and devices keep reporting: each    *)
(* report the zigbee2mqtt router handles ends in a SelfAnnounce.           *)
FairSpec ==
    /\ Spec
    /\ \A p \in Proc : WF_vars(Step(p))
    /\ WF_vars(Tick)
    /\ \A d \in Devices : WF_vars(\E p \in Proc : Call(p, SelfAnnounce(d)))

-----------------------------------------------------------------------------
\* Message n of a complete flush of the zone goes to device d.
Sends(n, d) == Message(n, zone) # None /\ d \in Takes(Message(n, zone).kind)

FlushedCleanly(p) == job[p].pc = "ended" /\ job[p].n = 4 /\ ~job[p].err

Shows(d, msg) ==
    device[d][Primary(d, msg.kind)] = Deliver(d, msg)[Primary(d, msg.kind)]

\* No other goroutine serves RPCs.
Alone(p) == \A q \in Proc \ {p} : sc.calls[q] = {}

(* "A device that has drifted will be re-asserted within refreshAge"        *)
(* (zone.go): when Flush ends without an error, every flushed device shows  *)
(* the zone's value of each kind whose last mishap (outside change, side    *)
(* effect of another kind, lost or half-failed message) is at least         *)
(* refreshAge old, however many suppressed flushes came in between.  Where  *)
(* RPCs run concurrently the zone may change under the flush; Converges is  *)
(* what remains true then.                                                 *)
Reasserted ==
    \A p \in Proc : Alone(p) /\ FlushedCleanly(p) =>
        \A n \in 1..3, d \in job[p].req.flush :
            LET msg == Message(n, zone)
            IN  /\ Sends(n, d)
                /\ msg.kind \in Kind
                /\ trouble[d][msg.kind] >= RefreshAge
                => Shows(d, msg)

(* Where RPCs do not overlap, and while the last Status patch landed, a     *)
(* restart changes neither the zone's state nor its named brightness and    *)
(* colour temperature: GetZone reads back what apiStatusUpdate wrote.  (Of  *)
(* two RPCs that overlap, the patch with the older snapshot may land last.) *)
RestartKeeps ==
    Quiet /\ ~missed /\ (\E p \in Proc : Alone(p)) =>
        LET l == Load(status)
        IN  /\ l.state = zone.state
            /\ l.brightness = zone.brightness
            /\ l.colorTemp = zone.colorTemp

(* Whatever concurrent RPCs, faults and drift did to cache and devices,     *)
(* once they stop every device comes to show the zone's state for good, as  *)
(* long as it keeps announcing itself.                                     *)
Converges ==
    <>[](calm => \A n \in 1..3, d \in Devices :
                     Sends(n, d) => Deliver(d, Message(n, zone)) = device[d])
=============================================================================
