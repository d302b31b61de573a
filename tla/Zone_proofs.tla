----------------------------- MODULE Zone_proofs -----------------------------
(***************************************************************************)
(* Proofs about module Zone, for any number of devices of every kind, any  *)
(* requests, any number of mishaps and any refresh age: a flush re-asserts *)
(* what has drifted (Reasserted), and a restart keeps what Status reported *)
(* (RestartKeeps).                                                         *)
(*                                                                         *)
(* Both are about goroutines whose RPCs do not overlap.  For such a        *)
(* goroutine the invariant says how far its flush has come (the devices it *)
(* has passed are settled), what a cache entry that is younger than the    *)
(* last trouble of its kind tells about the device, and from where on      *)
(* Status agrees with the zone.                                            *)
(***************************************************************************)
EXTENDS Zone, WellFoundedInduction, TLAPS

ZoneType == [state : State, brightness : Brightness, brightnessValue : Int,
             colorTemp : ColorTemperature, kelvin : Int, color : Int]

\* What the resource holds, UNSPECIFIED values included.
StatusTyped(st) ==
    /\ st.state \in State /\ st.brightness \in Brightness \cup {0}
    /\ st.colorTemp \in ColorTemperature \cup {0}

\* What attribute Primary(d, msg.kind) is after d took msg.
Shown(d, msg) == IF Primary(d, msg.kind) = "power" /\ msg.kind # "state" THEN "ON" ELSE msg.v

DevicesTyped ==
    /\ device = [d \in Devices |-> [power |-> device[d].power, level |-> device[d].level, hue |-> device[d].hue]]
    /\ applied = [d \in Devices |-> [k \in Kind |-> applied[d][k]]]
    /\ \A d \in Devices, k \in Kind : applied[d][k] = None \/ applied[d][k] \in Entry(k)
    /\ trouble \in [Devices -> [Kind -> Nat]]

Flushing == {"switch", "raise", "check", "send", "mark"}
Sending == {"check", "send", "mark"}

\* A goroutine that serves an RPC.
JobTyped(p, j) ==
    /\ j = [pc |-> j.pc, req |-> j.req, todo |-> j.todo, n |-> j.n, left |-> j.left, msg |-> j.msg,
            cur |-> j.cur, err |-> j.err, snap |-> j.snap]
    /\ j.pc \in Flushing \cup {"set", "ended", "marshal", "patch"}
    /\ j.req \in sc.calls[p] /\ j.todo \in Seq(Setter) /\ j.err \in BOOLEAN /\ j.n \in 0..4
    /\ j.req.flush = None => \A i \in DOMAIN j.todo : j.todo[i].field \notin {"state", "on"}
    /\ ~j.req.status => \A i \in DOMAIN j.todo : j.todo[i].field = "announced"
    /\ j.pc = "set" => j.todo # <<>> /\ j.n = 0
    /\ j.pc \in Flushing => j.req.flush # None /\ j.n \in 1..3
    /\ j.pc = "raise" => j.n = 1
    /\ j.pc \in Sending => /\ j.msg.kind \in Kind \cup {"random"} /\ j.msg \in Msg(j.msg.kind)
                           /\ j.left \subseteq j.req.flush \cap Takes(j.msg.kind)
    /\ j.pc \in {"send", "mark"} => j.cur \in j.req.flush \cap Takes(j.msg.kind)
    /\ j.pc \in {"marshal", "patch"} => j.req.status
    /\ j.pc = "patch" => StatusTyped(j.snap)

Typed ==
    /\ sc \in Scenarios /\ zone \in ZoneType /\ StatusTyped(status)
    /\ DevicesTyped
    /\ job = [p \in Proc |-> job[p]]
    /\ \A p \in Proc : job[p] = Idle \/ JobTyped(p, job[p])

\* If nothing went wrong with d for the refresh age, it shows msg.
Settled(d, msg) ==
    (msg.kind \in Kind /\ trouble[d][msg.kind] >= RefreshAge) =>
        device[d][Primary(d, msg.kind)] = Shown(d, msg)

\* A goroutine at j has sent the message it is about to record to device d.
Marking(j, d, k) == j.pc = "mark" /\ j.cur = d /\ j.msg.kind = k

\* A cache entry is right if it was made after the last trouble of its kind.
Cached(j) ==
    \A d \in Devices, k \in Kind :
        (applied[d][k] # None /\ trouble[d][k] > applied[d][k].age /\ ~Marking(j, d, k)) =>
            device[d][Primary(d, k)] = Shown(d, [kind |-> k, v |-> applied[d][k].v])

\* The messages of the switches that are over have reached the devices.
Passed(j) ==
    \A m \in 1..3, d \in Devices :
        (m < j.n /\ d \in j.req.flush /\ Sends(m, d)) => Settled(d, Message(m, zone))

\* So has the current one as far as the flush has come.
Flushed(j) ==
    /\ j.pc # "idle" /\ ~j.err => Passed(j)
    /\ j.pc \in Sending => j.msg = Message(j.n, zone)
    /\ j.pc \in Sending /\ ~j.err =>
         \A d \in Devices : (d \in (j.req.flush \cap Takes(j.msg.kind)) \ j.left) =>
             (j.pc # "check" /\ d = j.cur) \/ Settled(d, j.msg)
    /\ j.pc = "mark" /\ j.msg.kind \in Kind /\ trouble[j.cur][j.msg.kind] > 0 =>
         device[j.cur][Primary(j.cur, j.msg.kind)] = Shown(j.cur, j.msg)

\* A zone built from the Status st would be the one in memory.
Agrees(st) ==
    LET l == Load(st)
    IN  l.state = zone.state /\ l.brightness = zone.brightness /\ l.colorTemp = zone.colorTemp

\* Where Status agrees with the zone; only a flush that is still ahead may
\* have to raise the state.
Reported(j) ==
    /\ zone.state = "UNSPECIFIED" =>
         j.pc \in {"set", "switch", "raise"} /\ j.n < 2 /\ j.req.flush # None /\ j.req.status
    /\ j.pc = "raise" => zone.state = "UNSPECIFIED"
    /\ (j.pc = "idle" \/ ~j.req.status) /\ ~missed => Agrees(status)
    /\ j.pc = "patch" => Agrees(j.snap)

Good(j) == Cached(j) /\ Flushed(j) /\ Reported(j)

IInv == Typed /\ \A p \in Proc : Alone(p) => Good(job[p])

-----------------------------------------------------------------------------
(* The tables and the setters.                                             *)

\* A set of natural numbers has a least element.
LEMMA Least ==
    ASSUME NEW N \in SUBSET Nat, N # {}
    PROVE  \E x \in N : \A y \in N : x <= y
  <1> DEFINE R == OpToRel(<, Nat)
  <1>1. \E x \in N : \A y \in N : ~(<<y, x>> \in R)
    BY WFMin, NatLessThanWellFounded, Zenon
  <1>2. PICK x \in N : \A y \in N : ~(y < x)
    BY <1>1, Zenon DEF OpToRel
  <1> QED BY <1>2

\* The level nearest to a value is one of the table.
LEMMA NearestIn ==
    ASSUME NEW table \in Seq(Int), table # <<>>, NEW v \in Int
    PROVE  Nearest(table, v) \in DOMAIN table
  <1> DEFINE D(e) == Dist(v, table[e])
  <1>1. \A e \in DOMAIN table : D(e) \in Nat
    BY DEF Dist
  <1> HIDE DEF D
  <1> DEFINE S == {D(e) : e \in DOMAIN table}
  <1>2. 1 \in DOMAIN table /\ DOMAIN table \subseteq Nat
    OBVIOUS
  <1>3. PICK x \in S : \A y \in S : x <= y
    <2>1. S \in SUBSET Nat /\ S # {}
      BY <1>1, <1>2
    <2> HIDE DEF S
    <2> QED BY <2>1, Least
  <1> DEFINE E == {e \in DOMAIN table : D(e) = x}
  <1>4. PICK e \in E : \A f \in E : e <= f
    <2>1. E \in SUBSET Nat /\ E # {}
      BY <1>2, <1>3
    <2> HIDE DEF E
    <2> QED BY <2>1, Least, Zenon
  <1>5. ASSUME NEW f \in DOMAIN table
        PROVE  D(e) < D(f) \/ (D(e) = D(f) /\ e <= f)
    <2>1. D(e) = x /\ x \in Nat /\ D(f) \in Nat /\ x <= D(f)
      BY <1>1, <1>3, <1>4
    <2>2. D(f) = x => e <= f
      BY <1>4
    <2> QED BY <2>1, <2>2
  <1>6. \E g \in DOMAIN table : \A f \in DOMAIN table : D(g) < D(f) \/ (D(g) = D(f) /\ g <= f)
    BY <1>4, <1>5
  <1> QED BY <1>6 DEF Nearest, D

\* So is the name of every value that is set.
LEMMA Named ==
    ASSUME NEW v \in Nat \ {0}
    PROVE  BrightnessNearestEnum(v) \in Brightness /\ ColorTempNearestEnum(v) \in ColorTemperature
  <1>1. /\ brightnessCanonical \in Seq(Int) /\ colorTempCanonical \in Seq(Int)
        /\ brightnessCanonical # <<>> /\ colorTempCanonical # <<>>
        /\ DOMAIN brightnessCanonical = Brightness /\ DOMAIN colorTempCanonical = ColorTemperature
    BY DEF brightnessCanonical, colorTempCanonical, Brightness, ColorTemperature
  <1>2. Nearest(brightnessCanonical, v) \in Brightness /\ Nearest(colorTempCanonical, v) \in ColorTemperature
    <2>1. v \in Int
      OBVIOUS
    <2>2. Nearest(brightnessCanonical, v) \in DOMAIN brightnessCanonical
      BY <1>1, <2>1, NearestIn
    <2>3. Nearest(colorTempCanonical, v) \in DOMAIN colorTempCanonical
      BY <1>1, <2>1, NearestIn
    <2> QED BY <1>1, <2>2, <2>3
  <1> QED BY <1>2 DEF BrightnessNearestEnum, ColorTempNearestEnum

\* Named levels and the values behind them.
LEMMA Graded ==
    /\ \A b \in Brightness : BrightnessCanonical(b) \in Int /\ IncrementBrightness(b) \in Brightness
                             /\ DecrementBrightness(b) \in Brightness
    /\ \A c \in ColorTemperature : ColorTempCanonical(c) \in Int
    /\ \A v \in Int, b \in Brightness : BrightVal(v, b) \in Int
    /\ \A k \in Int, c \in ColorTemperature : TempVal(k, c) \in Int
  <1>1. /\ \A b \in Brightness : BrightnessCanonical(b) \in Int /\ IncrementBrightness(b) \in Brightness
                                 /\ DecrementBrightness(b) \in Brightness
        /\ \A c \in ColorTemperature : ColorTempCanonical(c) \in Int
    BY DEF BrightnessCanonical, ColorTempCanonical, brightnessCanonical, colorTempCanonical, Brightness,
           ColorTemperature, IncrementBrightness, DecrementBrightness, FULL, VERYLOW
  <1>2. \A v \in Int, b \in Brightness : BrightVal(v, b) \in Int
    BY DEF BrightVal, defaultBrightnessMap, Brightness
  <1>3. \A k \in Int : k > 0 => (2000000 + k) \div (2 * k) \in Int
    OBVIOUS
  <1>4. \A k \in Int, c \in ColorTemperature : TempVal(k, c) \in Int
    BY <1>3 DEF TempVal, KelvinToMireds, defaultColorTemperatureMap, ColorTemperature
  <1> QED BY <1>1, <1>2, <1>4

\* A setter leaves a zone with every name set, and touches the state only if it
\* is one of the state.
LEMMA WriteKeeps ==
    ASSUME NEW z \in ZoneType, NEW s \in Setter
    PROVE  /\ Write(z, s) \in ZoneType
           /\ s.field \notin {"state", "on"} => Write(z, s).state = z.state
           /\ s.field = "announced" => Write(z, s) = z
  <1>1. CASE s.field \in {"state", "on", "color", "announced"}
    BY <1>1 DEF Setter, Write, ZoneType, State
  <1>2. CASE s.field = "brightness"
    BY <1>2, Graded, Zenon DEF Setter, Write, ZoneType
  <1>3. CASE s.field = "brightnessValue"
    <2>1. s.v \in Nat \ {0}
      BY <1>3 DEF Setter
    <2>2. BrightnessNearestEnum(s.v) \in Brightness
      BY <2>1, Named
    <2>3. PICK v \in Int, e \in Brightness : v = s.v /\ e = BrightnessNearestEnum(s.v)
      BY <2>1, <2>2
    <2>4. Write(z, s) = [z EXCEPT !.brightnessValue = v, !.brightness = e]
      BY <1>3, <2>3 DEF Write
    <2> QED BY <1>3, <2>4, Zenon DEF ZoneType
  <1>4. CASE s.field = "colorTemp"
    BY <1>4, Graded, Zenon DEF Setter, Write, ZoneType
  <1>5. CASE s.field = "kelvin"
    <2>1. s.v \in Nat \ {0}
      BY <1>5 DEF Setter
    <2>2. ColorTempNearestEnum(s.v) \in ColorTemperature
      BY <2>1, Named
    <2>3. PICK v \in Int, e \in ColorTemperature : v = s.v /\ e = ColorTempNearestEnum(s.v)
      BY <2>1, <2>2
    <2>4. Write(z, s) = [z EXCEPT !.kelvin = v, !.colorTemp = e]
      BY <1>5, <2>3 DEF Write
    <2> QED BY <1>5, <2>4, Zenon DEF ZoneType
  <1>6. CASE s.field = "step"
    BY <1>6, Graded DEF Setter, Write, ZoneType
  <1> QED BY <1>1, <1>2, <1>3, <1>4, <1>5, <1>6 DEF Setter

\* A zone read from Status has every name set, and a state.
LEMMA LoadKeeps ==
    ASSUME NEW st, StatusTyped(st)
    PROVE  Load(st) \in ZoneType /\ Load(st).state # "UNSPECIFIED"
  <1>1. FULL \in Brightness /\ FIRSTLIGHT \in ColorTemperature
    BY DEF FULL, FIRSTLIGHT, Brightness, ColorTemperature
  <1> QED BY <1>1, Graded DEF Load, ZoneType, State, StatusTyped

-----------------------------------------------------------------------------
(* Messages and devices.                                                   *)

Shape(r) == r = [power |-> r.power, level |-> r.level, hue |-> r.hue]

\* The switches of Flush send messages of different kinds.
LEMMA Messages ==
    ASSUME NEW z \in ZoneType, NEW n \in 1..3, Message(n, z) # None
    PROVE  /\ Message(n, z).kind \in Kind \cup {"random"} /\ Message(n, z) \in Msg(Message(n, z).kind)
           /\ n = 1 => Message(n, z).kind \in {"state", "color", "random"}
           /\ n = 2 => Message(n, z).kind = "brightness"
           /\ n = 3 => Message(n, z).kind = "color_temp"
  <1>1. CASE n = 1
    BY <1>1 DEF Message, Msg, Value, Kind, ZoneType, Random
  <1>2. CASE n = 2
    <2>1. PICK v \in Int : v = BrightVal(z.brightnessValue, z.brightness)
      BY Graded DEF ZoneType
    <2> QED BY <1>2, <2>1 DEF Message, Msg, Value, Kind
  <1>3. CASE n = 3
    <2>1. PICK v \in Int : v = TempVal(z.kelvin, z.colorTemp)
      BY Graded DEF ZoneType
    <2> QED BY <1>3, <2>1 DEF Message, Msg, Value, Kind
  <1> QED BY <1>1, <1>2, <1>3

\* A device that took a message shows it.
LEMMA Delivered ==
    ASSUME DevicesTyped, NEW d \in Devices, NEW msg, msg.kind \in Kind \cup {"random"}
    PROVE  Shape(Deliver(d, msg)) /\ Deliver(d, msg)[Primary(d, msg.kind)] = Shown(d, msg)
  <1>1. Shape(device[d])
    BY DEF DevicesTyped, Shape
  <1>2. CASE Primary(d, msg.kind) = "power"
    <2>1. Deliver(d, msg) = [device[d] EXCEPT !.power = IF msg.kind = "state" THEN msg.v ELSE "ON"]
      BY <1>2 DEF Deliver, Primary
    <2> QED BY <1>1, <1>2, <2>1 DEF Shape, Shown
  <1>3. CASE Primary(d, msg.kind) # "power" /\ msg.kind = "brightness"
    <2>1. Deliver(d, msg) = [device[d] EXCEPT !.level = msg.v, !.power = "ON"] /\ Primary(d, msg.kind) = "level"
      BY <1>3 DEF Deliver, Primary
    <2> QED BY <1>1, <2>1, Zenon DEF Shape, Shown
  <1>4. CASE Primary(d, msg.kind) # "power" /\ msg.kind # "brightness"
    <2>1. Deliver(d, msg) = [device[d] EXCEPT !.hue = msg.v] /\ Primary(d, msg.kind) = "hue"
      BY <1>4 DEF Deliver, Primary, Kind
    <2> QED BY <1>1, <2>1 DEF Shape, Shown
  <1> QED BY <1>2, <1>3, <1>4

\* The attribute behind kind k of device d is as before, or its change is noted.
Undisturbed(d, k) ==
    \/ trouble'[d][k] = 0
    \/ trouble'[d][k] = trouble[d][k] /\ device'[d][Primary(d, k)] = device[d][Primary(d, k)]

\* The device e comes to show `new`, and the entries of K are doubted.
LEMMA Changes ==
    ASSUME DevicesTyped, NEW e \in Devices, NEW new, Shape(new), NEW K,
           device' = [device EXCEPT ![e] = new], Doubt(e, K)
    PROVE  /\ device' = [d \in Devices |-> [power |-> device'[d].power, level |-> device'[d].level,
                                           hue |-> device'[d].hue]]
           /\ trouble' \in [Devices -> [Kind -> Nat]]
           /\ device'[e] = new
           /\ \A k \in K \cap Kind : trouble'[e][k] = 0
           /\ \A d \in Devices, k \in Kind :
                (d # e \/ k \in K \/ k \notin Doubtful(e, new)) => Undisturbed(d, k)
  <1>1. device'[e] = new /\ \A d \in Devices : d # e => device'[d] = device[d]
    BY DEF DevicesTyped
  <1>2. DOMAIN device' = Devices /\ \A d \in Devices : Shape(device'[d])
    BY <1>1 DEF DevicesTyped, Shape
  <1>3. /\ trouble' = [trouble EXCEPT ![e] = [k \in Kind |-> IF k \in K THEN 0 ELSE trouble[e][k]]]
        /\ trouble \in [Devices -> [Kind -> Nat]]
    BY DEF Doubt, DevicesTyped
  <1>4. trouble' \in [Devices -> [Kind -> Nat]]
    BY <1>3
  <1>5. \A k \in Kind : trouble'[e][k] = IF k \in K THEN 0 ELSE trouble[e][k]
    BY <1>3
  <1>6. \A d \in Devices : d # e => trouble'[d] = trouble[d]
    BY <1>3
  <1>7. ASSUME NEW d \in Devices, NEW k \in Kind, d # e \/ k \in K \/ k \notin Doubtful(e, new)
        PROVE  Undisturbed(d, k)
    <2>1. CASE d # e
      BY <2>1, <1>1, <1>6 DEF Undisturbed
    <2>2. CASE d = e /\ k \in K
      BY <2>2, <1>5 DEF Undisturbed
    <2>3. CASE d = e /\ k \notin K /\ k \notin Doubtful(e, new)
      BY <2>3, <1>1, <1>5 DEF Undisturbed, Doubtful
    <2> QED BY <1>7, <2>1, <2>2, <2>3
  <1>8. device' = [d \in Devices |-> device'[d]]
    BY Zenon DEF DevicesTyped
  <1> QED BY <1>1, <1>2, <1>4, <1>5, <1>7, <1>8 DEF Shape

\* A settled device stays settled while its trouble is noted.
LEMMA StaysSettled ==
    ASSUME DevicesTyped, NEW d \in Devices, NEW msg, msg.kind \in Kind => Undisturbed(d, msg.kind), Settled(d, msg)
    PROVE  Settled(d, msg)'
  BY ConstantsAssumption DEF Settled, Undisturbed, Shown, Primary

-----------------------------------------------------------------------------
(* Goroutines.                                                             *)

\* A goroutine that serves an RPC is not idle, and its devices are the zone's.
LEMMA Busy ==
    ASSUME IInv, NEW p \in Proc, job[p].pc # "idle"
    PROVE  /\ JobTyped(p, job[p]) /\ sc.calls[p] # {}
           /\ job[p].req.flush # None => job[p].req.flush \subseteq Devices
  <1>1. JobTyped(p, job[p])
    BY DEF IInv, Typed, Idle
  <1>2. Request(job[p].req)
    BY <1>1, ScenariosAssumption DEF IInv, Typed, JobTyped
  <1> QED BY <1>1, <1>2, Zenon DEF JobTyped, Request

\* A step of one goroutine: it is the one whose RPCs do not overlap, if there
\* is one.
LEMMA StepOf ==
    ASSUME IInv, NEW p \in Proc, sc.calls[p] # {}, NEW j, Becomes(p, j), sc' = sc,
           zone' \in ZoneType, StatusTyped(status)', DevicesTyped', j = Idle \/ JobTyped(p, j),
           Alone(p) => Good(j)'
    PROVE  IInv'
  <1>1. job' = [q \in Proc |-> job'[q]] /\ job'[p] = j /\ \A q \in Proc : q # p => job'[q] = job[q]
    BY DEF IInv, Typed, Becomes
  <1>2. ASSUME NEW q \in Proc
        PROVE  (job[q] = Idle \/ JobTyped(q, job[q]))'
    <2>1. \A i : JobTyped(q, i) => JobTyped(q, i)'
      BY Zenon DEF JobTyped, StatusTyped
    <2>2. CASE q = p
      BY <1>1, <2>1, <2>2
    <2>3. CASE q # p
      BY <1>1, <2>1, <2>3 DEF IInv, Typed
    <2> QED BY <2>2, <2>3
  <1>3. Typed'
    BY <1>1, <1>2 DEF IInv, Typed
  <1>4. ASSUME NEW q \in Proc, Alone(q)'
        PROVE  Good(job[q])'
    <2>1. q = p /\ Alone(p)
      BY <1>4 DEF Alone
    <2> QED BY <1>1, <2>1
  <1> QED BY <1>3, <1>4 DEF IInv

\* Cache and devices do not change.
LEMMA StaysCached ==
    ASSUME NEW i, NEW j, Cached(i), i.pc # "mark", UNCHANGED <<applied, device, trouble>>
    PROVE  Cached(j)'
  BY DEF Cached, Marking, Shown, Primary

\* A request starts, or a setter of it is done.
LEMMA Starts ==
    ASSUME NEW p \in Proc, NEW i, i.pc = "set", i.n = 0, i.req \in sc.calls[p], i.todo \in Seq(Setter),
           i = [pc |-> i.pc, req |-> i.req, todo |-> i.todo, n |-> i.n, left |-> i.left, msg |-> i.msg,
                cur |-> i.cur, err |-> i.err, snap |-> i.snap], i.err \in BOOLEAN,
           i.req.flush = None => \A x \in DOMAIN i.todo : i.todo[x].field \notin {"state", "on"},
           ~i.req.status => \A x \in DOMAIN i.todo : i.todo[x].field = "announced"
    PROVE  /\ JobTyped(p, Start(i)) /\ Flushed(Start(i))' /\ Start(i).req = i.req /\ Start(i).n < 2
           /\ Start(i).pc \in {"set", "switch", "ended"} /\ (Start(i).pc = "ended" => i.req.flush = None)
  <1>1. CASE i.todo # <<>>
    <2>1. Start(i) = i
      BY <1>1 DEF Start
    <2>2. JobTyped(p, i)
      BY <1>1 DEF JobTyped, Flushing, Sending
    <2>3. Flushed(i)'
      BY DEF Flushed, Passed, Sending
    <2> QED BY <2>1, <2>2, <2>3
  <1>2. CASE i.todo = <<>> /\ i.req.flush = None
    <2>1. Start(i) = [i EXCEPT !.pc = "ended"]
      BY <1>2 DEF Start
    <2>2. PICK k : k = [i EXCEPT !.pc = "ended"]
      OBVIOUS
    <2>3. k = [pc |-> "ended", req |-> i.req, todo |-> i.todo, n |-> i.n, left |-> i.left, msg |-> i.msg,
                cur |-> i.cur, err |-> i.err, snap |-> i.snap]
      BY <2>2
    <2>4. JobTyped(p, k)
      BY <1>2, <2>3 DEF JobTyped, Flushing, Sending
    <2>5. Flushed(k)'
      BY <2>3 DEF Flushed, Passed, Sending
    <2> QED BY <1>2, <2>1, <2>2, <2>3, <2>4, <2>5
  <1>3. CASE i.todo = <<>> /\ i.req.flush # None
    <2>1. Start(i) = [i EXCEPT !.pc = "switch", !.n = 1]
      BY <1>3 DEF Start
    <2>2. PICK k : k = [i EXCEPT !.pc = "switch", !.n = 1]
      OBVIOUS
    <2>3. k = [pc |-> "switch", req |-> i.req, todo |-> i.todo, n |-> 1, left |-> i.left, msg |-> i.msg,
                cur |-> i.cur, err |-> i.err, snap |-> i.snap]
      BY <2>2, Zenon
    <2>4. JobTyped(p, k)
      BY <1>3, <2>3 DEF JobTyped, Flushing, Sending
    <2>5. Flushed(k)'
      BY <2>3 DEF Flushed, Passed, Sending
    <2> QED BY <2>1, <2>2, <2>3, <2>4, <2>5
  <1> QED BY <1>1, <1>2, <1>3

LEMMA CallKeeps ==
    ASSUME IInv, NEW p \in Proc, NEW r \in sc.calls[p], Call(p, r)
    PROVE  IInv'
  <1>1. PICK i : i = [pc |-> "set", req |-> r, todo |-> r.set, n |-> 0, left |-> {}, msg |-> None,
                      cur |-> None, err |-> FALSE, snap |-> None]
    OBVIOUS
  <1>2. PICK j : j = Start(i)
    OBVIOUS
  <1>3. Request(r)
    BY ScenariosAssumption DEF IInv, Typed
  <1>4. /\ JobTyped(p, j) /\ Flushed(j)' /\ j.req = r /\ j.n < 2
        /\ j.pc \in {"set", "switch", "ended"} /\ (j.pc = "ended" => r.flush = None)
    <2>1. /\ i.pc = "set" /\ i.n = 0 /\ i.req \in sc.calls[p] /\ i.todo \in Seq(Setter) /\ i.err \in BOOLEAN
          /\ i.req = r
          /\ i = [pc |-> i.pc, req |-> i.req, todo |-> i.todo, n |-> i.n, left |-> i.left, msg |-> i.msg,
                  cur |-> i.cur, err |-> i.err, snap |-> i.snap]
      BY <1>1, <1>3 DEF Request
    <2>2. /\ i.req.flush = None => \A x \in DOMAIN i.todo : i.todo[x].field \notin {"state", "on"}
          /\ ~i.req.status => \A x \in DOMAIN i.todo : i.todo[x].field = "announced"
      BY <1>1, <1>3 DEF Request
    <2> QED BY <1>2, <2>1, <2>2, Starts
  <1>5. Becomes(p, j) /\ job[p].pc = "idle" /\ UNCHANGED <<sc, zone, applied, status, device, trouble, missed>>
    BY <1>1, <1>2 DEF Call
  <1>6. ASSUME Alone(p)
        PROVE  Good(j)'
    <2>1. Cached(job[p]) /\ Reported(job[p])
      BY <1>6 DEF IInv, Good
    <2>2. PICK o : o = job[p]
      OBVIOUS
    <2>3. Cached(j)'
      BY <1>5, <2>1, <2>2, StaysCached
    <2>4. zone.state # "UNSPECIFIED" /\ (~missed => Agrees(status))
      BY <1>5, <2>1 DEF Reported
    <2>5. Reported(j)'
      BY <1>4, <1>5, <2>4 DEF Reported, Agrees
    <2> QED BY <1>4, <2>3, <2>5 DEF Good
  <1>7. zone' \in ZoneType /\ StatusTyped(status)' /\ DevicesTyped'
    BY <1>5 DEF IInv, Typed, StatusTyped, DevicesTyped
  <1> QED BY <1>4, <1>5, <1>6, <1>7, StepOf

LEMMA SetFieldKeeps ==
    ASSUME IInv, NEW p \in Proc, SetField(p)
    PROVE  IInv'
  <1>1. PICK o : o = job[p]
    OBVIOUS
  <1>2. o.pc = "set" /\ JobTyped(p, o) /\ sc.calls[p] # {}
    BY <1>1, Busy DEF SetField
  <1>3. PICK h \in Setter : h = Head(o.todo)
    BY <1>2 DEF JobTyped
  <1>4. /\ o.req.flush = None => h.field \notin {"state", "on"}
        /\ ~o.req.status => h.field = "announced"
    BY <1>2, <1>3 DEF JobTyped
  <1>5. PICK i : i = [o EXCEPT !.todo = Tail(@)]
    OBVIOUS
  <1>6. i = [pc |-> "set", req |-> o.req, todo |-> Tail(o.todo), n |-> 0, left |-> o.left, msg |-> o.msg,
             cur |-> o.cur, err |-> o.err, snap |-> o.snap]
    BY <1>2, <1>5, Zenon DEF JobTyped
  <1>7. PICK j : j = Start(i)
    OBVIOUS
  <1>8. /\ JobTyped(p, j) /\ Flushed(j)' /\ j.req = o.req /\ j.n < 2
        /\ j.pc \in {"set", "switch", "ended"} /\ (j.pc = "ended" => o.req.flush = None)
    <2>1. /\ i.pc = "set" /\ i.n = 0 /\ i.req \in sc.calls[p] /\ i.err \in BOOLEAN /\ i.req = o.req
          /\ i = [pc |-> i.pc, req |-> i.req, todo |-> i.todo, n |-> i.n, left |-> i.left, msg |-> i.msg,
                  cur |-> i.cur, err |-> i.err, snap |-> i.snap]
      BY <1>2, <1>6 DEF JobTyped
    <2>2. o.todo \in Seq(Setter) /\ o.todo # <<>> /\ i.todo = Tail(o.todo)
      BY <1>2, <1>6 DEF JobTyped
    <2>3. i.todo \in Seq(Setter) /\ \A x \in DOMAIN i.todo : x + 1 \in DOMAIN o.todo /\ i.todo[x] = o.todo[x + 1]
      BY <2>2
    <2>4. /\ i.req.flush = None => \A x \in DOMAIN i.todo : i.todo[x].field \notin {"state", "on"}
          /\ ~i.req.status => \A x \in DOMAIN i.todo : i.todo[x].field = "announced"
      BY <1>2, <2>1, <2>3 DEF JobTyped
    <2> QED BY <1>7, <2>1, <2>3, <2>4, Starts
  <1>9. /\ Becomes(p, j) /\ zone' = Write(zone, h)
        /\ UNCHANGED <<sc, applied, status, device, trouble, missed>>
    BY <1>1, <1>3, <1>5, <1>7 DEF SetField
  <1>10. /\ zone' \in ZoneType
         /\ h.field \notin {"state", "on"} => zone'.state = zone.state
         /\ h.field = "announced" => zone' = zone
    BY <1>9, WriteKeeps DEF IInv, Typed
  <1>11. ASSUME Alone(p)
         PROVE  Good(j)'
    <2>1. Cached(o) /\ Reported(o)
      BY <1>1, <1>11 DEF IInv, Good
    <2>2. Cached(j)'
      BY <1>2, <1>9, <2>1, StaysCached
    <2>3. ASSUME zone'.state = "UNSPECIFIED"
          PROVE  j.pc \in {"set", "switch", "raise"} /\ j.n < 2 /\ j.req.flush # None /\ j.req.status
      <3>1. CASE o.req.flush = None
        BY <1>2, <1>4, <1>10, <2>1, <2>3, <3>1 DEF Reported
      <3>2. CASE o.req.flush # None /\ ~o.req.status
        BY <1>2, <1>4, <1>10, <2>1, <2>3, <3>2 DEF Reported
      <3>3. CASE o.req.flush # None /\ o.req.status
        BY <1>8, <3>3
      <3> QED BY <3>1, <3>2, <3>3
    <2>4. (~j.req.status /\ ~missed => Agrees(status))'
      BY <1>4, <1>8, <1>9, <1>10, <2>1, Zenon DEF Reported, Agrees
    <2>5. Reported(j)'
      BY <1>8, <2>3, <2>4 DEF Reported
    <2> QED BY <1>8, <2>2, <2>5 DEF Good
  <1>12. StatusTyped(status)' /\ DevicesTyped'
    BY <1>9 DEF IInv, Typed, StatusTyped, DevicesTyped
  <1> QED BY <1>2, <1>8, <1>9, <1>10, <1>11, <1>12, StepOf

LEMMA RaiseKeeps ==
    ASSUME IInv, NEW p \in Proc, Raise(p)
    PROVE  IInv'
  <1>1. PICK o : o = job[p]
    OBVIOUS
  <1>2. o.pc = "raise" /\ JobTyped(p, o) /\ sc.calls[p] # {}
    BY <1>1, Busy DEF Raise
  <1>3. PICK j : j = [o EXCEPT !.pc = "ended"]
    OBVIOUS
  <1>4. j = [pc |-> "ended", req |-> o.req, todo |-> o.todo, n |-> 1, left |-> o.left, msg |-> o.msg,
             cur |-> o.cur, err |-> o.err, snap |-> o.snap]
    BY <1>2, <1>3 DEF JobTyped
  <1>5. JobTyped(p, j)
    BY <1>2, <1>4 DEF JobTyped, Flushing, Sending
  <1>6. /\ Becomes(p, j) /\ zone' = [zone EXCEPT !.state = "OFF"]
        /\ UNCHANGED <<sc, applied, status, device, trouble, missed>>
    BY <1>1, <1>3 DEF Raise
  <1>7. zone' \in ZoneType /\ zone'.state = "OFF"
    BY <1>6 DEF IInv, Typed, ZoneType, State
  <1>8. ASSUME Alone(p)
        PROVE  Good(j)'
    <2>1. Cached(o) /\ Reported(o)
      BY <1>1, <1>8 DEF IInv, Good
    <2>2. Cached(j)'
      BY <1>2, <1>6, <2>1, StaysCached
    <2>3. Flushed(j)'
      BY <1>4 DEF Flushed, Passed, Sending
    <2>4. o.req.status
      BY <1>2, <2>1 DEF Reported
    <2>5. Reported(j)'
      BY <1>4, <1>7, <2>4 DEF Reported
    <2> QED BY <2>2, <2>3, <2>5 DEF Good
  <1>9. StatusTyped(status)' /\ DevicesTyped'
    BY <1>6 DEF IInv, Typed, StatusTyped, DevicesTyped
  <1> QED BY <1>2, <1>5, <1>6, <1>7, <1>8, <1>9, StepOf

LEMMA EndKeeps ==
    ASSUME IInv, NEW p \in Proc, End(p)
    PROVE  IInv'
  <1>1. PICK o : o = job[p]
    OBVIOUS
  <1>2. o.pc = "ended" /\ JobTyped(p, o) /\ sc.calls[p] # {}
    BY <1>1, Busy DEF End
  <1>3. UNCHANGED <<sc, zone, applied, status, device, trouble, missed>>
    BY DEF End
  <1>4. zone' \in ZoneType /\ StatusTyped(status)' /\ DevicesTyped'
    BY <1>3 DEF IInv, Typed, StatusTyped, DevicesTyped
  <1>5. Alone(p) => Cached(o) /\ Flushed(o) /\ Reported(o)
    BY <1>1 DEF IInv, Good
  <1>6. CASE ~o.req.status
    <2>1. Becomes(p, Idle)
      BY <1>1, <1>6 DEF End
    <2>2. ASSUME Alone(p)
          PROVE  Good(Idle)'
      <3>1. Cached(Idle)'
        BY <1>2, <1>3, <1>5, <2>2, StaysCached
      <3>2. Flushed(Idle)'
        BY DEF Flushed, Idle, Sending
      <3>3. Reported(Idle)'
        BY <1>2, <1>3, <1>5, <1>6, <2>2, Zenon DEF Reported, Idle, Agrees
      <3> QED BY <3>1, <3>2, <3>3 DEF Good
    <2> QED BY <1>2, <1>3, <1>4, <2>1, <2>2, StepOf, Zenon
  <1>7. CASE o.req.status
    <2>1. PICK j : j = [o EXCEPT !.pc = "marshal", !.snap = [color |-> zone.color]]
      OBVIOUS
    <2>2. j = [pc |-> "marshal", req |-> o.req, todo |-> o.todo, n |-> o.n, left |-> o.left, msg |-> o.msg,
               cur |-> o.cur, err |-> o.err, snap |-> [color |-> zone.color]]
      BY <1>2, <2>1, Zenon DEF JobTyped
    <2>3. Becomes(p, j)
      BY <1>1, <1>7, <2>1 DEF End
    <2>4. JobTyped(p, j)
      BY <1>2, <1>7, <2>2 DEF JobTyped, Flushing, Sending
    <2>5. ASSUME Alone(p)
          PROVE  Good(j)'
      <3>1. Cached(j)'
        BY <1>2, <1>3, <1>5, <2>5, StaysCached, Zenon
      <3>2. Flushed(j)'
        BY <1>2, <1>3, <1>5, <2>2, <2>5, Zenon DEF Flushed, Sending, Passed, Sends, Settled
      <3>3. Reported(j)'
        BY <1>2, <1>3, <1>5, <1>7, <2>2, <2>5, Zenon DEF Reported
      <3> QED BY <3>1, <3>2, <3>3 DEF Good
    <2> QED BY <1>2, <1>3, <1>4, <2>3, <2>4, <2>5, StepOf, Zenon
  <1> QED BY <1>6, <1>7

\* What apiStatusUpdate marshals reads back as the zone it was taken from.
LEMMA ReadsBack ==
    ASSUME NEW z \in ZoneType, NEW c
    PROVE  /\ StatusTyped([Report(z) EXCEPT !.color = c])
           /\ z.state # "UNSPECIFIED" =>
                LET l == Load([Report(z) EXCEPT !.color = c])
                IN  l.state = z.state /\ l.brightness = z.brightness /\ l.colorTemp = z.colorTemp
  <1>1. [Report(z) EXCEPT !.color = c] = [state |-> z.state, brightness |-> z.brightness,
                                         colorTemp |-> z.colorTemp, color |-> c]
    BY DEF Report
  <1>2. z.state \in State /\ z.brightness \in Brightness /\ z.colorTemp \in ColorTemperature
    BY DEF ZoneType
  <1>3. z.brightness # 0 /\ z.colorTemp # 0
    BY <1>2 DEF Brightness, ColorTemperature
  <1> QED BY <1>1, <1>2, <1>3 DEF StatusTyped, Load

LEMMA MarshalKeeps ==
    ASSUME IInv, NEW p \in Proc, Marshal(p)
    PROVE  IInv'
  <1>1. PICK o : o = job[p]
    OBVIOUS
  <1>2. o.pc = "marshal" /\ JobTyped(p, o) /\ sc.calls[p] # {}
    BY <1>1, Busy DEF Marshal
  <1>3. UNCHANGED <<sc, zone, applied, status, device, trouble, missed>>
    BY DEF Marshal
  <1>4. zone' \in ZoneType /\ StatusTyped(status)' /\ DevicesTyped'
    BY <1>3 DEF IInv, Typed, StatusTyped, DevicesTyped
  <1>5. PICK st : st = [Report(zone) EXCEPT !.color = o.snap.color]
    OBVIOUS
  <1>6. StatusTyped(st) /\ (zone.state # "UNSPECIFIED" => Agrees(st))
    BY <1>5, ReadsBack DEF Agrees, IInv, Typed
  <1>7. PICK j : j = [o EXCEPT !.pc = "patch", !.snap = st]
    OBVIOUS
  <1>8. j = [pc |-> "patch", req |-> o.req, todo |-> o.todo, n |-> o.n, left |-> o.left, msg |-> o.msg,
             cur |-> o.cur, err |-> o.err, snap |-> st]
    BY <1>2, <1>7, Zenon DEF JobTyped
  <1>9. Becomes(p, j)
    BY <1>1, <1>5, <1>7 DEF Marshal
  <1>10. JobTyped(p, j)
    BY <1>2, <1>6, <1>8, Zenon DEF JobTyped, Flushing, Sending
  <1>11. ASSUME Alone(p)
         PROVE  Good(j)'
    <2>1. Cached(o) /\ Flushed(o) /\ Reported(o)
      BY <1>1, <1>11 DEF IInv, Good
    <2>2. Cached(j)'
      BY <1>2, <1>3, <2>1, StaysCached
    <2>3. Flushed(j)'
      BY <1>2, <1>3, <1>8, <2>1, Zenon DEF Flushed, Sending, Passed, Sends, Settled
    <2>4. zone.state # "UNSPECIFIED" /\ o.req.status
      BY <1>2, <2>1 DEF Reported, JobTyped
    <2>5. Agrees(st)'
      BY <1>3, <1>6, <2>4 DEF Agrees
    <2>6. Reported(j)'
      BY <1>3, <1>8, <2>4, <2>5 DEF Reported
    <2> QED BY <2>2, <2>3, <2>6 DEF Good
  <1> QED BY <1>2, <1>3, <1>4, <1>9, <1>10, <1>11, StepOf, Zenon

LEMMA PatchKeeps ==
    ASSUME IInv, NEW p \in Proc, Patch(p) \/ PatchFails(p)
    PROVE  IInv'
  <1>1. PICK o : o = job[p]
    OBVIOUS
  <1>2. o.pc \in {"marshal", "patch"} /\ JobTyped(p, o) /\ sc.calls[p] # {}
    BY <1>1, Busy DEF Patch, PatchFails
  <1>3. Becomes(p, Idle) /\ UNCHANGED <<sc, zone, applied, device, trouble>>
    BY DEF Patch, PatchFails
  <1>4. \/ missed' = TRUE /\ status' = status
        \/ o.pc = "patch" /\ status' = o.snap
    BY <1>1 DEF Patch, PatchFails
  <1>5. zone' \in ZoneType /\ StatusTyped(status)' /\ DevicesTyped'
    <2>1. zone' \in ZoneType /\ DevicesTyped'
      BY <1>3 DEF IInv, Typed, DevicesTyped
    <2>2. StatusTyped(status) /\ (o.pc = "patch" => StatusTyped(o.snap))
      BY <1>2, Zenon DEF IInv, Typed, JobTyped
    <2> QED BY <1>4, <2>1, <2>2 DEF StatusTyped
  <1>6. ASSUME Alone(p)
        PROVE  Good(Idle)'
    <2>1. Cached(o) /\ Reported(o)
      BY <1>1, <1>6 DEF IInv, Good
    <2>2. Cached(Idle)'
      BY <1>2, <1>3, <2>1, StaysCached
    <2>3. Flushed(Idle)'
      BY DEF Flushed, Idle, Sending
    <2>4. Reported(Idle)'
      BY <1>2, <1>3, <1>4, <2>1, Zenon DEF Reported, Idle, Agrees
    <2> QED BY <2>2, <2>3, <2>4 DEF Good
  <1> QED BY <1>2, <1>3, <1>5, <1>6, StepOf

-----------------------------------------------------------------------------
(* The flush.                                                              *)

Record(j) == j = [pc |-> j.pc, req |-> j.req, todo |-> j.todo, n |-> j.n, left |-> j.left, msg |-> j.msg,
                  cur |-> j.cur, err |-> j.err, snap |-> j.snap]

\* A goroutine in a flush, between two of its steps.
Under(p, i) ==
    /\ Record(i) /\ i.req \in sc.calls[p] /\ i.todo \in Seq(Setter) /\ i.err \in BOOLEAN /\ i.n \in 1..3
    /\ i.req.flush # None /\ i.req.flush \subseteq Devices
    /\ ~i.req.status => \A x \in DOMAIN i.todo : i.todo[x].field = "announced"

\* The current message has reached the devices as far as the flush has come.
Passing(i) ==
    /\ i.msg = Message(i.n, zone)
    /\ ~i.err => /\ Passed(i)
                 /\ \A d \in Devices : (d \in (i.req.flush \cap Takes(i.msg.kind)) \ i.left) => Settled(d, i.msg)

\* The current switch has nothing more to send.
Over(i) ==
    ~i.err => /\ Passed(i)
              /\ \A d \in Devices : (d \in i.req.flush /\ Sends(i.n, d)) => Settled(d, Message(i.n, zone))

LEMMA FlushTyped ==
    ASSUME NEW p \in Proc, NEW j, Under(p, j), j.pc \in Flushing, j.pc = "raise" => j.n = 1,
           j.pc \in Sending => /\ j.msg.kind \in Kind \cup {"random"} /\ j.msg \in Msg(j.msg.kind)
                               /\ j.left \subseteq j.req.flush \cap Takes(j.msg.kind),
           j.pc \in {"send", "mark"} => j.cur \in j.req.flush \cap Takes(j.msg.kind)
    PROVE  JobTyped(p, j)
  <1>1. j.pc \notin {"set", "marshal", "patch"} /\ j.n \in 0..4
    BY DEF Flushing, Under
  <1> QED BY <1>1 DEF Under, Record, JobTyped

\* A switch of Flush is over.
LEMMA SwitchOver ==
    ASSUME NEW p \in Proc, NEW i, Under(p, i)
    PROVE  /\ JobTyped(p, NextSwitch(i)) /\ NextSwitch(i).req = i.req /\ NextSwitch(i).pc \in {"switch", "ended"}
           /\ Over(i)' => Flushed(NextSwitch(i))'
  <1>1. PICK j : j = NextSwitch(i)
    OBVIOUS
  <1>2. PICK pc \in {"switch", "ended"} :
            /\ (pc = "ended") <=> (i.n = 3)
            /\ j = [pc |-> pc, req |-> i.req, todo |-> i.todo, n |-> i.n + 1, left |-> i.left, msg |-> i.msg,
                    cur |-> i.cur, err |-> i.err, snap |-> i.snap]
    <2>1. CASE i.n = 3
      <3>1. j = [i EXCEPT !.pc = "ended", !.n = 4]
        BY <1>1, <2>1 DEF NextSwitch
      <3>2. j = [pc |-> "ended", req |-> i.req, todo |-> i.todo, n |-> 4, left |-> i.left, msg |-> i.msg,
                 cur |-> i.cur, err |-> i.err, snap |-> i.snap]
        BY <3>1, Zenon DEF Under, Record
      <3>3. i.n + 1 = 4
        BY <2>1
      <3> QED BY <2>1, <3>2, <3>3
    <2>2. CASE i.n # 3
      <3>1. j = [i EXCEPT !.pc = "switch", !.n = i.n + 1]
        BY <1>1, <2>2 DEF NextSwitch, Under, Record
      <3>2. j = [pc |-> "switch", req |-> i.req, todo |-> i.todo, n |-> i.n + 1, left |-> i.left, msg |-> i.msg,
                 cur |-> i.cur, err |-> i.err, snap |-> i.snap]
        BY <3>1, Zenon DEF Under, Record
      <3> QED BY <2>2, <3>2
    <2> QED BY <2>1, <2>2
  <1>3. JobTyped(p, j)
    <2>1. CASE pc = "switch"
      <3>1. /\ Record(j) /\ j.pc = "switch" /\ j.n = i.n + 1 /\ j.req = i.req /\ j.todo = i.todo /\ j.err = i.err
        BY <1>2, <2>1 DEF Record
      <3>2. j.n \in 1..3
        BY <1>2, <2>1, <3>1 DEF Under
      <3>3. Under(p, j)
        BY <3>1, <3>2 DEF Under
      <3> QED BY <3>1, <3>3, FlushTyped DEF Flushing, Sending
    <2>2. CASE pc = "ended"
      <3>1. Record(j) /\ j.pc = "ended" /\ j.n = 4 /\ j.req = i.req /\ j.todo = i.todo /\ j.err = i.err
        BY <1>2, <2>2 DEF Record
      <3> QED BY <3>1 DEF JobTyped, Flushing, Sending, Under, Record
    <2> QED BY <2>1, <2>2
  <1>4. Over(i)' => (~j.err => Passed(j)')
    <2> SUFFICES ASSUME Over(i)', ~i.err, NEW m \in 1..3, NEW d \in Devices, m < i.n + 1, d \in i.req.flush, Sends(m, d)'
                 PROVE  Settled(d, Message(m, zone))'
      BY <1>2 DEF Passed
    <2>1. m < i.n \/ m = i.n
      BY DEF Under
    <2> QED BY <2>1, Zenon DEF Passed, Over
  <1>5. Over(i)' => Flushed(j)'
    BY <1>2, <1>4, Zenon DEF Flushed, Sending
  <1> QED BY <1>1, <1>2, <1>3, <1>5

\* A device is dealt with, or a message is chosen.
LEMMA GoesOn ==
    ASSUME NEW p \in Proc, NEW i, Under(p, i), i.msg.kind \in Kind \cup {"random"},
           i.msg \in Msg(i.msg.kind), i.left \subseteq i.req.flush \cap Takes(i.msg.kind)
    PROVE  /\ JobTyped(p, NextDevice(i)) /\ NextDevice(i).req = i.req
           /\ NextDevice(i).pc \in {"check", "switch", "ended"}
           /\ Passing(i)' => Flushed(NextDevice(i))'
  <1>1. CASE i.left # {}
    <2>1. PICK j : j = [i EXCEPT !.pc = "check"]
      OBVIOUS
    <2>2. j = [pc |-> "check", req |-> i.req, todo |-> i.todo, n |-> i.n, left |-> i.left, msg |-> i.msg,
               cur |-> i.cur, err |-> i.err, snap |-> i.snap]
      BY <2>1 DEF Under, Record
    <2>3. JobTyped(p, j)
      <3>1. Under(p, j)
        BY <2>2 DEF Under, Record
      <3> QED BY <2>2, <3>1, FlushTyped DEF Flushing
    <2>4. Passed(i)' => Passed(j)'
      BY <2>2, Zenon DEF Passed
    <2>5. Passing(i)' => Flushed(j)'
      BY <2>2, <2>4, Zenon DEF Flushed, Passing
    <2> QED BY <1>1, <2>1, <2>2, <2>3, <2>5 DEF NextDevice
  <1>2. CASE i.left = {}
    <2>1. PICK k : k = [i EXCEPT !.msg = None]
      OBVIOUS
    <2>2. k = [pc |-> i.pc, req |-> i.req, todo |-> i.todo, n |-> i.n, left |-> i.left, msg |-> None,
               cur |-> i.cur, err |-> i.err, snap |-> i.snap]
      BY <2>1 DEF Under, Record
    <2>3. Under(p, k)
      BY <2>2 DEF Under, Record
    <2>4. Passed(i)' => Passed(k)'
      BY <2>2, Zenon DEF Passed
    <2>5. Passing(i)' => Over(k)'
      BY <1>2, <2>2, <2>4 DEF Passing, Sends, Over
    <2>6. NextDevice(i) = NextSwitch(k)
      BY <1>2, <2>1 DEF NextDevice
    <2>7. /\ JobTyped(p, NextSwitch(k)) /\ NextSwitch(k).req = k.req /\ NextSwitch(k).pc \in {"switch", "ended"}
          /\ Over(k)' => Flushed(NextSwitch(k))'
      BY <2>3, SwitchOver, Zenon
    <2>8. k.req = i.req
      BY <2>2
    <2> QED BY <2>5, <2>6, <2>7, <2>8
  <1> QED BY <1>1, <1>2, Zenon

\* Status is not touched by the steps of a flush.
LEMMA StaysReported ==
    ASSUME NEW i, NEW j, Reported(i), zone.state # "UNSPECIFIED", i.pc # "idle", j.pc \notin {"idle", "raise", "patch"},
           j.req = i.req, UNCHANGED <<zone, status, missed>>
    PROVE  Reported(j)'
  BY DEF Reported, Agrees

\* What is known of a goroutine in a flush.
LEMMA InFlush ==
    ASSUME IInv, NEW p \in Proc, NEW o, o = job[p], o.pc \in Flushing
    PROVE  /\ JobTyped(p, o) /\ Under(p, o) /\ sc.calls[p] # {}
           /\ Alone(p) => /\ Cached(o) /\ Flushed(o) /\ Reported(o)
                          /\ o.pc \in Sending => zone.state # "UNSPECIFIED"
  <1>1. o.pc # "idle"
    BY DEF Flushing
  <1>2. JobTyped(p, o) /\ sc.calls[p] # {} /\ (o.req.flush # None => o.req.flush \subseteq Devices)
    BY <1>1, Busy
  <1>3. Under(p, o)
    BY <1>2, Zenon DEF JobTyped, Under, Record
  <1>4. Alone(p) => Cached(o) /\ Flushed(o) /\ Reported(o)
    BY DEF IInv, Good
  <1>5. Reported(o) /\ o.pc \in Sending => zone.state # "UNSPECIFIED"
    BY DEF Reported, Sending
  <1> QED BY <1>2, <1>3, <1>4, <1>5, Zenon

LEMMA SwitchKeeps ==
    ASSUME IInv, NEW p \in Proc, Switch(p)
    PROVE  IInv'
  <1>1. PICK o : o = job[p]
    OBVIOUS
  <1>2. o.pc = "switch"
    BY <1>1 DEF Switch
  <1>3. /\ JobTyped(p, o) /\ Under(p, o) /\ sc.calls[p] # {}
        /\ Alone(p) => Cached(o) /\ Flushed(o) /\ Reported(o)
    BY <1>1, <1>2, InFlush DEF Flushing
  <1>4. UNCHANGED <<sc, zone, applied, status, device, trouble, missed>>
    BY DEF Switch
  <1>5. zone' \in ZoneType /\ StatusTyped(status)' /\ DevicesTyped'
    BY <1>4 DEF IInv, Typed, StatusTyped, DevicesTyped
  <1>6. Alone(p) /\ ~o.err => Passed(o)'
    BY <1>2, <1>3, <1>4, Zenon DEF Flushed, Passed, Sends, Settled
  <1>7. CASE o.n = 1 /\ zone.state = "UNSPECIFIED"
    <2>1. PICK j : j = [o EXCEPT !.pc = "raise"]
      OBVIOUS
    <2>2. j = [pc |-> "raise", req |-> o.req, todo |-> o.todo, n |-> 1, left |-> o.left, msg |-> o.msg,
               cur |-> o.cur, err |-> o.err, snap |-> o.snap]
      BY <1>3, <1>7, <2>1 DEF Under, Record
    <2>3. Becomes(p, j)
      BY <1>1, <1>7, <2>1 DEF Switch
    <2>4. JobTyped(p, j)
      <3>1. Under(p, j)
        BY <1>3, <1>7, <2>2 DEF Under, Record
      <3> QED BY <2>2, <3>1, FlushTyped DEF Flushing, Sending
    <2>5. ASSUME Alone(p)
          PROVE  Good(j)'
      <3>1. Cached(j)'
        BY <1>2, <1>3, <1>4, <2>5, StaysCached, Zenon
      <3>2. Flushed(j)'
        <4>1. j.n = 1 /\ j.pc = "raise"
          BY <2>2
        <4>2. Passed(j)'
          BY <4>1 DEF Passed
        <4> QED BY <4>1, <4>2 DEF Flushed, Sending
      <3>3. Reported(j)'
        BY <1>2, <1>3, <1>4, <1>7, <2>2, <2>5, Zenon DEF Reported
      <3> QED BY <3>1, <3>2, <3>3 DEF Good
    <2> QED BY <1>3, <1>4, <1>5, <2>3, <2>4, <2>5, StepOf, Zenon
  <1>8. CASE ~(o.n = 1 /\ zone.state = "UNSPECIFIED") /\ Message(o.n, zone) = None
    <2>1. PICK j : j = NextSwitch(o)
      OBVIOUS
    <2>2. Becomes(p, j)
      BY <1>1, <1>8, <2>1 DEF Switch
    <2>3. JobTyped(p, j) /\ j.req = o.req /\ j.pc \in {"switch", "ended"}
      BY <1>3, <2>1, SwitchOver, Zenon
    <2>4. ASSUME Alone(p)
          PROVE  Good(j)'
      <3>1. Cached(j)'
        BY <1>2, <1>3, <1>4, <2>4, StaysCached, Zenon
      <3>2. Flushed(j)'
        <4>1. \A d \in Devices : ~Sends(o.n, d)'
          BY <1>4, <1>8 DEF Sends
        <4>2. Over(o)'
          BY <1>6, <2>4, <4>1 DEF Over
        <4> QED BY <1>3, <2>1, <4>2, SwitchOver, Zenon
      <3>3. zone.state # "UNSPECIFIED"
        <4>1. Reported(o) /\ o.n \in 1..3
          BY <1>3, <2>4 DEF Under
        <4>2. zone.state = "UNSPECIFIED" => o.n < 2
          BY <4>1 DEF Reported
        <4> QED BY <1>8, <4>1, <4>2
      <3>4. Reported(j)'
        BY <1>2, <1>3, <1>4, <2>3, <2>4, <3>3, StaysReported, Zenon
      <3> QED BY <3>1, <3>2, <3>4 DEF Good
    <2> QED BY <1>3, <1>4, <1>5, <2>2, <2>3, <2>4, StepOf, Zenon
  <1>9. CASE ~(o.n = 1 /\ zone.state = "UNSPECIFIED") /\ Message(o.n, zone) # None
    <2>1. PICK msg : msg = Message(o.n, zone)
      OBVIOUS
    <2>2. msg.kind \in Kind \cup {"random"} /\ msg \in Msg(msg.kind)
      BY <1>3, <1>9, <2>1, Messages DEF IInv, Typed, Under
    <2>3. PICK i : i = [o EXCEPT !.msg = msg, !.left = Takes(msg.kind) \cap o.req.flush]
      OBVIOUS
    <2>4. i = [pc |-> o.pc, req |-> o.req, todo |-> o.todo, n |-> o.n, left |-> Takes(msg.kind) \cap o.req.flush,
               msg |-> msg, cur |-> o.cur, err |-> o.err, snap |-> o.snap]
      BY <1>3, <2>3, Zenon DEF Under, Record
    <2>5. PICK j : j = NextDevice(i)
      OBVIOUS
    <2>6. Becomes(p, j)
      BY <1>1, <1>9, <2>1, <2>3, <2>5 DEF Switch
    <2>7. Under(p, i)
      BY <1>3, <2>4, Zenon DEF Under, Record
    <2>8. JobTyped(p, j) /\ j.req = o.req /\ j.pc \in {"check", "switch", "ended"}
      BY <2>2, <2>4, <2>5, <2>7, GoesOn, Zenon
    <2>9. ASSUME Alone(p)
          PROVE  Good(j)'
      <3>1. Cached(j)'
        BY <1>2, <1>3, <1>4, <2>9, StaysCached
      <3>2. Passing(i)'
        <4>1. i.msg = Message(i.n, zone)'
          BY <1>4, <2>1, <2>4
        <4>2. ~i.err => Passed(i)'
          BY <1>6, <2>4, <2>9, Zenon DEF Passed
        <4> QED BY <2>4, <4>1, <4>2, Zenon DEF Passing
      <3>3. Flushed(j)'
        BY <2>2, <2>4, <2>5, <2>7, <3>2, GoesOn, Zenon
      <3>4. zone.state # "UNSPECIFIED"
        <4>1. Reported(o) /\ o.n \in 1..3
          BY <1>3, <2>9 DEF Under
        <4>2. zone.state = "UNSPECIFIED" => o.n < 2
          BY <4>1 DEF Reported
        <4> QED BY <1>9, <4>1, <4>2
      <3>5. Reported(j)'
        BY <1>2, <1>3, <1>4, <2>8, <2>9, <3>4, StaysReported, Zenon
      <3> QED BY <3>1, <3>3, <3>5 DEF Good
    <2> QED BY <1>3, <1>4, <1>5, <2>6, <2>8, <2>9, StepOf, Zenon
  <1> QED BY <1>7, <1>8, <1>9

LEMMA CheckKeeps ==
    ASSUME IInv, NEW p \in Proc, Check(p)
    PROVE  IInv'
  <1>1. PICK o : o = job[p]
    OBVIOUS
  <1>2. o.pc = "check"
    BY <1>1 DEF Check
  <1>3. /\ JobTyped(p, o) /\ Under(p, o) /\ sc.calls[p] # {}
        /\ Alone(p) => Cached(o) /\ Flushed(o) /\ Reported(o) /\ zone.state # "UNSPECIFIED"
    BY <1>1, <1>2, InFlush DEF Flushing, Sending
  <1>4. UNCHANGED <<sc, zone, applied, status, device, trouble, missed>>
    BY DEF Check
  <1>5. zone' \in ZoneType /\ StatusTyped(status)' /\ DevicesTyped'
    BY <1>4 DEF IInv, Typed, StatusTyped, DevicesTyped
  <1>6. PICK d \in o.left : Becomes(p, IF shouldSuppress(d, [o EXCEPT !.left = @ \ {d}].msg)
                                       THEN NextDevice([o EXCEPT !.left = @ \ {d}])
                                       ELSE [[o EXCEPT !.left = @ \ {d}] EXCEPT !.pc = "send", !.cur = d])
    BY <1>1, Zenon DEF Check
  <1>7. PICK i : i = [o EXCEPT !.left = @ \ {d}]
    OBVIOUS
  <1>8. i = [pc |-> "check", req |-> o.req, todo |-> o.todo, n |-> o.n, left |-> o.left \ {d}, msg |-> o.msg,
             cur |-> o.cur, err |-> o.err, snap |-> o.snap]
    BY <1>2, <1>3, <1>7, Zenon DEF Under, Record
  <1>9. /\ Under(p, i) /\ i.msg.kind \in Kind \cup {"random"} /\ i.msg \in Msg(i.msg.kind)
        /\ i.left \subseteq i.req.flush \cap Takes(i.msg.kind) /\ d \in i.req.flush \cap Takes(i.msg.kind)
        /\ d \in Devices
    BY <1>2, <1>3, <1>8, Zenon DEF Under, Record, JobTyped, Sending
  <1>10. Alone(p) => /\ i.msg = Message(i.n, zone)
                     /\ ~i.err => /\ Passed(i)'
                                  /\ \A e \in Devices : (e \in (i.req.flush \cap Takes(i.msg.kind)) \ i.left) =>
                                       (e = d \/ Settled(e, i.msg)')
    <2>1. ASSUME Alone(p), ~i.err
          PROVE  Passed(i)'
      BY <1>2, <1>3, <1>4, <1>8, <2>1, Zenon DEF Flushed, Passed, Sends, Settled
    <2>2. ASSUME Alone(p), ~i.err, NEW e \in Devices, e \in (i.req.flush \cap Takes(i.msg.kind)) \ i.left, e # d
          PROVE  Settled(e, i.msg)'
      BY <1>2, <1>3, <1>4, <1>8, <2>2, Zenon DEF Flushed, Settled, Sending
    <2>3. Alone(p) => i.msg = Message(i.n, zone)
      BY <1>2, <1>3, <1>8, Zenon DEF Flushed, Sending
    <2> QED BY <2>1, <2>2, <2>3, Zenon
  <1>11. CASE shouldSuppress(d, i.msg)
    <2>1. PICK j : j = NextDevice(i)
      OBVIOUS
    <2>2. Becomes(p, j)
      BY <1>6, <1>7, <1>11, <2>1
    <2>3. JobTyped(p, j) /\ j.req = o.req /\ j.pc \in {"check", "switch", "ended"}
      BY <1>8, <1>9, <2>1, GoesOn, Zenon
    <2>4. ASSUME Alone(p)
          PROVE  Good(j)'
      <3>1. Cached(j)'
        BY <1>2, <1>3, <1>4, <2>4, StaysCached, Zenon
      <3>2. Settled(d, i.msg)'
        <4>1. PICK k \in Kind : k = i.msg.kind
          BY <1>11 DEF shouldSuppress
        <4>2. applied[d][k] # None /\ applied[d][k].age < RefreshAge /\ applied[d][k].v = i.msg.v
          BY <1>11, <4>1 DEF shouldSuppress
        <4>3. applied[d][k].age \in Nat /\ trouble[d][k] \in Nat /\ RefreshAge \in Nat
          BY <1>9, <4>2, ConstantsAssumption DEF IInv, Typed, DevicesTyped, Entry
        <4>4. trouble[d][k] >= RefreshAge => trouble[d][k] > applied[d][k].age
          BY <4>2, <4>3
        <4>5. ~Marking(o, d, k)
          BY <1>2 DEF Marking
        <4>6. trouble[d][k] >= RefreshAge =>
                  device[d][Primary(d, k)] = Shown(d, [kind |-> k, v |-> applied[d][k].v])
          BY <1>3, <1>9, <2>4, <4>2, <4>4, <4>5, Zenon DEF Cached
        <4>7. Shown(d, [kind |-> k, v |-> applied[d][k].v]) = Shown(d, i.msg)
          BY <4>1, <4>2, Zenon DEF Shown
        <4> QED BY <1>4, <4>1, <4>6, <4>7, Zenon DEF Settled
      <3>3. Passing(i)'
        BY <1>4, <1>10, <2>4, <3>2, Zenon DEF Passing
      <3>4. Flushed(j)'
        BY <1>9, <2>1, <3>3, GoesOn, Zenon
      <3>5. Reported(j)'
        BY <1>2, <1>3, <1>4, <2>3, <2>4, StaysReported, Zenon
      <3> QED BY <3>1, <3>4, <3>5 DEF Good
    <2> QED BY <1>3, <1>4, <1>5, <2>2, <2>3, <2>4, StepOf, Zenon
  <1>12. CASE ~shouldSuppress(d, i.msg)
    <2>1. PICK j : j = [i EXCEPT !.pc = "send", !.cur = d]
      OBVIOUS
    <2>2. j = [pc |-> "send", req |-> i.req, todo |-> i.todo, n |-> i.n, left |-> i.left, msg |-> i.msg,
               cur |-> d, err |-> i.err, snap |-> i.snap]
      BY <1>8, <2>1, Zenon
    <2>3. Becomes(p, j)
      BY <1>6, <1>7, <1>12, <2>1
    <2>4. JobTyped(p, j)
      <3>1. Under(p, j)
        BY <1>9, <2>2 DEF Under, Record
      <3> QED BY <1>9, <2>2, <3>1, FlushTyped, Zenon DEF Flushing
    <2>5. ASSUME Alone(p)
          PROVE  Good(j)'
      <3>1. Cached(j)'
        BY <1>2, <1>3, <1>4, <2>5, StaysCached, Zenon
      <3>2. Passed(i)' => Passed(j)'
        BY <2>2, Zenon DEF Passed
      <3>3. Flushed(j)'
        BY <1>4, <1>10, <2>2, <2>5, <3>2, Zenon DEF Flushed, Sending
      <3>4. Reported(j)'
        BY <1>2, <1>3, <1>4, <1>8, <2>2, <2>5, StaysReported, Zenon
      <3> QED BY <3>1, <3>3, <3>4 DEF Good
    <2> QED BY <1>3, <1>4, <1>5, <2>3, <2>4, <2>5, StepOf, Zenon
  <1> QED BY <1>11, <1>12

\* Devices change while trouble is noted.
LEMMA KeepsPassed ==
    ASSUME DevicesTyped, zone \in ZoneType, zone' = zone, NEW j, Passed(j),
           \A m \in 1..3, d \in Devices : (m < j.n /\ Message(m, zone) # None /\ Message(m, zone).kind \in Kind) =>
               Undisturbed(d, Message(m, zone).kind)
    PROVE  Passed(j)'
  <1> SUFFICES ASSUME NEW m \in 1..3, NEW d \in Devices, m < j.n, d \in j.req.flush, Sends(m, d)'
               PROVE  Settled(d, Message(m, zone))'
    BY Zenon DEF Passed
  <1>1. PICK msg : msg = Message(m, zone)
    OBVIOUS
  <1>2. Sends(m, d) /\ msg # None
    BY <1>1 DEF Sends
  <1>3. Settled(d, msg)
    BY <1>1, <1>2 DEF Passed
  <1>4. Settled(d, msg)'
    BY <1>1, <1>2, <1>3, StaysSettled, Zenon
  <1> QED BY <1>1, <1>4, Zenon

LEMMA KeepsCached ==
    ASSUME DevicesTyped, applied' = applied, NEW i, NEW j, Cached(i),
           \A d \in Devices, k \in Kind : Marking(j, d, k) \/ (Undisturbed(d, k) /\ ~Marking(i, d, k))
    PROVE  Cached(j)'
  <1> SUFFICES ASSUME NEW d \in Devices, NEW k \in Kind, applied[d][k] # None, trouble'[d][k] > applied[d][k].age,
                      ~Marking(j, d, k)
               PROVE  device'[d][Primary(d, k)] = Shown(d, [kind |-> k, v |-> applied[d][k].v])
    BY DEF Cached, Marking, Shown, Primary
  <1>1. applied[d][k].age \in Nat
    BY DEF DevicesTyped, Entry
  <1>2. Undisturbed(d, k) /\ ~Marking(i, d, k)
    OBVIOUS
  <1>3. trouble'[d][k] = trouble[d][k] /\ device'[d][Primary(d, k)] = device[d][Primary(d, k)]
    <2>1. trouble'[d][k] # 0
      BY <1>1
    <2> QED BY <1>2, <2>1, Zenon DEF Undisturbed
  <1> QED BY <1>2, <1>3, Zenon DEF Cached

\* The message of a switch that is over is of another kind.
LEMMA OtherKind ==
    ASSUME zone \in ZoneType, NEW m \in 1..3, NEW n \in 1..3, m < n, Message(m, zone) # None, Message(n, zone) # None
    PROVE  Message(m, zone).kind # Message(n, zone).kind
  BY Messages

LEMMA SendKeeps ==
    ASSUME IInv, NEW p \in Proc, Send(p)
    PROVE  IInv'
  <1>1. PICK o : o = job[p]
    OBVIOUS
  <1>2. o.pc = "send"
    BY <1>1 DEF Send
  <1>3. /\ JobTyped(p, o) /\ Under(p, o) /\ sc.calls[p] # {}
        /\ Alone(p) => Cached(o) /\ Flushed(o) /\ Reported(o) /\ zone.state # "UNSPECIFIED"
    BY <1>1, <1>2, InFlush, Zenon DEF Flushing, Sending
  <1>4. UNCHANGED <<sc, zone, applied, status, missed>>
    BY DEF Send
  <1>5. /\ o.msg.kind \in Kind \cup {"random"} /\ o.msg \in Msg(o.msg.kind)
        /\ o.cur \in o.req.flush \cap Takes(o.msg.kind) /\ o.cur \in Devices
    BY <1>2, <1>3 DEF JobTyped, Sending, Under
  <1>6. PICK new : new = Deliver(o.cur, o.msg)
    OBVIOUS
  <1>7. PICK K : K = Doubtful(o.cur, new) \ {o.msg.kind}
    OBVIOUS
  <1>8. device' = [device EXCEPT ![o.cur] = new] /\ Doubt(o.cur, K)
    BY <1>1, <1>6, <1>7 DEF Send
  <1>9. Shape(new) /\ new[Primary(o.cur, o.msg.kind)] = Shown(o.cur, o.msg)
    BY <1>5, <1>6, Delivered DEF IInv, Typed
  <1>10. /\ DevicesTyped' /\ device'[o.cur] = new
         /\ \A d \in Devices, k \in Kind : (d # o.cur \/ k # o.msg.kind) => Undisturbed(d, k)
    <2>1. DevicesTyped
      BY DEF IInv, Typed
    <2>2. /\ device' = [d \in Devices |-> [power |-> device'[d].power, level |-> device'[d].level,
                                           hue |-> device'[d].hue]]
          /\ trouble' \in [Devices -> [Kind -> Nat]]
          /\ device'[o.cur] = new
          /\ \A d \in Devices, k \in Kind :
                (d # o.cur \/ k \in K \/ k \notin Doubtful(o.cur, new)) => Undisturbed(d, k)
      BY <1>5, <1>8, <1>9, <2>1, Changes, Zenon
    <2>3. DevicesTyped'
      BY <1>4, <2>1, <2>2 DEF DevicesTyped
    <2> QED BY <1>7, <2>2, <2>3
  <1>11. PICK j : j = [o EXCEPT !.pc = "mark"]
    OBVIOUS
  <1>12. j = [pc |-> "mark", req |-> o.req, todo |-> o.todo, n |-> o.n, left |-> o.left, msg |-> o.msg,
              cur |-> o.cur, err |-> o.err, snap |-> o.snap]
    BY <1>3, <1>11 DEF Under, Record
  <1>13. Becomes(p, j)
    BY <1>1, <1>11 DEF Send
  <1>14. JobTyped(p, j)
    BY <1>2, <1>3, <1>12, Zenon DEF JobTyped, Flushing, Sending
  <1>15. ASSUME Alone(p)
         PROVE  Good(j)'
    <2>1. Cached(j)'
      <3>1. \A d \in Devices, k \in Kind : Marking(j, d, k) \/ (Undisturbed(d, k) /\ ~Marking(o, d, k))
        BY <1>2, <1>10, <1>12, Zenon DEF Marking
      <3> QED BY <1>3, <1>4, <1>15, <3>1, KeepsCached DEF IInv, Typed
    <2>2. o.msg = Message(o.n, zone) /\ o.msg # None
      BY <1>2, <1>3, <1>5, <1>15, NoneAssumption, Zenon DEF Flushed, Sending
    <2>3. ~j.err => Passed(j)'
      <3>1. ~j.err => Passed(j)
        BY <1>2, <1>3, <1>12, <1>15, Zenon DEF Flushed, Passed
      <3>2. \A m \in 1..3, d \in Devices :
                (m < j.n /\ Message(m, zone) # None /\ Message(m, zone).kind \in Kind) =>
                    Undisturbed(d, Message(m, zone).kind)
        <4>1. j.n \in 1..3 /\ j.n = o.n /\ zone \in ZoneType
          BY <1>3, <1>12 DEF IInv, Typed, Under
        <4>2. ASSUME NEW m \in 1..3, m < j.n, Message(m, zone) # None
              PROVE  Message(m, zone).kind # o.msg.kind
          BY <2>2, <4>1, <4>2, OtherKind
        <4> QED BY <1>10, <4>2
      <3> QED BY <1>4, <3>1, <3>2, KeepsPassed DEF IInv, Typed
    <2>4. ASSUME ~j.err, NEW d \in Devices, d \in (j.req.flush \cap Takes(j.msg.kind)) \ j.left, d # j.cur
          PROVE  Settled(d, j.msg)'
      <3>1. Settled(d, j.msg)
        BY <1>2, <1>3, <1>12, <1>15, <2>4, Zenon DEF Flushed, Sending
      <3>2. j.msg.kind \in Kind => Undisturbed(d, j.msg.kind)
        BY <1>10, <1>12, <2>4, Zenon
      <3> QED BY <3>1, <3>2, StaysSettled DEF IInv, Typed
    <2>5. device'[j.cur][Primary(j.cur, j.msg.kind)] = Shown(j.cur, j.msg)
      BY <1>9, <1>10, <1>12, Zenon
    <2>6. (device[j.cur][Primary(j.cur, j.msg.kind)] = Shown(j.cur, j.msg))'
      BY <2>5 DEF Primary, Shown
    <2>7. Flushed(j)'
      BY <1>4, <1>12, <2>2, <2>3, <2>4, <2>6, Zenon DEF Flushed
    <2>8. Reported(j)'
      BY <1>2, <1>3, <1>4, <1>12, <1>15, StaysReported, Zenon
    <2> QED BY <2>1, <2>7, <2>8 DEF Good
  <1>16. zone' \in ZoneType /\ StatusTyped(status)'
    BY <1>4 DEF IInv, Typed, StatusTyped
  <1> QED BY <1>3, <1>4, <1>10, <1>13, <1>14, <1>15, <1>16, StepOf, Zenon

LEMMA SendLostKeeps ==
    ASSUME IInv, NEW p \in Proc, SendLost(p)
    PROVE  IInv'
  <1>1. PICK o : o = job[p]
    OBVIOUS
  <1>2. o.pc = "send"
    BY <1>1 DEF SendLost
  <1>3. /\ JobTyped(p, o) /\ Under(p, o) /\ sc.calls[p] # {}
        /\ Alone(p) => Cached(o) /\ Flushed(o) /\ Reported(o) /\ zone.state # "UNSPECIFIED"
    BY <1>1, <1>2, InFlush DEF Flushing, Sending
  <1>4. UNCHANGED <<sc, zone, applied, status, device, missed>>
    BY DEF SendLost
  <1>5. /\ o.msg.kind \in Kind \cup {"random"} /\ o.msg \in Msg(o.msg.kind)
        /\ o.cur \in o.req.flush \cap Takes(o.msg.kind) /\ o.cur \in Devices
    BY <1>2, <1>3 DEF JobTyped, Sending, Under
  <1>6. PICK new : new = device[o.cur]
    OBVIOUS
  <1>7. DevicesTyped /\ Shape(new) /\ device' = [device EXCEPT ![o.cur] = new]
    BY <1>4, <1>5, <1>6, Zenon DEF IInv, Typed, DevicesTyped, Shape
  <1>8. Doubt(o.cur, {o.msg.kind})
    BY <1>1 DEF SendLost
  <1>9. /\ trouble' \in [Devices -> [Kind -> Nat]]
        /\ \A k \in {o.msg.kind} \cap Kind : trouble'[o.cur][k] = 0
        /\ \A d \in Devices, k \in Kind : Undisturbed(d, k)
    <2>1. Doubtful(o.cur, new) = {}
      BY <1>6, Zenon DEF Doubtful
    <2>2. PICK K : K = {o.msg.kind}
      OBVIOUS
    <2>3. Doubt(o.cur, K)
      BY <1>8, <2>2
    <2>4. /\ trouble' \in [Devices -> [Kind -> Nat]]
          /\ \A k \in K \cap Kind : trouble'[o.cur][k] = 0
          /\ \A d \in Devices, k \in Kind :
                (d # o.cur \/ k \in K \/ k \notin Doubtful(o.cur, new)) => Undisturbed(d, k)
      BY <1>5, <1>7, <2>3, Changes, Zenon
    <2> QED BY <2>1, <2>2, <2>4
  <1>10. DevicesTyped'
    BY <1>4, <1>7, <1>9, Zenon DEF DevicesTyped
  <1>11. PICK j : j = [o EXCEPT !.pc = "mark"]
    OBVIOUS
  <1>12. j = [pc |-> "mark", req |-> o.req, todo |-> o.todo, n |-> o.n, left |-> o.left, msg |-> o.msg,
              cur |-> o.cur, err |-> o.err, snap |-> o.snap]
    BY <1>3, <1>11 DEF Under, Record
  <1>13. Becomes(p, j)
    BY <1>1, <1>11 DEF SendLost
  <1>14. JobTyped(p, j)
    BY <1>2, <1>3, <1>12, Zenon DEF JobTyped, Flushing, Sending
  <1>15. ASSUME Alone(p)
         PROVE  Good(j)'
    <2>1. Cached(j)'
      <3>1. \A d \in Devices, k \in Kind : Marking(j, d, k) \/ (Undisturbed(d, k) /\ ~Marking(o, d, k))
        BY <1>2, <1>9, Zenon DEF Marking
      <3> QED BY <1>3, <1>4, <1>7, <1>15, <3>1, KeepsCached, Zenon
    <2>2. o.msg = Message(o.n, zone)
      BY <1>2, <1>3, <1>15, Zenon DEF Flushed, Sending
    <2>3. ~j.err => Passed(j)'
      <3>1. ~j.err => Passed(j)
        BY <1>2, <1>3, <1>12, <1>15, Zenon DEF Flushed, Passed
      <3> QED BY <1>4, <1>7, <1>9, <3>1, KeepsPassed DEF IInv, Typed
    <2>4. ASSUME ~j.err, NEW d \in Devices, d \in (j.req.flush \cap Takes(j.msg.kind)) \ j.left, d # j.cur
          PROVE  Settled(d, j.msg)'
      <3>1. Settled(d, j.msg)
        BY <1>2, <1>3, <1>12, <1>15, <2>4, Zenon DEF Flushed, Sending
      <3> QED BY <1>7, <1>9, <3>1, StaysSettled, Zenon
    <2>5. ~(j.msg.kind \in Kind /\ trouble'[j.cur][j.msg.kind] > 0)
      BY <1>9, <1>12
    <2>6. Flushed(j)'
      BY <1>4, <1>12, <2>2, <2>3, <2>4, <2>5, Zenon DEF Flushed
    <2>7. Reported(j)'
      BY <1>2, <1>3, <1>4, <1>12, <1>15, StaysReported, Zenon
    <2> QED BY <2>1, <2>6, <2>7 DEF Good
  <1>16. zone' \in ZoneType /\ StatusTyped(status)'
    BY <1>4 DEF IInv, Typed, StatusTyped
  <1> QED BY <1>3, <1>4, <1>10, <1>13, <1>14, <1>15, <1>16, StepOf, Zenon

LEMMA SendFailsKeeps ==
    ASSUME IInv, NEW p \in Proc, SendFails(p)
    PROVE  IInv'
  <1>1. PICK o : o = job[p]
    OBVIOUS
  <1>2. o.pc = "send"
    BY <1>1 DEF SendFails
  <1>3. /\ JobTyped(p, o) /\ Under(p, o) /\ sc.calls[p] # {}
        /\ Alone(p) => Cached(o) /\ Flushed(o) /\ Reported(o) /\ zone.state # "UNSPECIFIED"
    BY <1>1, <1>2, InFlush DEF Flushing, Sending
  <1>4. UNCHANGED <<sc, zone, applied, status, missed>>
    BY DEF SendFails
  <1>5. /\ o.msg.kind \in Kind \cup {"random"} /\ o.msg \in Msg(o.msg.kind)
        /\ o.left \subseteq o.req.flush \cap Takes(o.msg.kind) /\ o.cur \in Devices
    BY <1>2, <1>3, Zenon DEF JobTyped, Sending, Under
  <1>6. PICK new \in {device[o.cur], Deliver(o.cur, o.msg)} :
            device' = [device EXCEPT ![o.cur] = new] /\ Doubt(o.cur, Doubtful(o.cur, new))
    BY <1>1, Zenon DEF SendFails
  <1>7. DevicesTyped /\ Shape(new)
    <2>1. DevicesTyped
      BY DEF IInv, Typed
    <2>2. Shape(device[o.cur])
      BY <1>5, <2>1 DEF DevicesTyped, Shape
    <2>3. Shape(Deliver(o.cur, o.msg))
      BY <1>5, <2>1, Delivered
    <2> QED BY <1>6, <2>1, <2>2, <2>3
  <1>8. DevicesTyped' /\ \A d \in Devices, k \in Kind : Undisturbed(d, k)
    <2>1. PICK K : K = Doubtful(o.cur, new)
      OBVIOUS
    <2>2. Doubt(o.cur, K) /\ device' = [device EXCEPT ![o.cur] = new]
      BY <1>6, <2>1
    <2>3. /\ device' = [d \in Devices |-> [power |-> device'[d].power, level |-> device'[d].level,
                                           hue |-> device'[d].hue]]
          /\ trouble' \in [Devices -> [Kind -> Nat]]
          /\ \A d \in Devices, k \in Kind :
                (d # o.cur \/ k \in K \/ k \notin Doubtful(o.cur, new)) => Undisturbed(d, k)
      BY <1>5, <1>7, <2>2, Changes, Zenon
    <2>4. DevicesTyped'
      BY <1>4, <1>7, <2>3, Zenon DEF DevicesTyped
    <2> QED BY <2>1, <2>3, <2>4
  <1>9. PICK i : i = [o EXCEPT !.err = TRUE, !.cur = None]
    OBVIOUS
  <1>10. i = [pc |-> o.pc, req |-> o.req, todo |-> o.todo, n |-> o.n, left |-> o.left, msg |-> o.msg,
              cur |-> None, err |-> TRUE, snap |-> o.snap]
    BY <1>3, <1>9, Zenon DEF Under, Record
  <1>11. PICK j : j = NextDevice(i)
    OBVIOUS
  <1>12. Becomes(p, j)
    BY <1>1, <1>9, <1>11 DEF SendFails
  <1>13. Under(p, i)
    BY <1>3, <1>10 DEF Under, Record
  <1>14. JobTyped(p, j) /\ j.req = o.req /\ j.pc \in {"check", "switch", "ended"} /\ (Passing(i)' => Flushed(j)')
    BY <1>5, <1>10, <1>11, <1>13, GoesOn, Zenon
  <1>15. ASSUME Alone(p)
         PROVE  Good(j)'
    <2>1. Cached(j)'
      <3>1. \A d \in Devices, k \in Kind : Marking(j, d, k) \/ (Undisturbed(d, k) /\ ~Marking(o, d, k))
        BY <1>2, <1>8 DEF Marking
      <3> QED BY <1>3, <1>4, <1>7, <1>15, <3>1, KeepsCached, Zenon
    <2>2. Passing(i)'
      BY <1>2, <1>3, <1>4, <1>10, <1>15, Zenon DEF Passing, Flushed, Sending
    <2>3. Reported(j)'
      BY <1>2, <1>3, <1>4, <1>14, <1>15, StaysReported, Zenon
    <2> QED BY <1>14, <2>1, <2>2, <2>3, Zenon DEF Good
  <1>16. zone' \in ZoneType /\ StatusTyped(status)'
    BY <1>4 DEF IInv, Typed, StatusTyped
  <1> QED BY <1>3, <1>4, <1>8, <1>12, <1>14, <1>15, <1>16, StepOf, Zenon

LEMMA MarkKeeps ==
    ASSUME IInv, NEW p \in Proc, Mark(p)
    PROVE  IInv'
  <1>1. PICK o : o = job[p]
    OBVIOUS
  <1>2. o.pc = "mark"
    BY <1>1 DEF Mark
  <1>3. /\ JobTyped(p, o) /\ Under(p, o) /\ sc.calls[p] # {}
        /\ Alone(p) => Cached(o) /\ Flushed(o) /\ Reported(o) /\ zone.state # "UNSPECIFIED"
    BY <1>1, <1>2, InFlush, Zenon DEF Flushing, Sending
  <1>4. UNCHANGED <<sc, zone, status, device, trouble, missed>> /\ applied' = markApplied(o.cur, o.msg)
    BY <1>1 DEF Mark
  <1>5. /\ o.msg.kind \in Kind \cup {"random"} /\ o.msg \in Msg(o.msg.kind)
        /\ o.left \subseteq o.req.flush \cap Takes(o.msg.kind) /\ o.cur \in Devices
    BY <1>2, <1>3, Zenon DEF JobTyped, Sending, Under
  <1>6. DevicesTyped
    BY DEF IInv, Typed
  <1>7. PICK ent : ent = [v |-> o.msg.v, age |-> 0]
    OBVIOUS
  <1>8. /\ applied' = [d \in Devices |-> [k \in Kind |-> applied'[d][k]]]
        /\ \A d \in Devices, k \in Kind :
              applied'[d][k] = IF d = o.cur /\ k = o.msg.kind THEN ent ELSE applied[d][k]
    <2>1. CASE o.msg.kind \in Kind
      <3>1. applied' = [applied EXCEPT ![o.cur][o.msg.kind] = ent]
        BY <1>4, <1>7, <2>1 DEF markApplied
      <3>2. /\ applied = [d \in Devices |-> [k \in Kind |-> applied[d][k]]]
            /\ applied[o.cur] = [k \in Kind |-> applied[o.cur][k]]
        BY <1>5, <1>6 DEF DevicesTyped
      <3>3. /\ DOMAIN applied' = Devices /\ applied'[o.cur] = [applied[o.cur] EXCEPT ![o.msg.kind] = ent]
            /\ \A d \in Devices : d # o.cur => applied'[d] = applied[d]
        BY <1>5, <3>1, <3>2
      <3>4. applied'[o.cur] = [k \in Kind |-> IF k = o.msg.kind THEN ent ELSE applied[o.cur][k]]
        BY <2>1, <3>2, <3>3, Zenon
      <3>5. applied' = [d \in Devices |-> applied'[d]]
        BY <3>1, <3>2, Zenon
      <3>6. ASSUME NEW d \in Devices
            PROVE  applied'[d] = [k \in Kind |-> applied'[d][k]]
        BY <3>2, <3>3, <3>4
      <3>7. ASSUME NEW d \in Devices, NEW k \in Kind
            PROVE  applied'[d][k] = IF d = o.cur /\ k = o.msg.kind THEN ent ELSE applied[d][k]
        BY <3>3, <3>4
      <3> QED BY <3>5, <3>6, <3>7
    <2>2. CASE o.msg.kind \notin Kind
      BY <1>4, <1>6, <2>2 DEF markApplied, DevicesTyped
    <2> QED BY <2>1, <2>2
  <1>9. o.msg.kind \in Kind => ent \in Entry(o.msg.kind)
    BY <1>5, <1>7 DEF Msg, Entry
  <1>10. DevicesTyped'
    <2>1. \A d \in Devices, k \in Kind : applied'[d][k] = None \/ applied'[d][k] \in Entry(k)
      BY <1>6, <1>8, <1>9 DEF DevicesTyped
    <2>2. /\ device = [d \in Devices |-> [power |-> device[d].power, level |-> device[d].level, hue |-> device[d].hue]]
          /\ trouble \in [Devices -> [Kind -> Nat]]
      BY <1>6 DEF DevicesTyped
    <2> QED BY <1>4, <1>8, <2>1, <2>2 DEF DevicesTyped
  <1>11. PICK i : i = [o EXCEPT !.cur = None]
    OBVIOUS
  <1>12. i = [pc |-> o.pc, req |-> o.req, todo |-> o.todo, n |-> o.n, left |-> o.left, msg |-> o.msg,
              cur |-> None, err |-> o.err, snap |-> o.snap]
    BY <1>3, <1>11 DEF Under, Record
  <1>13. PICK j : j = NextDevice(i)
    OBVIOUS
  <1>14. Becomes(p, j)
    BY <1>1, <1>11, <1>13 DEF Mark
  <1>15. Under(p, i)
    BY <1>3, <1>12, Zenon DEF Under, Record
  <1>16. JobTyped(p, j) /\ j.req = o.req /\ j.pc \in {"check", "switch", "ended"} /\ (Passing(i)' => Flushed(j)')
    BY <1>5, <1>12, <1>13, <1>15, GoesOn, Zenon
  <1>17. ASSUME Alone(p)
         PROVE  Good(j)'
    <2>1. (o.msg.kind \in Kind /\ trouble[o.cur][o.msg.kind] > 0) =>
              device[o.cur][Primary(o.cur, o.msg.kind)] = Shown(o.cur, o.msg)
      BY <1>2, <1>3, <1>17, Zenon DEF Flushed
    <2>2. Cached(j)'
      <3> SUFFICES ASSUME NEW d \in Devices, NEW k \in Kind, applied'[d][k] # None,
                          trouble[d][k] > applied'[d][k].age
                   PROVE  device[d][Primary(d, k)] = Shown(d, [kind |-> k, v |-> applied'[d][k].v])
        BY <1>4 DEF Cached, Shown, Primary
      <3>1. CASE d = o.cur /\ k = o.msg.kind
        <4>1. applied'[d][k].age = 0 /\ applied'[d][k].v = o.msg.v
          <5>1. applied'[d][k] = ent
            BY <1>8, <3>1
          <5>2. ent.v = o.msg.v /\ ent.age = 0
            BY <1>7
          <5> QED BY <5>1, <5>2, Zenon
        <4>2. device[d][Primary(d, k)] = Shown(d, o.msg)
          BY <2>1, <3>1, <4>1, Zenon
        <4>3. Shown(d, o.msg) = Shown(d, [kind |-> k, v |-> o.msg.v])
          BY <3>1, Zenon DEF Shown
        <4> QED BY <4>1, <4>2, <4>3, Zenon
      <3>2. CASE ~(d = o.cur /\ k = o.msg.kind)
        <4>1. applied'[d][k] = applied[d][k] /\ ~Marking(o, d, k)
          BY <1>8, <3>2 DEF Marking
        <4> QED BY <1>3, <1>17, <4>1, Zenon DEF Cached
      <3> QED BY <3>1, <3>2
    <2>3. Passing(i)'
      <3>1. i.msg = Message(i.n, zone)'
        BY <1>2, <1>3, <1>4, <1>12, <1>17, Zenon DEF Flushed, Sending
      <3>2. ~i.err => Passed(i)'
        BY <1>2, <1>3, <1>4, <1>12, <1>17, Zenon DEF Flushed, Passed, Sends, Settled
      <3>3. Settled(o.cur, o.msg)
        <4>1. o.msg.kind \in Kind /\ trouble[o.cur][o.msg.kind] >= RefreshAge =>
                  trouble[o.cur][o.msg.kind] > 0
          BY <1>5, <1>6, ConstantsAssumption DEF DevicesTyped
        <4> QED BY <2>1, <4>1, Zenon DEF Settled
      <3>4. ~i.err => \A d \in Devices :
                (d \in (i.req.flush \cap Takes(i.msg.kind)) \ i.left) => Settled(d, i.msg)
        BY <1>2, <1>3, <1>12, <1>17, <3>3, Zenon DEF Flushed, Sending
      <3>5. ~i.err => \A d \in Devices :
                (d \in (i.req.flush \cap Takes(i.msg.kind)) \ i.left) => Settled(d, i.msg)'
        BY <1>4, <3>4, Zenon DEF Settled
      <3> QED BY <3>1, <3>2, <3>5 DEF Passing
    <2>4. Reported(j)'
      BY <1>2, <1>3, <1>4, <1>16, <1>17, StaysReported, Zenon
    <2> QED BY <1>16, <2>2, <2>3, <2>4 DEF Good
  <1>18. zone' \in ZoneType /\ StatusTyped(status)'
    BY <1>4 DEF IInv, Typed, StatusTyped
  <1> QED BY <1>3, <1>4, <1>10, <1>14, <1>16, <1>17, <1>18, StepOf, Zenon

-----------------------------------------------------------------------------
(* The world.                                                              *)

\* The goroutines stay where they are.
LEMMA StepElsewhere ==
    ASSUME IInv, UNCHANGED <<sc, job, zone, status>>, DevicesTyped',
           \A p \in Proc : Alone(p) => Good(job[p])'
    PROVE  IInv'
  <1>1. ASSUME NEW p \in Proc
        PROVE  (job[p] = Idle \/ JobTyped(p, job[p]))'
    <2>1. \A j : JobTyped(p, j) => JobTyped(p, j)'
      BY Zenon DEF JobTyped, StatusTyped
    <2> QED BY <2>1 DEF IInv, Typed
  <1>2. Typed'
    BY <1>1 DEF IInv, Typed, StatusTyped
  <1>3. ASSUME NEW p \in Proc, Alone(p)'
        PROVE  Alone(p)
    BY <1>3 DEF Alone
  <1> QED BY <1>2, <1>3 DEF IInv

LEMMA DriftKeeps ==
    ASSUME IInv, NEW e \in Devices, Drift(e)
    PROVE  IInv'
  <1>1. PICK new \in [power : Powers, level : Levels, hue : Hues] :
            device' = [device EXCEPT ![e] = new] /\ Doubt(e, Doubtful(e, new))
    BY Zenon DEF Drift
  <1>2. UNCHANGED <<sc, zone, applied, job, status, missed>>
    BY DEF Drift
  <1>3. DevicesTyped /\ Shape(new)
    BY DEF IInv, Typed, Shape
  <1>4. DevicesTyped' /\ \A d \in Devices, k \in Kind : Undisturbed(d, k)
    <2>1. PICK K : K = Doubtful(e, new)
      OBVIOUS
    <2>2. Doubt(e, K) /\ device' = [device EXCEPT ![e] = new]
      BY <1>1, <2>1
    <2>3. /\ device' = [d \in Devices |-> [power |-> device'[d].power, level |-> device'[d].level,
                                           hue |-> device'[d].hue]]
          /\ trouble' \in [Devices -> [Kind -> Nat]]
          /\ \A d \in Devices, k \in Kind :
                (d # e \/ k \in K \/ k \notin Doubtful(e, new)) => Undisturbed(d, k)
      BY <1>3, <2>2, Changes, Zenon
    <2>4. DevicesTyped'
      BY <1>2, <1>3, <2>3 DEF DevicesTyped
    <2> QED BY <2>1, <2>3, <2>4
  <1>5. ASSUME NEW p \in Proc, Alone(p)
        PROVE  Good(job[p])'
    <2>1. PICK j : j = job[p]
      OBVIOUS
    <2>2. (j = Idle \/ JobTyped(p, j)) /\ Cached(j) /\ Flushed(j) /\ Reported(j)
      BY <1>5, <2>1 DEF IInv, Typed, Good
    <2>3. Cached(j)'
      <3>1. \A d \in Devices, k \in Kind : Marking(j, d, k) \/ (Undisturbed(d, k) /\ ~Marking(j, d, k))
        BY <1>4
      <3> QED BY <1>2, <1>3, <2>2, <3>1, KeepsCached
    <2>4. Flushed(j)'
      <3>1. j.pc # "idle" /\ ~j.err => Passed(j)'
        <4>1. j.pc # "idle" /\ ~j.err => Passed(j)
          BY <2>2, Zenon DEF Flushed
        <4> QED BY <1>2, <1>3, <1>4, <4>1, KeepsPassed DEF IInv, Typed
      <3>2. ASSUME j.pc \in Sending, ~j.err, NEW d \in Devices, ~(j.pc # "check" /\ d = j.cur),
                   d \in (j.req.flush \cap Takes(j.msg.kind)) \ j.left
            PROVE  Settled(d, j.msg)'
        <4>1. Settled(d, j.msg)
          BY <2>2, <3>2, Zenon DEF Flushed
        <4> QED BY <1>3, <1>4, <4>1, StaysSettled
      <3>3. ASSUME j.pc = "mark", j.msg.kind \in Kind, trouble'[j.cur][j.msg.kind] > 0
            PROVE  device'[j.cur][Primary(j.cur, j.msg.kind)] = Shown(j.cur, j.msg)
        <4>1. j.cur \in Devices
          <5>1. JobTyped(p, j) /\ job[p].pc # "idle"
            <6>1. j # Idle
              BY <3>3 DEF Idle
            <6> QED BY <2>1, <2>2, <3>3, <6>1
          <5>2. j.req.flush # None => j.req.flush \subseteq Devices
            BY <2>1, <5>1, Busy, Zenon
          <5> QED BY <3>3, <5>1, <5>2, Zenon DEF JobTyped, Flushing
        <4>2. Undisturbed(j.cur, j.msg.kind)
          BY <1>4, <3>3, <4>1
        <4>3. /\ trouble'[j.cur][j.msg.kind] = trouble[j.cur][j.msg.kind]
              /\ device'[j.cur][Primary(j.cur, j.msg.kind)] = device[j.cur][Primary(j.cur, j.msg.kind)]
          <5>1. trouble'[j.cur][j.msg.kind] # 0
            BY <3>3
          <5> QED BY <4>2, <5>1, Zenon DEF Undisturbed
        <4> QED BY <2>2, <3>3, <4>3, Zenon DEF Flushed
      <3>4. (j.pc = "mark" /\ j.msg.kind \in Kind /\ trouble[j.cur][j.msg.kind] > 0 =>
                device[j.cur][Primary(j.cur, j.msg.kind)] = Shown(j.cur, j.msg))'
        BY <3>3 DEF Primary, Shown
      <3>5. j.pc \in Sending => j.msg = Message(j.n, zone)'
        BY <1>2, <2>2, Zenon DEF Flushed
      <3> QED BY <3>1, <3>2, <3>4, <3>5, Zenon DEF Flushed
    <2>5. Reported(j)'
      BY <1>2, <2>2, Zenon DEF Reported, Agrees
    <2> QED BY <1>2, <2>1, <2>3, <2>4, <2>5 DEF Good
  <1> QED BY <1>2, <1>4, <1>5, StepElsewhere

LEMMA RestartKeepsInv ==
    ASSUME IInv, Restart
    PROVE  IInv'
  <1>1. /\ zone' = Load(status) /\ applied' = [d \in Devices |-> [k \in Kind |-> None]]
        /\ job' = [p \in Proc |-> Idle] /\ missed' = FALSE /\ UNCHANGED <<sc, status, device, trouble>>
    BY DEF Restart
  <1>2. zone' \in ZoneType /\ zone'.state # "UNSPECIFIED"
    BY <1>1, LoadKeeps DEF IInv, Typed
  <1>3. DevicesTyped'
    BY <1>1 DEF IInv, Typed, DevicesTyped
  <1>4. Typed'
    BY <1>1, <1>2, <1>3 DEF IInv, Typed, StatusTyped
  <1>5. Good(Idle)'
    <2>1. Cached(Idle)'
      BY <1>1, Zenon DEF Cached
    <2>2. Flushed(Idle)'
      BY DEF Flushed, Idle, Sending
    <2>3. Reported(Idle)'
      BY <1>1, <1>2, Zenon DEF Reported, Agrees, Idle
    <2> QED BY <2>1, <2>2, <2>3 DEF Good
  <1> QED BY <1>1, <1>4, <1>5 DEF IInv

LEMMA TickKeeps ==
    ASSUME IInv, Tick
    PROVE  IInv'
  <1>1. /\ applied' = [d \in Devices |-> [k \in Kind |->
              IF applied[d][k] = None THEN None ELSE [applied[d][k] EXCEPT !.age = Older(@)]]]
        /\ trouble' = [d \in Devices |-> [k \in Kind |-> Older(trouble[d][k])]]
        /\ UNCHANGED <<sc, zone, job, status, device, missed>> /\ Quiet
    BY DEF Tick
  <1>2. DevicesTyped
    BY DEF IInv, Typed
  <1>3. ASSUME NEW t \in Nat, NEW a \in Nat
        PROVE  Older(t) \in Nat /\ (Older(t) > Older(a) => t > a)
    BY ConstantsAssumption DEF Older
  <1>4. ASSUME NEW d \in Devices, NEW k \in Kind
        PROVE  /\ trouble'[d][k] = Older(trouble[d][k]) /\ trouble[d][k] \in Nat
               /\ applied[d][k] = None => applied'[d][k] = None
               /\ applied[d][k] # None =>
                    /\ applied'[d][k] \in Entry(k) /\ applied[d][k] \in Entry(k)
                    /\ applied'[d][k].v = applied[d][k].v /\ applied'[d][k].age = Older(applied[d][k].age)
    <2>1. trouble'[d][k] = Older(trouble[d][k]) /\ trouble[d][k] \in Nat
      BY <1>1, <1>2 DEF DevicesTyped
    <2>2. applied'[d][k] = IF applied[d][k] = None THEN None
                           ELSE [applied[d][k] EXCEPT !.age = Older(applied[d][k].age)]
      BY <1>1
    <2>3. ASSUME applied[d][k] # None
          PROVE  /\ applied'[d][k] \in Entry(k) /\ applied[d][k] \in Entry(k)
                 /\ applied'[d][k].v = applied[d][k].v /\ applied'[d][k].age = Older(applied[d][k].age)
      <3>1. applied[d][k] \in Entry(k) /\ applied[d][k].age \in Nat
        BY <1>2, <2>3 DEF DevicesTyped, Entry
      <3>2. PICK n \in Nat : n = Older(applied[d][k].age)
        BY <1>3, <3>1
      <3>3. applied'[d][k] = [applied[d][k] EXCEPT !.age = n]
        BY <2>2, <2>3, <3>2
      <3> QED BY <3>1, <3>2, <3>3 DEF Entry
    <2> QED BY <2>1, <2>2, <2>3
  <1>5. DevicesTyped'
    <2>1. trouble' \in [Devices -> [Kind -> Nat]]
      BY <1>1, <1>3, <1>4, Zenon
    <2>2. applied' = [d \in Devices |-> [k \in Kind |-> applied'[d][k]]]
      BY <1>1
    <2>3. \A d \in Devices, k \in Kind : applied'[d][k] = None \/ applied'[d][k] \in Entry(k)
      BY <1>4
    <2> QED BY <1>1, <1>2, <2>1, <2>2, <2>3 DEF DevicesTyped
  <1>6. ASSUME NEW p \in Proc, Alone(p)
        PROVE  Good(job[p])'
    <2>1. job[p] = Idle /\ job'[p] = Idle
      BY <1>1 DEF IInv, Typed, JobTyped, Flushing, Quiet
    <2>2. Cached(Idle) /\ Reported(Idle)
      BY <1>6, <2>1 DEF IInv, Good
    <2>3. Cached(Idle)'
      <3> SUFFICES ASSUME NEW d \in Devices, NEW k \in Kind, applied'[d][k] # None,
                          trouble'[d][k] > applied'[d][k].age
                   PROVE  device[d][Primary(d, k)] = Shown(d, [kind |-> k, v |-> applied'[d][k].v])
        BY <1>1 DEF Cached, Shown, Primary
      <3>1. applied[d][k] # None /\ applied'[d][k].v = applied[d][k].v
        BY <1>4
      <3>2. trouble[d][k] > applied[d][k].age
        <4>1. applied[d][k].age \in Nat /\ trouble[d][k] \in Nat
          BY <1>4, <3>1, Zenon DEF Entry
        <4>2. Older(trouble[d][k]) > Older(applied[d][k].age)
          BY <1>4, <3>1
        <4> QED BY <1>3, <4>1, <4>2, Zenon
      <3>3. ~Marking(Idle, d, k)
        BY DEF Marking, Idle
      <3> QED BY <2>2, <3>1, <3>2, <3>3, Zenon DEF Cached
    <2>4. Flushed(Idle)'
      BY Zenon DEF Flushed, Idle, Sending
    <2>5. Reported(Idle)'
      BY <1>1, <2>2 DEF Reported, Agrees
    <2> QED BY <2>1, <2>3, <2>4, <2>5 DEF Good
  <1> QED BY <1>1, <1>5, <1>6, StepElsewhere

\* CalmDown and stuttering.
LEMMA Still ==
    ASSUME IInv, UNCHANGED <<sc, zone, applied, job, status, device, trouble, missed>>
    PROVE  IInv'
  <1>1. DevicesTyped'
    BY DEF IInv, Typed, DevicesTyped
  <1>2. ASSUME NEW p \in Proc, Alone(p)
        PROVE  Good(job[p])'
    <2>1. PICK j : j = job[p]
      OBVIOUS
    <2>2. Good(j)
      BY <1>2, <2>1 DEF IInv
    <2>3. Good(j)'
      BY <2>2, Zenon DEF Good, Cached, Flushed, Passed, Sends, Settled, Reported, Agrees
    <2> QED BY <2>1, <2>3
  <1> QED BY <1>1, <1>2, StepElsewhere

-----------------------------------------------------------------------------
LEMMA InitGood ==
    ASSUME Init
    PROVE  IInv
  <1>1. StatusTyped(status)
    BY DEF Init, StatusTyped, State
  <1>2. zone \in ZoneType /\ zone.state # "UNSPECIFIED" /\ zone = Load(status)
    BY <1>1, LoadKeeps DEF Init
  <1>3. DevicesTyped
    BY ConstantsAssumption DEF Init, DevicesTyped
  <1>4. Typed
    BY <1>1, <1>2, <1>3 DEF Init, Typed
  <1>5. Good(Idle)
    <2>1. Cached(Idle)
      BY Zenon DEF Init, Cached
    <2>2. Flushed(Idle)
      BY DEF Flushed, Idle, Sending
    <2>3. Reported(Idle)
      BY <1>2 DEF Reported, Agrees, Idle
    <2> QED BY <2>1, <2>2, <2>3 DEF Good
  <1> QED BY <1>4, <1>5 DEF IInv, Init

LEMMA StepGood ==
    ASSUME IInv, [Next]_vars
    PROVE  IInv'
  <1>1. ASSUME NEW p \in Proc, NEW r \in sc.calls[p], Call(p, r)
        PROVE  IInv'
    BY <1>1, CallKeeps
  <1>2. ASSUME NEW p \in Proc, Step(p)
        PROVE  IInv'
    BY <1>2, SetFieldKeeps, SwitchKeeps, RaiseKeeps, CheckKeeps, SendKeeps, MarkKeeps, EndKeeps, MarshalKeeps,
       PatchKeeps DEF Step
  <1>3. ASSUME NEW p \in Proc, SendLost(p) \/ SendFails(p) \/ PatchFails(p)
        PROVE  IInv'
    BY <1>3, SendLostKeeps, SendFailsKeeps, PatchKeeps
  <1>4. ASSUME NEW d \in Devices, Drift(d)
        PROVE  IInv'
    BY <1>4, DriftKeeps
  <1>5. CASE Restart
    BY <1>5, RestartKeepsInv
  <1>6. CASE Tick
    BY <1>6, TickKeeps
  <1>7. CASE CalmDown \/ UNCHANGED vars
    BY <1>7, Still DEF CalmDown, vars
  <1> QED BY <1>1, <1>2, <1>3, <1>4, <1>5, <1>6, <1>7 DEF Next

\* The zone, its cache, its devices and the goroutines stay in the states
\* that the invariant describes, whatever RPCs, mishaps and restarts come.
THEOREM Invariance == Spec => []IInv
  <1>1. Init => IInv
    BY InitGood
  <1>2. IInv /\ [Next]_vars => IInv'
    BY StepGood
  <1> QED BY <1>1, <1>2, PTL DEF Spec

\* When a flush ends without an error, each device it went to shows what the
\* zone says in every kind that has not been disturbed for the refresh age.
THEOREM ReassertedHolds == Spec => []Reasserted
  <1>1. ASSUME IInv
        PROVE  Reasserted
    <2> SUFFICES ASSUME NEW p \in Proc, Alone(p), FlushedCleanly(p), NEW n \in 1..3, NEW d \in job[p].req.flush,
                        Sends(n, d), Message(n, zone).kind \in Kind,
                        trouble[d][Message(n, zone).kind] >= RefreshAge
                 PROVE  Shows(d, Message(n, zone))
      BY Zenon DEF Reasserted
    <2>1. PICK j : j = job[p]
      OBVIOUS
    <2>2. j.pc = "ended" /\ j.n = 4 /\ ~j.err /\ Flushed(j) /\ JobTyped(p, j)
      BY <1>1, <2>1, Busy, Zenon DEF FlushedCleanly, IInv, Good
    <2>3. d \in Devices
      BY ConstantsAssumption DEF Sends, Takes
    <2>4. PICK msg : msg = Message(n, zone)
      OBVIOUS
    <2>5. Settled(d, msg)
      <3>1. Passed(j)
        BY <2>2, Zenon DEF Flushed
      <3>2. Settled(d, Message(n, zone))
        <4>1. n < 4
          OBVIOUS
        <4>2. n < j.n
          BY <2>2, <4>1, Zenon
        <4> QED BY <2>1, <2>3, <3>1, <4>2 DEF Passed
      <3> QED BY <2>4, <3>2
    <2>6. device[d][Primary(d, msg.kind)] = Shown(d, msg)
      BY <2>4, <2>5, Zenon DEF Settled
    <2>7. Deliver(d, msg)[Primary(d, msg.kind)] = Shown(d, msg)
      BY <1>1, <2>3, <2>4, Delivered DEF IInv, Typed
    <2> QED BY <2>4, <2>6, <2>7, Zenon DEF Shows
  <1> QED BY <1>1, Invariance, PTL

\* While RPCs do not overlap and the last Status patch landed, what a restart
\* would read from Status is what the zone has.
THEOREM RestartKeepsHolds == Spec => []RestartKeeps
  <1>1. ASSUME IInv
        PROVE  RestartKeeps
    <2> SUFFICES ASSUME Quiet, ~missed, NEW p \in Proc, Alone(p)
                 PROVE  Agrees(status)
      BY DEF RestartKeeps, Agrees
    <2>1. job[p].pc = "idle" /\ Reported(job[p])
      BY <1>1 DEF Quiet, IInv, Good
    <2> QED BY <2>1 DEF Reported
  <1> QED BY <1>1, Invariance, PTL

=============================================================================
