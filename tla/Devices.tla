------------------------------ MODULE Devices -------------------------------
(***************************************************************************)
(* The Zigbee coordinator at work (modules/zigbeecoordinator): devices     *)
(* that join and are interviewed, the map of their addresses and its file  *)
(* (pkg/zigbee-dongle/state.go), commands, reads of the Basic cluster with *)
(* their answers, and re-interviews an operator asks for by an annotation. *)
(*                                                                         *)
(* Every join is handled by a goroutine of its own, and so is every        *)
(* re-interview; both read the Basic cluster in the same way.  A device    *)
(* has a network address, which may change and may pass to another device. *)
(* An operation of the dongle is one step, that may fail (the modules      *)
(* Ember and Znp have the detail).                                         *)
(***************************************************************************)
EXTENDS Naturals, Sequences, FiniteSets

CONSTANTS
  Device,        \* IEEE addresses
  Nwk,           \* network addresses
  Joins,         \* bound on the join events: the goroutines of handleDeviceJoin are 1..Joins
  Enrich,        \* the goroutines of enrichFromBasicCluster: a bound
  SeqMod,        \* transaction sequence numbers: 256 in the code
  Inbox,         \* bound on the messages on their way to the coordinator
  Scenarios,     \* records [joins, addr, known, speaks, annotated, faults, commands, crashes]
  None, Garbled

ASSUME BoundsAssumption ==
  Joins \in Nat /\ Enrich \cap (1..Joins) = {}
ASSUME JoinsAssumption ==
  \A s \in Scenarios : s.joins \in Seq([dev : Device, nwk : Nwk]) /\ Len(s.joins) <= Joins
ASSUME NoneAssumption == None \notin Device \cup Nwk \cup 0..Joins
ASSUME AddressAssumption ==
  \A s \in Scenarios : /\ s.addr \in [Device -> Nwk \cup {None}]
                      /\ \A d, e \in Device : s.addr[d] = s.addr[e] /\ s.addr[d] # None => d = e

VARIABLES
  pc, who, at,          \* goroutines: where each is, its device and the address
  learned,              \* the device it has learned something of, if any
  interviewing,         \* addresses that are being interviewed
  nwkToIEEE, ieeeToNWK, \* the maps
  snap, fd,             \* SaveNWKMap: the snapshot, and the file that is open
  content, file, tmp,   \* what is on disk, and which of it the map file and its .tmp are
  cmdSequence,
  seq, waiters, chan,   \* reads: sequence numbers, responseWaiters, their channels
  requests, inbox,      \* the air: requests at devices, messages to the coordinator
  pending,              \* pendingReinterview: by address, the device
  annotated, crNwk,     \* Device resources: the annotation and Spec.NetworkAddress
  results,              \* interview results on their way through the router
  misled,               \* history: a result, a command or a message was taken for another device's
  addr, moved,          \* the devices' addresses; history: one changed or was taken over
  speaks,               \* the devices that speak by themselves
  joins,                \* join events still to come
  faults, commands, crashes   \* bounds

procs  == <<pc, who, at, learned>>
maps   == <<nwkToIEEE, ieeeToNWK>>
disk   == <<snap, fd, content, file, tmp>>
zcl    == <<cmdSequence, seq, waiters, chan>>
air    == <<requests, inbox, results>>
resources == <<pending, annotated, crNwk>>
world  == <<addr, moved, speaks, joins, commands, crashes>>
vars == <<procs, interviewing, maps, disk, zcl, air, resources, misled, world, faults>>

Join == 1..Joins
Proc == Join \cup Enrich
NoMap == [n \in Nwk |-> None]
Fault == faults > 0 /\ faults' = faults - 1
Goes(p, l) == pc' = [pc EXCEPT ![p] = l]
\* Something meant for, or attributed to, d concerns e.
Concerns(d, e) == misled' = (misled \/ (~moved /\ d # e))
At(n) == IF \E d \in Device : addr[d] = n THEN CHOOSE d \in Device : addr[d] = n ELSE None

Init ==
  \E s \in Scenarios :
    /\ pc = [p \in Proc |-> "off"] /\ who = [p \in Proc |-> None]
    /\ at = [p \in Proc |-> None] /\ learned = [p \in Proc |-> None]
    /\ interviewing = {}
    /\ addr = s.addr /\ moved = FALSE
    /\ nwkToIEEE = IF s.known THEN [n \in Nwk |-> At(n)] ELSE NoMap
    /\ ieeeToNWK = IF s.known THEN s.addr ELSE [d \in Device |-> None]
    /\ snap = [h \in Join |-> NoMap] /\ fd = [h \in Join |-> 0]
    /\ content = [i \in 0..Joins |-> IF i = 0 THEN nwkToIEEE ELSE NoMap] /\ file = 0 /\ tmp = None
    /\ cmdSequence = 0 /\ seq = [p \in Proc |-> 0] /\ waiters = {} /\ chan = [p \in Proc |-> None]
    /\ requests = {} /\ inbox = <<>> /\ results = {}
    /\ pending = NoMap /\ annotated = s.annotated /\ crNwk = s.addr
    /\ misled = FALSE /\ speaks = s.speaks
    /\ joins = s.joins
    /\ faults = s.faults /\ commands = s.commands /\ crashes = s.crashes

-----------------------------------------------------------------------------
(* handleDeviceJoin.                                                       *)

\* A device joins, perhaps under another address than before, or under one
\* that another device had; the message loop starts a goroutine for it.
DeviceJoins ==
  /\ joins # <<>> /\ joins' = Tail(joins)
  /\ LET d == Head(joins).dev n == Head(joins).nwk h == Joins - Len(joins) + 1 IN
       /\ addr' = [e \in Device |-> IF e = d THEN n ELSE IF addr[e] = n THEN None ELSE addr[e]]
       /\ moved' = (moved \/ addr[d] \notin {None, n} \/ \E e \in Device \ {d} : addr[e] = n)
       /\ who' = [who EXCEPT ![h] = d] /\ at' = [at EXCEPT ![h] = n] /\ Goes(h, "start")
  /\ UNCHANGED <<learned, interviewing, maps, disk, zcl, air, resources, misled, speaks, commands, crashes, faults>>

\* A goroutine ends.
Ends(p) == /\ Goes(p, "off") /\ who' = [who EXCEPT ![p] = None]
           /\ at' = [at EXCEPT ![p] = None] /\ learned' = [learned EXCEPT ![p] = None]

\* Only one interview of an address at a time.
Dedup(h) ==
  /\ pc[h] = "start"
  /\ IF at[h] \in interviewing THEN Ends(h) /\ UNCHANGED interviewing
     ELSE /\ Goes(h, "store") /\ interviewing' = interviewing \cup {at[h]}
          /\ UNCHANGED <<who, at, learned>>
  /\ UNCHANGED <<maps, disk, zcl, air, resources, misled, world, faults>>

\* The maps are updated, and copied, under their lock; the file is written outside it.
Store(h) ==
  /\ pc[h] = "store" /\ Goes(h, "save")
  /\ nwkToIEEE' = [nwkToIEEE EXCEPT ![at[h]] = who[h]]
  /\ ieeeToNWK' = [ieeeToNWK EXCEPT ![who[h]] = at[h]]
  /\ snap' = [snap EXCEPT ![h] = nwkToIEEE']
  /\ UNCHANGED <<who, at, learned, interviewing, fd, content, file, tmp, zcl, air, resources, misled,
                 world, faults>>

\* SaveNWKMap: the .tmp file, whoever made it, is truncated ...
Truncate(h) ==
  /\ pc[h] = "save"
  /\ \/ /\ Goes(h, "write")
        /\ LET f == IF tmp = None THEN h ELSE tmp IN
             tmp' = f /\ fd' = [fd EXCEPT ![h] = f] /\ content' = [content EXCEPT ![f] = NoMap]
        /\ UNCHANGED faults
     \/ Fault /\ Goes(h, "interview") /\ UNCHANGED <<tmp, fd, content>>
  /\ UNCHANGED <<who, at, learned, interviewing, maps, snap, file, zcl, air, resources, misled, world>>

\* ... and written, over what another goroutine has written into it meanwhile:
\* the rest of a longer map remains, and the file can no longer be read ...
Entries(m) == {n \in Nwk : m[n] # None}
Write(h) ==
  /\ pc[h] = "write"
  /\ \/ /\ Goes(h, "rename") /\ UNCHANGED faults
        /\ content' = [content EXCEPT ![fd[h]] =
                         IF @ # Garbled /\ Entries(@) \subseteq Entries(snap[h]) THEN snap[h] ELSE Garbled]
     \/ Fault /\ Goes(h, "interview") /\ content' = [content EXCEPT ![fd[h]] = Garbled]
  /\ UNCHANGED <<who, at, learned, interviewing, maps, snap, fd, file, tmp, zcl, air, resources, misled,
                 world>>

\* ... and takes the place of the map file; when another goroutine has
\* renamed it already, there is nothing to rename, and what is there by then
\* is removed.
Rename(h) ==
  /\ pc[h] = "rename"
  /\ IF tmp = None THEN Goes(h, "remove") /\ UNCHANGED <<file, tmp>>
     ELSE Goes(h, "interview") /\ file' = tmp /\ tmp' = None
  /\ UNCHANGED <<who, at, learned, interviewing, maps, snap, fd, content, zcl, air, resources, misled,
                 world, faults>>
Remove(h) ==
  /\ pc[h] = "remove" /\ Goes(h, "interview") /\ tmp' = None
  /\ UNCHANGED <<who, at, learned, interviewing, maps, snap, fd, content, file, zcl, air, resources, misled,
                 world, faults>>

\* interviewAndDispatch, after 2s: the interview fails, or finds something or not.
Interview(h) ==
  /\ pc[h] = "interview"
  /\ \/ Goes(h, "tell") /\ UNCHANGED learned
     \/ Goes(h, "read") /\ learned' \in {learned, [learned EXCEPT ![h] = At(at[h])]}
  /\ UNCHANGED <<who, at, interviewing, maps, disk, zcl, air, resources, misled, world, faults>>

\* sendInterviewResult: what was learned, if anything, is handed to the
\* router; a failure to do so is only logged.  (The router ignores the result
\* of a failed interview.)
sendInterviewResult(p) ==
  \/ learned[p] # None /\ results' = results \cup {[dev |-> who[p], nwk |-> at[p], from |-> learned[p]]}
  \/ UNCHANGED results

\* A mutant: the address stays marked.
DispatchMarked(h) ==
  /\ h \in Join /\ pc[h] = "tell" /\ Ends(h)
  /\ sendInterviewResult(h)
  /\ UNCHANGED <<interviewing, maps, disk, zcl, requests, inbox, resources, misled, world, faults>>

\* The end of the interview of a join ends the goroutine.
Dispatch(h) ==
  /\ h \in Join /\ pc[h] = "tell" /\ Ends(h)
  /\ interviewing' = interviewing \ {at[h]}
  /\ sendInterviewResult(h)
  /\ UNCHANGED <<maps, disk, zcl, requests, inbox, resources, misled, world, faults>>

-----------------------------------------------------------------------------
(* readBasicClusterAttributes and sendZclAndAwait.                         *)

Key(p) == [nwk |-> at[p], seq |-> seq[p]]

\* A mutant: the counter is not advanced.
SameSequence == cmdSequence

nextZclTxnSequence == (cmdSequence + 1) % SeqMod

\* What the read's caller does with an error, and with an answer of device d.
ReadFails(p) ==
  IF p \in Join THEN Goes(p, "tell") /\ UNCHANGED <<who, at, learned, pending>>
  ELSE Ends(p) /\ pending' = [pending EXCEPT ![at[p]] = who[p]]
ReadSucceeds(p, d) ==
  Goes(p, "tell") /\ learned' = [learned EXCEPT ![p] = d] /\ UNCHANGED <<who, at, pending>>

\* The waiter is registered before the request is sent.
registerResponseWaiter(p) ==
  /\ pc[p] = "read"
  /\ cmdSequence' = nextZclTxnSequence
  /\ seq' = [seq EXCEPT ![p] = nextZclTxnSequence]
  /\ LET k == [nwk |-> at[p], seq |-> seq'[p]] IN
       IF \E w \in waiters : w.key = k THEN ReadFails(p) /\ UNCHANGED waiters
       ELSE waiters' = waiters \cup {[key |-> k, by |-> p]} /\ Goes(p, "send")
            /\ UNCHANGED <<who, at, learned, pending>>
  /\ UNCHANGED <<interviewing, maps, disk, chan, air, annotated, crNwk, misled, world, faults>>

\* A mutant: the waiter stays.
LeaveWaiter(p) == UNCHANGED waiters /\ chan' = [chan EXCEPT ![p] = None] /\ seq' = [seq EXCEPT ![p] = 0]

\* The waiter is removed whatever the outcome.
cleanup(p) == /\ waiters' = {w \in waiters : w.by # p}
              /\ chan' = [chan EXCEPT ![p] = None] /\ seq' = [seq EXCEPT ![p] = 0]

\* The request reaches the device that has the address now, or is lost.
SendZcl(p) ==
  /\ pc[p] = "send" /\ Goes(p, "await")
  /\ \/ At(at[p]) # None /\ requests' = requests \cup {[dev |-> At(at[p]), seq |-> seq[p], by |-> p, life |-> crashes]} /\ UNCHANGED faults
     \/ (IF At(at[p]) = None THEN UNCHANGED faults ELSE Fault) /\ UNCHANGED requests
  /\ UNCHANGED <<who, at, learned, interviewing, maps, disk, zcl, inbox, results, resources, misled, world>>
SendFails(p) ==
  /\ pc[p] = "send" /\ Fault
  /\ cleanup(p) /\ ReadFails(p)
  /\ UNCHANGED <<interviewing, maps, disk, cmdSequence, air, annotated, crNwk, misled, world>>

\* A message that is not a ReadAttributesResponse is an error.
Answered(p) ==
  /\ pc[p] = "await" /\ chan[p] # None
  /\ cleanup(p)
  /\ IF chan[p].kind = "answer" THEN ReadSucceeds(p, chan[p].dev) ELSE ReadFails(p)
  /\ UNCHANGED <<interviewing, maps, disk, cmdSequence, air, annotated, crNwk, misled, world,
                 faults>>

\* The timeout; while an answer is on its way, that is a fault of the bound.
Coming(p) == \/ \E q \in requests : q.by = p /\ q.seq = seq[p]
             \/ \E i \in DOMAIN inbox : inbox[i].kind = "answer" /\ inbox[i].by = p /\ inbox[i].seq = seq[p]
Timeout(p) ==
  /\ pc[p] = "await" /\ chan[p] = None
  /\ IF Coming(p) THEN Fault ELSE UNCHANGED faults
  /\ cleanup(p) /\ ReadFails(p)
  /\ UNCHANGED <<interviewing, maps, disk, cmdSequence, air, annotated, crNwk, misled, world>>

-----------------------------------------------------------------------------
(* The air.  A device answers a request late, or never: a lost answer costs *)
(* a fault.  It also speaks by itself.                                     *)

CanHear == Len(inbox) < Inbox
Hears(m) == CanHear /\ inbox' = Append(inbox, m)
Airs == UNCHANGED <<procs, interviewing, maps, disk, zcl, results, resources, misled, world>>

DeviceAnswers(d) ==
  /\ \E q \in requests :
       /\ q.dev = d /\ addr[d] # None /\ requests' = requests \ {q}
       /\ Hears([kind |-> "answer", nwk |-> addr[d], dev |-> d, seq |-> q.seq, by |-> q.by, life |-> q.life])
  /\ UNCHANGED faults /\ Airs
LoseRequest == Fault /\ (\E q \in requests : requests' = requests \ {q}) /\ UNCHANGED inbox /\ Airs
Report(d, s) == [kind |-> "report", nwk |-> addr[d], dev |-> d, seq |-> s, by |-> None, life |-> crashes]
DeviceReports(d) ==
  /\ d \in speaks /\ addr[d] # None /\ ~\E i \in DOMAIN inbox : inbox[i].kind = "report" /\ inbox[i].dev = d
  /\ Hears(Report(d, None))
  /\ UNCHANGED <<requests, faults>> /\ Airs
\* A report of the Basic cluster that happens to have the number of a read.
DeviceReportsSame(d) ==
  /\ Fault /\ d \in speaks /\ addr[d] # None
  /\ \E w \in waiters : w.key.nwk = addr[d] /\ Hears(Report(d, w.key.seq))
  /\ UNCHANGED requests /\ Airs

-----------------------------------------------------------------------------
(* The message loop and the router.                                        *)

\* notifyResponseWaiter never blocks: what a full channel cannot take is dropped.
notifyResponseWaiter(m) ==
  chan' = [p \in Proc |-> IF chan[p] = None /\ [key |-> [nwk |-> m.nwk, seq |-> m.seq], by |-> p] \in waiters
                          THEN m ELSE chan[p]]

\* triggerPendingEnrichmentIfAny: the entry leaves the map and a goroutine starts.
triggerPendingEnrichmentIfAny(n) ==
  IF pending[n] = None THEN UNCHANGED <<procs, pending>>
  ELSE \E e \in Enrich :
         /\ pc[e] = "off" /\ Goes(e, "read") /\ learned' = learned
         /\ who' = [who EXCEPT ![e] = pending[n]] /\ at' = [at EXCEPT ![e] = n]
         /\ pending' = [pending EXCEPT ![n] = None]

\* A mutant: the first device of the list, whatever its address.
AnyDevice(n) == Device

\* DeviceRoute: the device a message is attributed to, by the coordinator's
\* map, else by the addresses in the Device resources.
getDeviceByNWK(n) == {d \in Device : crNwk[d] = n}
getDeviceByIEEE(d) == {d}   \* in the cache, in the list, or created
Source(n) == IF nwkToIEEE[n] # None THEN getDeviceByIEEE(nwkToIEEE[n]) ELSE getDeviceByNWK(n)

\* The whole of forwardMessageToRouter, with DeviceRoute; the message may not
\* reach the router.
forwardMessageToRouter ==
  /\ inbox # <<>> /\ inbox' = Tail(inbox)
  /\ LET m == Head(inbox) IN
       /\ notifyResponseWaiter(m)
       /\ triggerPendingEnrichmentIfAny(m.nwk)
       /\ \/ UNCHANGED misled
          \/ \E d \in Source(m.nwk) : Concerns(d, m.dev)
  /\ UNCHANGED <<interviewing, maps, disk, cmdSequence, seq, waiters, requests, results, annotated, crNwk,
                 world, faults>>

\* InterviewRoute, for one of the results on their way: the router has a
\* goroutine for each message.
InterviewRoute(r) ==
  /\ r \in results /\ results' = results \ {r}
  /\ crNwk' = [crNwk EXCEPT ![r.dev] = r.nwk] /\ Concerns(r.dev, r.from)
  /\ UNCHANGED <<procs, interviewing, maps, disk, zcl, requests, inbox, pending, annotated, world, faults>>

-----------------------------------------------------------------------------
(* Re-interviews and commands.                                             *)

\* Every annotated device whose resource has an address is registered under
\* it, over an entry that is there; the devices in the order of the list.
\* (Enrich bounds the goroutines that are started and still to be started.)
Registered(n) == {d \in annotated : crNwk[d] = n}
reinterviewTick ==
  /\ pending' \in [Nwk -> Device \cup {None}]
  /\ \A n \in Nwk : IF Registered(n) = {} THEN pending'[n] = pending[n] ELSE pending'[n] \in Registered(n)
  /\ Cardinality(Entries(pending')) + Cardinality({e \in Enrich : pc[e] # "off"}) <= Cardinality(Enrich)
  /\ UNCHANGED <<procs, interviewing, maps, disk, zcl, air, annotated, crNwk, misled, world, faults>>

\* enrichFromBasicCluster, after a read that succeeded: the result, and then
\* the annotation, which stays when its patch fails.
EnrichDispatch(e) ==
  /\ e \in Enrich /\ pc[e] = "tell" /\ Goes(e, "clear")
  /\ sendInterviewResult(e)
  /\ UNCHANGED <<who, at, learned, interviewing, maps, disk, zcl, requests, inbox, resources, misled, world,
                 faults>>
\* A mutant: the annotation stays.
KeepAnnotation(e) ==
  /\ pc[e] = "clear" /\ Ends(e)
  /\ UNCHANGED <<interviewing, maps, disk, zcl, air, resources, misled, world, faults>>


clearReinterviewAnnotation(e) ==
  /\ pc[e] = "clear" /\ Ends(e)
  /\ \/ annotated' = annotated \ {who[e]} /\ UNCHANGED faults
     \/ Fault /\ UNCHANGED annotated
  /\ UNCHANGED <<interviewing, maps, disk, zcl, air, pending, crNwk, misled, world>>

\* SendCommand: the device that has the address acts, unless the dongle cannot send.
SendCommand(d) ==
  /\ commands > 0 /\ commands' = commands - 1
  /\ IF ieeeToNWK[d] = None THEN UNCHANGED <<cmdSequence, misled>>
     ELSE /\ cmdSequence' = nextZclTxnSequence
          /\ \/ UNCHANGED misled
             \/ At(ieeeToNWK[d]) # None /\ Concerns(d, At(ieeeToNWK[d]))
  /\ UNCHANGED <<procs, interviewing, maps, disk, seq, waiters, chan, air, resources, addr, moved, speaks,
                 joins, crashes, faults>>

\* The coordinator stops and starts again: LoadNWKMap.  Of the addresses of a
\* device the one that is iterated last is kept.
LoadNWKMap == IF content[file] = Garbled THEN NoMap ELSE content[file]
Restart ==
  /\ crashes > 0 /\ crashes' = crashes - 1
  /\ pc' = [p \in Proc |-> "off"] /\ who' = [p \in Proc |-> None]
  /\ at' = [p \in Proc |-> None] /\ learned' = [p \in Proc |-> None]
  /\ interviewing' = {} /\ pending' = NoMap /\ inbox' = <<>>
  /\ cmdSequence' = 0 /\ seq' = [p \in Proc |-> 0] /\ waiters' = {} /\ chan' = [p \in Proc |-> None]
  /\ nwkToIEEE' = LoadNWKMap
  /\ ieeeToNWK' \in [Device -> Nwk \cup {None}]
  /\ \A d \in Device : LET N == {n \in Nwk : LoadNWKMap[n] = d} IN
       IF N = {} THEN ieeeToNWK'[d] = None ELSE ieeeToNWK'[d] \in N
  /\ UNCHANGED <<disk, requests, results, annotated, crNwk, misled, addr, moved, speaks, joins, commands, faults>>

-----------------------------------------------------------------------------
HandlerStep(h) == \/ Dedup(h) \/ Store(h) \/ Truncate(h) \/ Write(h) \/ Rename(h) \/ Remove(h)
                  \/ Interview(h) \/ Dispatch(h)
EnrichStep(e) == EnrichDispatch(e) \/ clearReinterviewAnnotation(e)
ReadStep(p) == registerResponseWaiter(p) \/ SendZcl(p) \/ SendFails(p) \/ Answered(p) \/ Timeout(p)

Next ==
  \/ DeviceJoins
  \/ \E h \in Join : HandlerStep(h)
  \/ \E e \in Enrich : EnrichStep(e)
  \/ \E p \in Proc : ReadStep(p)
  \/ \E d \in Device : DeviceAnswers(d) \/ DeviceReports(d) \/ DeviceReportsSame(d)
  \/ LoseRequest
  \/ forwardMessageToRouter
  \/ \E r \in results : InterviewRoute(r)
  \/ reinterviewTick
  \/ \E d \in Device : SendCommand(d)
  \/ Restart

Spec == Init /\ [][Next]_vars

\* Goroutines run, the loop reads its messages and the poll ticks; a device
\* speaks again and again and answers what it hears.
Fairness ==
  /\ \A h \in Join : WF_vars(HandlerStep(h) \/ ReadStep(h))
  /\ \A e \in Enrich : WF_vars(EnrichStep(e) \/ ReadStep(e))
  /\ SF_vars(\E d \in Device : DeviceAnswers(d)) /\ \A d \in Device : SF_vars(DeviceReports(d))
  /\ WF_vars(forwardMessageToRouter) /\ WF_vars(reinterviewTick)

FairSpec == Spec /\ Fairness

-----------------------------------------------------------------------------
Busy == {h \in Join : pc[h] \notin {"off", "start"}}

\* The addresses that are being interviewed are those of the joins in
\* progress, one join each: no join event, failure or early return leaves an
\* address behind, which would never be interviewed again.
OneInterview ==
  /\ interviewing = {at[h] : h \in Busy}
  /\ \A g, h \in Busy : at[g] = at[h] => g = h

\* The table of waiters holds the reads in progress and nothing else, each
\* under a key of its own: a read that timed out, failed or was answered
\* leaves nothing that would catch the answer of a later one.
WaitersFreed ==
  /\ {w.by : w \in waiters} = {p \in Proc : pc[p] \in {"send", "await"}}
  /\ \A v, w \in waiters : v # w => v.key # w.key /\ v.by # w.by
  /\ \A w \in waiters : w.key = Key(w.by)

\* A read takes the answer to its own request, and not the late answer to one
\* that was given up: "retries don't collide with stale responses".  Requests
\* sent before a restart are not meant.
OwnAnswer ==
  \A p \in Proc : chan[p] # None /\ chan[p].kind = "answer" /\ chan[p].life = crashes => chan[p].by = p

\* As long as every device keeps its address: a command reaches the device it
\* is meant for, what is written into a Device resource was read from that
\* device, and a message is attributed to the device that sent it, whatever
\* the saves of the map race with, and after a restart.
RightDevice == ~misled

\* A device that an operator marked for a re-interview is read, and the mark
\* is removed, whatever fails on the way a bounded number of times, as long as
\* the devices keep their addresses.
Enriched == \A d \in Device : (d \in annotated \cap speaks /\ crNwk[d] # None) ~> (d \notin annotated \/ moved)

=============================================================================
