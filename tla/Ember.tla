------------------------------- MODULE Ember --------------------------------
(***************************************************************************)
(* What the Ember controller does with its EZSP commands: configuring the  *)
(* NCP, forming a network, joining, sending and the interview of a device  *)
(* (pkg/zigbee-dongle/ember/controller.go and interview.go), and the       *)
(* network the NCP keeps.  A command is one step, with the outcomes module *)
(* Ezsp promises: it is run and answered, or it fails, run or not.         *)
(*                                                                         *)
(* An operation is a sequence of steps; a step is a command, with the      *)
(* number of attempts the code makes and what it does when they fail.  A   *)
(* network is a record [id, key].                                          *)
(***************************************************************************)
EXTENDS Integers, Sequences

CONSTANTS
  Caller,        \* the goroutines that call the controller
  StatusCap,     \* capacity of stackStatusCh: 10 in the code
  Configs, Policies, Endpoints,   \* how many values initEzsp and an interview ask for
  InFlight,      \* bound on the responses of devices on their way
  Polls,         \* bound on the polls before a deadline of FormNetwork
  None

ASSUME CountsAssumption == {Configs, Policies, Endpoints} \subseteq Nat

ASSUME NoneAssumption == None \notin Caller /\ None \notin Nat

VARIABLES
  work,          \* each caller's operation and its argument
  pos,           \* the step it is at, and the attempt
  stage,         \* of the step: "issue"; of a ZDO request "ready", with its waiter, and "sent"
  seen,          \* the network GetNetworkInfo read
  result,        \* how the operation ended
  statusCh,      \* stackStatusCh
  waiter,        \* zdoWaiters: which caller waits for a response cluster
  zdo,           \* the channel of a caller's waiter
  net, cur, tokens, key,   \* the NCP: its network, NVM and security state
  notify         \* callbacks the NCP has still to send

ops     == <<work, pos, stage, seen, result>>
tables  == <<statusCh, waiter, zdo>>
network == <<net, cur, tokens, key, notify>>
emberVars == <<ops, tables, network>>

-----------------------------------------------------------------------------
(* Steps and operations.                                                   *)

Step(at, cmd, tries, onError) == [at |-> at, cmd |-> cmd, tries |-> tries, onError |-> onError]
Stop(cmd) == Step(cmd, cmd, 1, "stop")
Go(cmd) == Step(cmd, cmd, 1, "go")

initEzsp ==
  [i \in 1..Configs |-> Step("config", "config", 3, "stop")]
  \o <<Go("endpoint")>> \o [i \in 1..Policies |-> Stop("policy")]

\* PermitJoining: 0x22 counts as success, any other status as a failure.
PermitJoining(on) ==
  IF on THEN <<Go("importKey"), Go("policy"), Go("getPolicy"), Stop("open")>>
  ELSE <<Go("clearTransient"), Go("policy"), Stop("close")>>

Send == <<Stop("unicast")>>
SetConcentrator == <<Stop("concentrator"), Go("sourceRoute")>>
GetNetworkInfo == <<Stop("state"), Stop("params"), Stop("nodeId"), Stop("parent")>>

\* Inside FormNetwork an information that cannot be had is taken for the right one.
Verify == <<Step("isUp", "state", 1, "accept"), Step("isAsked", "params", 1, "accept"),
            Step("nodeId", "nodeId", 1, "accept"), Step("compare", "parent", 1, "accept")>>

setInitialSecurityState == <<Stop("security"), Go("extended")>>

FormNetwork(skipForcedLeave) ==
  (IF skipForcedLeave THEN <<>> ELSE <<Go("leave")>>)
  \o <<Go("init"), Go("peek"), Step("poll", "state", Polls, "go")>>
  \o Verify
  \o <<Step("leaveOther", "leave", 1, "panic")>>
  \o setInitialSecurityState
  \o <<Go("clearKeys"), Go("form"), Step("wait", "wait", Polls, "go"), Step("waitPoll", "state", 1, "go")>>

\* The ZDO requests to one device.
InterviewDevice ==
  <<Step("node", "node", 3, "stop"), Stop("eps")>> \o [i \in 1..Endpoints |-> Go("simple")]

Steps ==
  [initEzsp |-> initEzsp, GetNetworkInfo |-> GetNetworkInfo, SetConcentrator |-> SetConcentrator,
   FormNetwork |-> FormNetwork(FALSE), FormNetworkSkippingLeave |-> FormNetwork(TRUE),
   PermitJoining |-> PermitJoining(TRUE), StopJoining |-> PermitJoining(FALSE),
   Send |-> Send, InterviewDevice |-> InterviewDevice]

\* Steps that are not commands, and steps that wait for a device.
Local == {"peek", "wait"}
Clusters == {"node", "eps", "simple"}

-----------------------------------------------------------------------------
(* Where an operation goes.                                                *)

Busy(p) == work[p] # None
Plan(p) == Steps[work[p].op]
At(p) == Plan(p)[pos[p].i]
Issues(p) == Busy(p) /\ stage[p] = IF At(p).cmd \in Clusters THEN "ready" ELSE "issue"
Reached(p, label) == Busy(p) /\ At(p).at = label

\* The operation is over.
Ends(p, r) ==
  /\ work' = [work EXCEPT ![p] = None]
  /\ result' = [result EXCEPT ![p] = r]
  /\ UNCHANGED pos
Goes(p, i, t) ==
  /\ pos' = [pos EXCEPT ![p] = [i |-> i, t |-> t]]
  /\ UNCHANGED <<work, result>>
NextStep(p) == IF pos[p].i = Len(Plan(p)) THEN Ends(p, "ok") ELSE Goes(p, pos[p].i + 1, 1)
Jump(p, label) == Goes(p, CHOOSE i \in DOMAIN Plan(p) : Plan(p)[i].at = label, 1)

\* A caller starts an operation.
Call(p, op, arg) ==
  /\ ~Busy(p)
  /\ work' = [work EXCEPT ![p] = [op |-> op, arg |-> arg]]
  /\ pos' = [pos EXCEPT ![p] = [i |-> 1, t |-> 1]]
  /\ result' = [result EXCEPT ![p] = None]
  /\ seen' = [seen EXCEPT ![p] = None]
  /\ stage' = [stage EXCEPT ![p] = "issue"]

\* An attempt failed.
Fails(p) ==
  LET s == At(p) IN
  IF s.at = "waitPoll" THEN Goes(p, pos[p].i - 1, pos[p].t + 1)
  ELSE IF pos[p].t < s.tries THEN Goes(p, pos[p].i, pos[p].t + 1)
  ELSE CASE s.onError = "stop"   -> Ends(p, "error")
         [] s.onError = "accept" -> Ends(p, "ok")
         [] s.onError = "panic"  -> Ends(p, "panic")
         [] s.onError = "go" /\ s.at \in {"init", "poll"} -> Jump(p, "security")
         [] OTHER                -> NextStep(p)

\* An attempt was answered with v.
Succeeds(p, v) ==
  LET s == At(p) IN
  CASE s.at = "init"     -> Jump(p, CASE v = "ok" -> "poll" [] v = "notJoined" -> "peek" [] OTHER -> "security")
    [] s.at = "poll"     -> IF v = "joined" THEN NextStep(p) ELSE Fails(p)
    [] s.at \in {"isUp", "state"}    -> IF v = "joined" THEN NextStep(p) ELSE Ends(p, "ok")
    [] s.at \in {"isAsked", "params"} -> IF v = "ok" THEN NextStep(p) ELSE Ends(p, "ok")
    [] s.at = "compare"  -> IF seen[p] = work[p].arg.id THEN Ends(p, "ok") ELSE NextStep(p)
    [] s.at \in {"security", "open", "close", "unicast", "form"} /\ v = "bad" -> Ends(p, "error")
    [] s.at = "waitPoll" -> IF v = "joined" THEN Ends(p, "ok") ELSE Fails(p)
    [] OTHER             -> NextStep(p)

-----------------------------------------------------------------------------
(* The NCP: what a command does, and with which answer.                    *)

Queue(kind, v) == notify' = Append(notify, [kind |-> kind, val |-> v])

\* LEAVE_NETWORK erases the network; without one it may erase the tokens or not.
NcpLeaves(v) ==
  /\ v = "ok"
  /\ IF net = "none" THEN tokens' \in {tokens, None} /\ UNCHANGED notify
     ELSE tokens' = None /\ Queue("status", "down")
  /\ net' = "none" /\ cur' = None
  /\ UNCHANGED key

\* The network of the tokens comes up, also if the answer says there is none.
NcpInits(v) ==
  /\ \/ /\ tokens # None /\ net = "none" /\ v \in {"ok", "notJoined"}
        /\ net' = "up" /\ cur' = tokens /\ Queue("status", "up")
     \/ tokens = None /\ v = "notJoined" /\ UNCHANGED <<net, cur, notify>>
     \/ v = "refused" /\ UNCHANGED <<net, cur, notify>>
  /\ UNCHANGED <<tokens, key>>

\* SET_INITIAL_SECURITY_STATE may be refused with a status that is not fatal.
NcpSecures(v, n) ==
  /\ v \in {"ok", "refused", "bad"}
  /\ key' = IF v = "ok" THEN n.key ELSE key
  /\ UNCHANGED <<net, cur, tokens, notify>>

NcpForms(v, n) ==
  /\ \/ net = "none" /\ v = "ok" /\ net' = "forming" /\ cur' = [id |-> n.id, key |-> key]
     \/ v = "bad" /\ UNCHANGED <<net, cur>>
  /\ UNCHANGED <<tokens, key, notify>>

NcpPermits(v) == v \in {"ok", "bad"} /\ UNCHANGED network

\* A unicast to a device, that answers a ZDO request well, badly or not at all.
NcpRelays(v, c, d) ==
  /\ v \in {"ok", "bad"}
  /\ \/ v = "ok" /\ c \in Clusters /\ Len(notify) < InFlight /\ \E a \in {"good", "fault"} : Queue(c, [from |-> d, val |-> a])
     \/ UNCHANGED notify
  /\ UNCHANGED <<net, cur, tokens, key>>

NcpTells(v, c) ==
  /\ v = CASE c = "state"  -> IF net = "up" THEN "joined" ELSE "no"
           [] c = "params" -> IF net = "up" THEN "ok" ELSE "notJoined"
           [] OTHER        -> "ok"
  /\ UNCHANGED network

NcpRuns(p, v) ==
  LET s == At(p) arg == work[p].arg IN
  CASE s.cmd = "leave"    -> NcpLeaves(v)
    [] s.cmd = "init"     -> NcpInits(v)
    [] s.cmd = "security" -> NcpSecures(v, arg)
    [] s.cmd = "form"     -> NcpForms(v, arg)
    [] s.cmd \in {"open", "close"} -> NcpPermits(v)
    [] s.cmd \in Clusters \cup {"unicast"} -> NcpRelays(v, s.cmd, arg)
    [] OTHER              -> NcpTells(v, s.cmd)
Answers == {"ok", "notJoined", "refused", "bad", "joined", "no"}

\* Forming ends, one way or the other.
NcpComesUp ==
  /\ net = "forming"
  /\ \/ net' = "up" /\ tokens' = cur /\ Queue("status", "up") /\ UNCHANGED cur
     \/ net' = "none" /\ cur' = None /\ Queue("status", "down") /\ UNCHANGED tokens
  /\ UNCHANGED <<ops, tables, key>>

\* The NCP starts again, with what it has in its tokens.
NcpReboots ==
  /\ net' = "none" /\ cur' = None /\ key' = None /\ notify' = <<>>
  /\ UNCHANGED tokens

-----------------------------------------------------------------------------
(* One attempt of a step.                                                  *)

\* A ZDO request puts its waiter in the place of any other for that cluster.
registerZDOWaiter(p) ==
  /\ Busy(p) /\ stage[p] = "issue" /\ At(p).cmd \in Clusters
  /\ stage' = [stage EXCEPT ![p] = "ready"]
  /\ waiter' = [waiter EXCEPT ![At(p).cmd] = p]
  /\ zdo' = [zdo EXCEPT ![p] = None]
  /\ UNCHANGED <<work, pos, seen, result, statusCh, network>>

\* A mutant: it is left there.
LeaveZDOWaiter(p) ==
  LET again == pos'[p] = [i |-> pos[p].i, t |-> pos[p].t + 1] IN
  IF At(p).cmd \in Clusters
  THEN stage' = [stage EXCEPT ![p] = IF again THEN "ready" ELSE "issue"] /\ UNCHANGED waiter
  ELSE UNCHANGED <<stage, waiter>>

\* It is removed, whoever's it is now, when the attempts are over.
removeZDOWaiter(p) ==
  LET again == pos'[p] = [i |-> pos[p].i, t |-> pos[p].t + 1] IN
  IF At(p).cmd \in Clusters
  THEN /\ stage' = [stage EXCEPT ![p] = IF again THEN "ready" ELSE "issue"]
       /\ waiter' = IF again THEN waiter ELSE [waiter EXCEPT ![At(p).cmd] = None]
  ELSE UNCHANGED <<stage, waiter>>

sendEZSPCommand(p) ==
  /\ Issues(p) /\ At(p).at \notin Local
  /\ \E v \in Answers :
       /\ NcpRuns(p, v)
       /\ IF At(p).cmd \in Clusters /\ v = "ok"
          THEN stage' = [stage EXCEPT ![p] = "sent"] /\ UNCHANGED <<work, pos, result, waiter>>
          ELSE /\ IF At(p).cmd \in Clusters THEN Fails(p) ELSE Succeeds(p, v)
               /\ removeZDOWaiter(p)
  /\ seen' = IF At(p).cmd = "params" /\ cur # None THEN [seen EXCEPT ![p] = cur.id] ELSE seen
  /\ UNCHANGED <<statusCh, zdo>>

\* The command fails: the NCP has run it, or not.
CommandFails(p) ==
  /\ Issues(p) /\ At(p).at \notin Local
  /\ (\E v \in Answers : NcpRuns(p, v)) \/ UNCHANGED network
  /\ Fails(p)
  /\ removeZDOWaiter(p)
  /\ UNCHANGED <<seen, statusCh, zdo>>

\* The response of a device, of whichever device it is, or 10s without one.
AwaitZDO(p) ==
  /\ Busy(p) /\ stage[p] = "sent"
  /\ IF zdo[p] # None /\ zdo[p].val = "good" THEN NextStep(p) ELSE Fails(p)
  /\ zdo' = [zdo EXCEPT ![p] = None]
  /\ removeZDOWaiter(p)
  /\ UNCHANGED <<seen, statusCh, network>>

\* One buffered status, within 200ms.
Peek(p) ==
  /\ Reached(p, "peek")
  /\ IF statusCh = <<>> THEN UNCHANGED statusCh /\ Jump(p, "security")
     ELSE /\ statusCh' = Tail(statusCh)
          /\ IF Head(statusCh) = "up" THEN Ends(p, "ok") ELSE Jump(p, "security")
  /\ UNCHANGED <<stage, seen, waiter, zdo, network>>

\* A status, else a poll every 2s, until 45s are over.
WaitFormed(p) ==
  /\ Reached(p, "wait")
  /\ IF statusCh # <<>>
     THEN statusCh' = Tail(statusCh) /\ Ends(p, IF Head(statusCh) = "up" THEN "ok" ELSE "error")
     ELSE /\ IF pos[p].t <= At(p).tries THEN Goes(p, pos[p].i + 1, pos[p].t) ELSE Ends(p, "error")
          /\ UNCHANGED statusCh
  /\ UNCHANGED <<stage, seen, waiter, zdo, network>>

\* A status goes to stackStatusCh unless it is full, a ZDO response to the
\* waiter for its cluster, if its channel has room.
handleCallback ==
  /\ notify # <<>> /\ notify' = Tail(notify)
  /\ LET f == Head(notify) IN
       /\ statusCh' = IF f.kind = "status" /\ Len(statusCh) < StatusCap THEN Append(statusCh, f.val)
                      ELSE statusCh
       /\ zdo' = [p \in Caller |->
                    IF f.kind \in Clusters /\ waiter[f.kind] = p /\ zdo[p] = None THEN f.val ELSE zdo[p]]
  /\ UNCHANGED <<ops, waiter, net, cur, tokens, key>>

-----------------------------------------------------------------------------

\* The callers with the operations w, and the NCP in network state n with tokens t.
EmberInit(w, n, t) ==
  /\ work = w
  /\ pos = [p \in Caller |-> [i |-> 1, t |-> 1]]
  /\ stage = [p \in Caller |-> "issue"]
  /\ seen = [p \in Caller |-> None]
  /\ result = [p \in Caller |-> None]
  /\ statusCh = <<>>
  /\ waiter = [c \in Clusters |-> None]
  /\ zdo = [p \in Caller |-> None]
  /\ net = n /\ tokens = t /\ cur = (IF n = "up" THEN t ELSE None)
  /\ key = None /\ notify = <<>>

OperationStep(p) ==
  registerZDOWaiter(p) \/ sendEZSPCommand(p) \/ CommandFails(p) \/ AwaitZDO(p) \/ Peek(p) \/ WaitFormed(p)

-----------------------------------------------------------------------------
(* Properties.                                                             *)

\* A ZDO waiter belongs to a caller that is still at the request it registered
\* it for: however the interviews of two devices overlap, none is left behind
\* to take the response of a later one.
WaiterLive == \A c \in Clusters : waiter[c] # None => Busy(waiter[c]) /\ At(waiter[c]).cmd = c

=============================================================================
