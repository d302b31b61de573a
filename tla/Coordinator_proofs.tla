------------------------- MODULE Coordinator_proofs -------------------------
(***************************************************************************)
(* Proofs about Coordinator and the operations of Ember it is built on:    *)
(* the placeholder key never reaches the NCP, the state file keeps the     *)
(* network's identity, and a ZDO waiter never outlives its request; for    *)
(* every set of callers, every scenario and every bound.                   *)
(***************************************************************************)
EXTENDS Coordinator, TLAPS

-----------------------------------------------------------------------------
(* The plans.                                                              *)

\* The operations that neither form a network nor wait for one.
Others == DOMAIN Steps \ Forms

\* Their labels and commands: nothing sets a key or forms a network.
Plain ==
  {"config", "endpoint", "policy", "importKey", "getPolicy", "open", "clearTransient", "close", "unicast",
   "concentrator", "sourceRoute", "state", "params", "nodeId", "parent", "node", "eps", "simple"}

PlainStep == [at : Plain, cmd : Plain, tries : Nat, onError : {"stop", "go"}]

\* The operations by name.
LEMMA OthersAre ==
  Others = {"initEzsp", "GetNetworkInfo", "SetConcentrator", "PermitJoining", "StopJoining", "Send",
            "InterviewDevice"}
BY DEF Others, Forms, Steps

\* Two sequences in a row, and the same step n times.
LEMMA Joined ==
  ASSUME NEW S, NEW a \in Seq(S), NEW b \in Seq(S)
  PROVE  /\ a \o b \in Seq(S)
         /\ Len(a \o b) = Len(a) + Len(b)
         /\ \A i \in 1..Len(a) : (a \o b)[i] = a[i]
         /\ \A i \in 1..Len(b) : (a \o b)[Len(a) + i] = b[i]
OBVIOUS

LEMMA Repeated ==
  ASSUME NEW S, NEW x \in S, NEW n \in Nat
  PROVE  [i \in 1..n |-> x] \in Seq(S)
OBVIOUS

\* Every step of an operation other than FormNetwork is a plain one.
LEMMA OthersPlain ==
  ASSUME NEW op \in Others
  PROVE  Steps[op] \in Seq(PlainStep) /\ Len(Steps[op]) > 0
<1> DEFINE S == PlainStep
<1>1. /\ Stop("policy") \in S /\ Go("endpoint") \in S /\ Go("simple") \in S
      /\ Step("config", "config", 3, "stop") \in S /\ Step("node", "node", 3, "stop") \in S /\ Stop("eps") \in S
  BY DEF PlainStep, Plain, Stop, Go, Step
<1>2. initEzsp \in Seq(S) /\ Len(initEzsp) > 0
  <2> DEFINE a == [i \in 1..Configs |-> Step("config", "config", 3, "stop")]
             b == <<Go("endpoint")>>
             c == [i \in 1..Policies |-> Stop("policy")]
  <2>1. a \in Seq(S) /\ b \in Seq(S) /\ c \in Seq(S) /\ Len(b) = 1
    BY <1>1, Repeated, CountsAssumption
  <2> HIDE DEF S, a, b, c
  <2>2. (a \o b) \in Seq(S) /\ Len(a \o b) > 0
    BY <2>1
  <2>3. (a \o b) \o c \in Seq(S) /\ Len((a \o b) \o c) > 0
    BY <2>1, <2>2
  <2> QED BY <2>3, Zenon DEF initEzsp, a, b, c
<1>3. InterviewDevice \in Seq(S) /\ Len(InterviewDevice) > 0
  <2> DEFINE a == <<Step("node", "node", 3, "stop"), Stop("eps")>>
             b == [i \in 1..Endpoints |-> Go("simple")]
  <2>1. a \in Seq(S) /\ b \in Seq(S) /\ Len(a) = 2
    BY <1>1, Repeated, CountsAssumption
  <2> HIDE DEF S, a, b
  <2>2. a \o b \in Seq(S) /\ Len(a \o b) > 0
    BY <2>1
  <2> QED BY <2>2, Zenon DEF InterviewDevice, a, b
<1>4. GetNetworkInfo \in Seq(S) /\ Len(GetNetworkInfo) > 0
  BY DEF GetNetworkInfo, Stop, Step, PlainStep, Plain
<1>5. SetConcentrator \in Seq(S) /\ Len(SetConcentrator) > 0
  BY DEF SetConcentrator, Stop, Go, Step, PlainStep, Plain
<1>6. PermitJoining(TRUE) \in Seq(S) /\ Len(PermitJoining(TRUE)) > 0
  BY DEF PermitJoining, Stop, Go, Step, PlainStep, Plain
<1>7. PermitJoining(FALSE) \in Seq(S) /\ Len(PermitJoining(FALSE)) > 0
  BY DEF PermitJoining, Stop, Go, Step, PlainStep, Plain
<1>8. Send \in Seq(S) /\ Len(Send) > 0
  BY DEF Send, Stop, Step, PlainStep, Plain
<1> HIDE DEF S
<1>9. /\ Steps["initEzsp"] = initEzsp /\ Steps["InterviewDevice"] = InterviewDevice
      /\ Steps["GetNetworkInfo"] = GetNetworkInfo /\ Steps["SetConcentrator"] = SetConcentrator
      /\ Steps["PermitJoining"] = PermitJoining(TRUE) /\ Steps["StopJoining"] = PermitJoining(FALSE)
      /\ Steps["Send"] = Send
  BY DEF Steps
<1>10. Steps[op] \in Seq(S) /\ Len(Steps[op]) > 0
  BY <1>2, <1>3, <1>4, <1>5, <1>6, <1>7, <1>8, <1>9, OthersAre, Zenon
<1> QED BY <1>10 DEF S

\* The labels and commands of FormNetwork: no request to a device among them.
FormStep ==
  [at : {"leave", "init", "peek", "poll", "isUp", "isAsked", "nodeId", "compare", "leaveOther", "security",
         "extended", "clearKeys", "form", "wait", "waitPoll"},
   cmd : {"leave", "init", "peek", "state", "params", "nodeId", "parent", "security", "extended", "clearKeys",
          "form", "wait"},
   tries : {1, Polls}, onError : {"go", "stop", "accept", "panic"}]

\* The steps of FormNetwork: the labels it jumps to are there, a poll while
\* waiting is not its first step, and the wait not its last.
Formable(s) ==
  /\ s \in Seq(FormStep) /\ Len(s) > 0
  /\ s[1].at # "waitPoll" /\ s[Len(s)].at # "wait"
  /\ \A l \in {"peek", "poll", "security"} : \E i \in 1..Len(s) : s[i].at = l

LEMMA FormNetworkFormable ==
  ASSUME NEW skp \in BOOLEAN
  PROVE  Formable(FormNetwork(skp))
<1> DEFINE S == FormStep
           a == IF skp THEN <<>> ELSE <<Go("leave")>>
           b == <<Go("init"), Go("peek"), Step("poll", "state", Polls, "go")>>
           l == <<Step("leaveOther", "leave", 1, "panic")>>
           g == <<Go("clearKeys"), Go("form"), Step("wait", "wait", Polls, "go"),
                  Step("waitPoll", "state", 1, "go")>>
           s1 == a \o b
           s2 == s1 \o Verify
           s3 == s2 \o l
           s4 == s3 \o setInitialSecurityState
           s5 == s4 \o g
<1>1. a \in Seq(S) /\ (a = <<>> \/ (Len(a) = 1 /\ a[1].at = "leave"))
  <2>1. Go("leave") \in S /\ Go("leave").at = "leave"
    BY DEF Go, Step, FormStep
  <2>2. CASE skp
    BY <2>2
  <2>3. CASE ~skp
    BY <2>1, <2>3
  <2> QED BY <2>2, <2>3
<1>2. b \in Seq(S) /\ Len(b) = 3 /\ b[1].at = "init" /\ b[2].at = "peek" /\ b[3].at = "poll"
  BY DEF Go, Step, FormStep
<1>3. Verify \in Seq(S) /\ Len(Verify) = 4
  BY DEF Verify, Step, FormStep
<1>4. l \in Seq(S) /\ Len(l) = 1
  BY DEF Step, FormStep
<1>5. /\ setInitialSecurityState \in Seq(S) /\ Len(setInitialSecurityState) = 2
      /\ setInitialSecurityState[1].at = "security"
  BY DEF setInitialSecurityState, Stop, Go, Step, FormStep
<1>6. g \in Seq(S) /\ Len(g) = 4 /\ g[4].at = "waitPoll"
  BY DEF Go, Step, FormStep
<1>7. FormNetwork(skp) = s5
  BY DEF FormNetwork
<1> HIDE DEF S, a, b, l, g
<1>8. /\ s1 \in Seq(S) /\ Len(s1) = Len(a) + Len(b)
      /\ \A i \in 1..Len(a) : s1[i] = a[i]
      /\ \A i \in 1..Len(b) : s1[Len(a) + i] = b[i]
  <2>1. a \in Seq(S) /\ b \in Seq(S)
    BY <1>1, <1>2
  <2> QED BY <2>1, Joined
<1> HIDE DEF s1
<1>9. /\ s2 \in Seq(S) /\ Len(s2) = Len(s1) + Len(Verify)
      /\ \A i \in 1..Len(s1) : s2[i] = s1[i]
  <2>1. s1 \in Seq(S) /\ Verify \in Seq(S)
    BY <1>3, <1>8
  <2> QED BY <2>1, Joined
<1> HIDE DEF s2
<1>10. /\ s3 \in Seq(S) /\ Len(s3) = Len(s2) + Len(l)
       /\ \A i \in 1..Len(s2) : s3[i] = s2[i]
  <2>1. s2 \in Seq(S) /\ l \in Seq(S)
    BY <1>4, <1>9
  <2> QED BY <2>1, Joined
<1> HIDE DEF s3
<1>11. /\ s4 \in Seq(S) /\ Len(s4) = Len(s3) + Len(setInitialSecurityState)
       /\ \A i \in 1..Len(s3) : s4[i] = s3[i]
       /\ \A i \in 1..Len(setInitialSecurityState) : s4[Len(s3) + i] = setInitialSecurityState[i]
  <2>1. s3 \in Seq(S) /\ setInitialSecurityState \in Seq(S)
    BY <1>5, <1>10
  <2> QED BY <2>1, Joined
<1> HIDE DEF s4
<1>12. /\ s5 \in Seq(S) /\ Len(s5) = Len(s4) + Len(g)
       /\ \A i \in 1..Len(s4) : s5[i] = s4[i]
       /\ \A i \in 1..Len(g) : s5[Len(s4) + i] = g[i]
  <2>1. s4 \in Seq(S) /\ g \in Seq(S)
    BY <1>6, <1>11
  <2> QED BY <2>1, Joined
<1> HIDE DEF s5
<1>13. /\ Len(a) \in Nat /\ Len(s1) = Len(a) + 3 /\ Len(s2) = Len(s1) + 4 /\ Len(s3) = Len(s2) + 1
       /\ Len(s4) = Len(s3) + 2 /\ Len(s5) = Len(s4) + 4
  BY <1>1, <1>2, <1>3, <1>4, <1>5, <1>6, <1>8, <1>9, <1>10, <1>11, <1>12
<1>14. \A i \in 1..Len(s1) : i \in 1..Len(s5) /\ s5[i] = s1[i]
  BY <1>9, <1>10, <1>11, <1>12, <1>13
<1>15. /\ Len(a) + 2 \in 1..Len(s5) /\ s5[Len(a) + 2].at = "peek"
       /\ Len(a) + 3 \in 1..Len(s5) /\ s5[Len(a) + 3].at = "poll"
  BY <1>2, <1>8, <1>13, <1>14
<1>16. Len(s3) + 1 \in 1..Len(s5) /\ s5[Len(s3) + 1].at = "security"
  <2>1. 1 \in 1..Len(setInitialSecurityState) /\ Len(s3) + 1 \in 1..Len(s4) /\ Len(s3) + 1 \in 1..Len(s5)
    BY <1>5, <1>13
  <2>2. s4[Len(s3) + 1] = setInitialSecurityState[1]
    BY <1>11, <2>1
  <2>3. s5[Len(s3) + 1] = s4[Len(s3) + 1]
    BY <1>12, <2>1
  <2> QED BY <2>1, <2>2, <2>3, <1>5
<1>17. s5[1].at # "waitPoll"
  <2>1. CASE a = <<>>
    <3>1. Len(a) = 0 /\ s1[Len(a) + 1] = b[1]
      BY <2>1, <1>2, <1>8
    <3> QED BY <3>1, <1>2, <1>13, <1>14
  <2>2. CASE Len(a) = 1 /\ a[1].at = "leave"
    BY <2>2, <1>8, <1>13, <1>14
  <2> QED BY <1>1, <2>1, <2>2
<1>18. s5[Len(s5)].at # "wait"
  BY <1>6, <1>12, <1>13
<1>19. \A m \in {"peek", "poll", "security"} : \E i \in 1..Len(s5) : s5[i].at = m
  BY <1>15, <1>16
<1> QED BY <1>7, <1>12, <1>13, <1>17, <1>18, <1>19 DEF Formable, S

LEMMA FormsFormable ==
  ASSUME NEW op \in Forms
  PROVE  Formable(Steps[op])
<1>1. Steps["FormNetwork"] = FormNetwork(FALSE) /\ Steps["FormNetworkSkippingLeave"] = FormNetwork(TRUE)
  BY DEF Steps
<1>2. Formable(FormNetwork(FALSE)) /\ Formable(FormNetwork(TRUE))
  BY FormNetworkFormable, Zenon
<1> QED BY <1>1, <1>2, Zenon DEF Forms

-----------------------------------------------------------------------------
(* The inductive invariant.                                                *)

\* What the variables of the operations hold, and those of the network.
OpsTyped ==
  /\ work = [p \in Caller |-> work[p]]
  /\ pos = [p \in Caller |-> pos[p]]
  /\ \A p \in Caller : pos[p].t \in Nat
  /\ stage \in [Caller -> {"issue", "ready", "sent"}]
  /\ waiter \in [Clusters -> Caller \cup {None}]

NetTyped ==
  /\ seen \in [Caller -> Nat \cup {None}]
  /\ cur \in Network \cup {None} /\ tokens \in Network \cup {None}
  /\ key \in Nat \cup {None} /\ fresh \in Nat

\* An operation is at a step of its plan, and one that forms a network has a
\* real key to do it with.
Planned ==
  \A p \in Caller : Busy(p) =>
    /\ pos[p].i \in 1..Len(Plan(p))
    /\ \/ work[p].op \in Forms /\ work[p].arg \in Network /\ work[p].arg.key # ZeroKey
       \/ work[p].op \in Others

\* Nothing the NCP has, or has stored, is under the placeholder key.
Keyed == NeverZeroKey /\ (tokens # None => tokens.key # ZeroKey)

\* A waiter belongs to a request that is being made.
Waits ==
  \A c \in Clusters : waiter[c] # None =>
    Busy(waiter[c]) /\ At(waiter[c]).cmd = c /\ stage[waiter[c]] # "issue"

\* What is about to be formed or saved is the network of the file, if there is
\* one; a file that cannot be loaded has no identity, except while it is written.
Identified ==
  /\ file \in Network \cup {None, Bad}
  /\ SourceOfTruth
  /\ ~Loaded /\ phase # "write" => identity = None
  /\ phase = "write" => file = Bad
  /\ phase \in {"form", "save", "write"} =>
       wanted \in Network /\ (identity # None => wanted.id = identity)

OpsInv == OpsTyped /\ Planned /\ Waits
NcpInv == NetTyped /\ Keyed
IInv == OpsInv /\ NcpInv /\ Identified

-----------------------------------------------------------------------------
(* One attempt of a step.                                                  *)

\* An operation ends, or goes to a step of its plan.
Moves(p) ==
  \/ \E r : Ends(p, r)
  \/ \E i \in 1..Len(Plan(p)), t \in Nat : Goes(p, i, t)

\* The step of an operation, by the kind of the operation.
LEMMA AtStep ==
  ASSUME Planned, NEW p \in Caller, Busy(p)
  PROVE  /\ Len(Plan(p)) \in Nat
         /\ \/ work[p].op \in Forms /\ At(p) \in FormStep /\ Formable(Plan(p))
            \/ work[p].op \in Others /\ At(p) \in PlainStep
<1>1. CASE work[p].op \in Forms
  <2>1. Formable(Plan(p))
    BY <1>1, FormsFormable DEF Plan
  <2> DEFINE s == Plan(p)
             S == FormStep
  <2>2. s \in Seq(S) /\ pos[p].i \in 1..Len(s)
    BY <2>1 DEF Formable, Planned
  <2> HIDE DEF s, S
  <2>3. s[pos[p].i] \in S /\ Len(s) \in Nat
    BY <2>2
  <2> QED BY <1>1, <2>1, <2>3 DEF s, S, At
<1>2. CASE work[p].op \in Others
  <2> DEFINE s == Plan(p)
             S == PlainStep
  <2>2. s \in Seq(S) /\ pos[p].i \in 1..Len(s)
    BY <1>2, OthersPlain DEF Planned, Plan
  <2> HIDE DEF s, S
  <2>3. s[pos[p].i] \in S /\ Len(s) \in Nat
    BY <2>2
  <2> QED BY <1>2, <2>3 DEF s, S, At
<1> QED BY <1>1, <1>2 DEF Planned

\* What the commands and labels tell about the operation.
LEMMA Labels ==
  ASSUME Planned, NEW p \in Caller, Busy(p)
  PROVE  /\ At(p).cmd \in {"security", "form"} => work[p].op \in Forms
         /\ At(p).cmd \in Clusters => work[p].op \in Others
         /\ At(p).at \in {"init", "poll", "peek", "wait", "waitPoll"} =>
              work[p].op \in Forms /\ At(p).cmd \notin Clusters /\ Formable(Plan(p))
<1>1. CASE work[p].op \in Forms /\ At(p) \in FormStep /\ Formable(Plan(p))
  BY <1>1 DEF FormStep, Clusters
<1>2. CASE work[p].op \in Others /\ At(p) \in PlainStep
  BY <1>2 DEF PlainStep, Plain
<1> QED BY <1>1, <1>2, AtStep

LEMMA NextStepMoves ==
  ASSUME Planned, NEW p \in Caller, Busy(p), NextStep(p)
  PROVE  Moves(p)
<1>1. pos[p].i \in 1..Len(Plan(p)) /\ Len(Plan(p)) \in Nat
  BY AtStep DEF Planned
<1>2. CASE pos[p].i = Len(Plan(p))
  BY <1>2 DEF NextStep, Moves
<1>3. CASE pos[p].i # Len(Plan(p))
  <2>1. Goes(p, pos[p].i + 1, 1) /\ pos[p].i + 1 \in 1..Len(Plan(p)) /\ 1 \in Nat
    BY <1>1, <1>3 DEF NextStep
  <2> QED BY <2>1 DEF Moves
<1> QED BY <1>2, <1>3

LEMMA JumpMoves ==
  ASSUME NEW p \in Caller, NEW l \in {"peek", "poll", "security"}, Formable(Plan(p)), Jump(p, l)
  PROVE  Moves(p)
<1> DEFINE s == Plan(p)
           i == CHOOSE i \in DOMAIN s : s[i].at = l
<1>1. \E k \in DOMAIN s : s[k].at = l
  BY DEF Formable
<1>2. i \in DOMAIN s
  BY <1>1
<1>3. DOMAIN s = 1..Len(s)
  BY DEF Formable
<1>4. Goes(p, i, 1)
  BY DEF Jump
<1> QED BY <1>2, <1>3, <1>4 DEF Moves

LEMMA FailsMoves ==
  ASSUME OpsTyped, Planned, NEW p \in Caller, Busy(p), Fails(p)
  PROVE  Moves(p)
<1>1. /\ pos[p].i \in 1..Len(Plan(p)) /\ Len(Plan(p)) \in Nat
      /\ pos[p].t \in Nat /\ pos[p].t + 1 \in Nat
  BY AtStep DEF Planned, OpsTyped
<1>2. CASE At(p).at = "waitPoll"
  <2>1. Goes(p, pos[p].i - 1, pos[p].t + 1)
    BY <1>2 DEF Fails
  <2>2. Formable(Plan(p)) /\ Plan(p)[pos[p].i].at = "waitPoll"
    BY <1>2, Labels DEF At
  <2>3. pos[p].i # 1
    BY <2>2 DEF Formable
  <2>4. pos[p].i - 1 \in 1..Len(Plan(p))
    BY <2>3, <1>1
  <2> QED BY <2>1, <2>4, <1>1 DEF Moves
<1>3. CASE At(p).at # "waitPoll" /\ pos[p].t < At(p).tries
  <2>1. Goes(p, pos[p].i, pos[p].t + 1)
    BY <1>3 DEF Fails
  <2> QED BY <2>1, <1>1 DEF Moves
<1>4. CASE At(p).at # "waitPoll" /\ ~(pos[p].t < At(p).tries)
  <2>1. \/ Ends(p, "error") \/ Ends(p, "ok") \/ Ends(p, "panic")
        \/ At(p).at \in {"init", "poll"} /\ Jump(p, "security")
        \/ NextStep(p)
    BY <1>4 DEF Fails
  <2>2. CASE At(p).at \in {"init", "poll"} /\ Jump(p, "security")
    BY <2>2, Labels, JumpMoves
  <2> QED BY <2>1, <2>2, NextStepMoves DEF Moves
<1> QED BY <1>2, <1>3, <1>4

LEMMA SucceedsMoves ==
  ASSUME OpsTyped, Planned, NEW p \in Caller, Busy(p), NEW v, Succeeds(p, v)
  PROVE  Moves(p)
<1>1. \/ At(p).at = "init" /\ \E l \in {"peek", "poll", "security"} : Jump(p, l)
      \/ NextStep(p) \/ Fails(p) \/ Ends(p, "ok") \/ Ends(p, "error")
  BY DEF Succeeds
<1>2. CASE At(p).at = "init" /\ \E l \in {"peek", "poll", "security"} : Jump(p, l)
  BY <1>2, Labels, JumpMoves
<1> QED BY <1>1, <1>2, NextStepMoves, FailsMoves DEF Moves

\* The end of an attempt keeps the invariant: when the request goes on, so does
\* its waiter, and when it does not, no waiter is left for its cluster.
LEMMA Moved ==
  ASSUME OpsInv, NEW p \in Caller, Busy(p), Moves(p), removeZDOWaiter(p)
  PROVE  OpsInv'
<1> DEFINE again == pos'[p] = [i |-> pos[p].i, t |-> pos[p].t + 1]
<1>1. /\ work' = [q \in Caller |-> work'[q]] /\ pos' = [q \in Caller |-> pos'[q]]
      /\ \A q \in Caller : pos'[q].t \in Nat
  <2>1. CASE \E r : Ends(p, r)
    BY <2>1, Zenon DEF OpsInv, OpsTyped, Ends
  <2>2. CASE \E i \in 1..Len(Plan(p)), t \in Nat : Goes(p, i, t)
    BY <2>2 DEF OpsInv, OpsTyped, Goes
  <2> QED BY <2>1, <2>2 DEF Moves
<1>2. \A q \in Caller \ {p} : work'[q] = work[q] /\ pos'[q] = pos[q]
  BY DEF Moves, OpsInv, OpsTyped, Ends, Goes
<1>3. \/ work'[p] = None /\ pos'[p] = pos[p]
      \/ work'[p] = work[p] /\ pos'[p].i \in 1..Len(Plan(p))
  <2>1. CASE \E r : Ends(p, r)
    BY <2>1 DEF OpsInv, OpsTyped, Ends
  <2>2. CASE \E i \in 1..Len(Plan(p)), t \in Nat : Goes(p, i, t)
    BY <2>2 DEF OpsInv, OpsTyped, Goes
  <2> QED BY <2>1, <2>2 DEF Moves
<1>4. Planned'
  <2> SUFFICES ASSUME NEW q \in Caller, Busy(q)'
               PROVE  /\ pos'[q].i \in 1..Len(Plan(q)')
                      /\ \/ work'[q].op \in Forms /\ work'[q].arg \in Network /\ work'[q].arg.key # ZeroKey
                         \/ work'[q].op \in Others
    BY DEF Planned
  <2>1. work'[q] = work[q] /\ Busy(q)
    BY <1>2, <1>3 DEF Busy
  <2>2. Plan(q)' = Plan(q)
    BY <2>1 DEF Plan
  <2>3. pos'[q].i \in 1..Len(Plan(q))
    BY <1>2, <1>3, <2>1 DEF OpsInv, Planned, Busy
  <2> QED BY <2>1, <2>2, <2>3 DEF OpsInv, Planned
<1>5. again => work'[p] = work[p] /\ At(p)' = At(p)
  <2> SUFFICES ASSUME again PROVE work'[p] = work[p] /\ At(p)' = At(p)
    OBVIOUS
  <2>1. pos'[p].i = pos[p].i /\ pos'[p].t = pos[p].t + 1
    OBVIOUS
  <2>2. pos'[p] # pos[p]
    BY <2>1 DEF OpsInv, OpsTyped
  <2>3. work'[p] = work[p]
    BY <1>3, <2>2
  <2> QED BY <2>1, <2>3 DEF At, Plan
<1>6. \A q \in Caller \ {p} : (Busy(q)' <=> Busy(q)) /\ At(q)' = At(q)
  BY <1>2 DEF Busy, At, Plan
<1>7. /\ stage' \in [Caller -> {"issue", "ready", "sent"}]
      /\ waiter' \in [Clusters -> Caller \cup {None}]
      /\ \A q \in Caller \ {p} : stage'[q] = stage[q]
  BY DEF removeZDOWaiter, OpsInv, OpsTyped
<1>8. ASSUME NEW c \in Clusters, waiter'[c] # None
      PROVE  Busy(waiter[c])' /\ At(waiter[c])'.cmd = c /\ stage'[waiter'[c]] # "issue"
  <2>1. waiter'[c] = waiter[c] /\ waiter[c] \in Caller
    BY <1>8 DEF removeZDOWaiter, OpsInv, OpsTyped
  <2>2. Busy(waiter[c]) /\ At(waiter[c]).cmd = c /\ stage[waiter[c]] # "issue"
    BY <1>8, <2>1 DEF OpsInv, Waits
  <2>3. CASE waiter[c] # p
    BY <2>1, <2>2, <2>3, <1>6, <1>7, Zenon DEF Busy, At, Plan
  <2>4. CASE waiter[c] = p
    <3>1. At(p).cmd = c
      BY <2>2, <2>4
    <3>2. again /\ stage'[p] = "ready"
      BY <3>1, <1>8, NoneAssumption DEF removeZDOWaiter, OpsInv, OpsTyped
    <3> QED BY <3>1, <3>2, <2>1, <2>2, <2>4, <1>5 DEF Busy, At, Plan
  <2> QED BY <2>3, <2>4
<1> QED BY <1>1, <1>4, <1>7, <1>8, Zenon DEF OpsInv, OpsTyped, Waits, Busy, At, Plan

\* A request that registers its waiter displaces only the waiter of its cluster.
LEMMA Registered ==
  ASSUME OpsInv, NEW p \in Caller, registerZDOWaiter(p)
  PROVE  OpsInv'
<1>1. UNCHANGED <<work, pos>> /\ Busy(p) /\ At(p).cmd \in Clusters
  BY DEF registerZDOWaiter
<1>2. \A q \in Caller : Busy(q)' = Busy(q) /\ At(q)' = At(q) /\ Plan(q)' = Plan(q)
  BY <1>1 DEF Busy, At, Plan
<1>3. /\ stage' \in [Caller -> {"issue", "ready", "sent"}]
      /\ stage'[p] = "ready" /\ \A q \in Caller \ {p} : stage'[q] = stage[q]
  BY DEF registerZDOWaiter, OpsInv, OpsTyped
<1>4. /\ waiter' \in [Clusters -> Caller \cup {None}]
      /\ waiter'[At(p).cmd] = p /\ \A c \in Clusters \ {At(p).cmd} : waiter'[c] = waiter[c]
  BY <1>1 DEF registerZDOWaiter, OpsInv, OpsTyped
<1>5. ASSUME NEW c \in Clusters, waiter'[c] # None
      PROVE  Busy(waiter[c])' /\ At(waiter[c])'.cmd = c /\ stage'[waiter'[c]] # "issue"
  <2>1. CASE c = At(p).cmd
    <3>1. waiter'[c] = p /\ stage'[p] # "issue"
      BY <2>1, <1>3, <1>4
    <3> QED BY <3>1, <2>1, <1>1 DEF Busy, At, Plan
  <2>2. CASE c # At(p).cmd
    <3>1. waiter'[c] = waiter[c] /\ waiter[c] \in Caller
      BY <2>2, <1>4, <1>5 DEF OpsInv, OpsTyped
    <3>2. Busy(waiter[c]) /\ At(waiter[c]).cmd = c /\ stage[waiter[c]] # "issue"
      BY <3>1, <1>5 DEF OpsInv, Waits
    <3>3. stage'[waiter[c]] # "issue"
      BY <3>1, <3>2, <1>3
    <3> QED BY <3>1, <3>2, <3>3, <1>1, Zenon DEF Busy, At, Plan
  <2> QED BY <2>1, <2>2
<1>6. Planned'
  BY <1>1 DEF OpsInv, Planned, Busy, Plan
<1> QED BY <1>1, <1>3, <1>4, <1>5, <1>6, Zenon DEF OpsInv, OpsTyped, Waits, Busy, At, Plan

\* A request that is sent keeps its waiter.
LEMMA Sent ==
  ASSUME OpsInv, NEW p \in Caller, stage' = [stage EXCEPT ![p] = "sent"], UNCHANGED <<work, pos, waiter>>
  PROVE  OpsInv'
<1>1. Planned'
  BY DEF OpsInv, Planned, Busy, Plan
<1>2. stage' \in [Caller -> {"issue", "ready", "sent"}] /\ \A q \in Caller : stage'[q] \in {"sent", stage[q]}
  BY DEF OpsInv, OpsTyped
<1>3. ASSUME NEW c \in Clusters, waiter[c] # None
      PROVE  Busy(waiter[c])' /\ At(waiter[c])'.cmd = c /\ stage'[waiter[c]] # "issue"
  <2>1. Busy(waiter[c]) /\ At(waiter[c]).cmd = c /\ stage[waiter[c]] # "issue" /\ waiter[c] \in Caller
    BY <1>3 DEF OpsInv, OpsTyped, Waits
  <2> QED BY <2>1, <1>2 DEF Busy, At, Plan
<1>4. Waits'
  BY <1>3 DEF Waits, Busy, At, Plan
<1> QED BY <1>1, <1>2, <1>4 DEF OpsInv, OpsTyped

\* An operation starts at its first step, with no waiter.
LEMMA Called ==
  ASSUME OpsInv, NEW p \in Caller, NEW op, NEW arg, Call(p, op, arg), UNCHANGED waiter,
         op \in Others \/ (op \in Forms /\ arg \in Network /\ arg.key # ZeroKey)
  PROVE  OpsInv'
<1>1. /\ work'[p] = [op |-> op, arg |-> arg] /\ pos'[p] = [i |-> 1, t |-> 1]
      /\ work' = [q \in Caller |-> work'[q]] /\ pos' = [q \in Caller |-> pos'[q]]
      /\ \A q \in Caller \ {p} : work'[q] = work[q] /\ pos'[q] = pos[q] /\ stage'[q] = stage[q]
      /\ stage' \in [Caller -> {"issue", "ready", "sent"}]
  BY Zenon DEF Call, OpsInv, OpsTyped
<1>2. Len(Steps[op]) \in Nat /\ Len(Steps[op]) > 0
  <2>1. CASE op \in Others
    BY <2>1, OthersPlain
  <2>2. CASE op \in Forms
    BY <2>2, FormsFormable DEF Formable
  <2> QED BY <2>1, <2>2
<1>3. Planned'
  <2> SUFFICES ASSUME NEW q \in Caller, Busy(q)'
               PROVE  /\ pos'[q].i \in 1..Len(Plan(q)')
                      /\ \/ work'[q].op \in Forms /\ work'[q].arg \in Network /\ work'[q].arg.key # ZeroKey
                         \/ work'[q].op \in Others
    BY DEF Planned
  <2>1. CASE q = p
    <3>1. work'[q].op = op /\ work'[q].arg = arg /\ pos'[q].i = 1
      BY <2>1, <1>1
    <3>2. Plan(q)' = Steps[op]
      BY <3>1 DEF Plan
    <3> QED BY <3>1, <3>2, <1>2
  <2>2. CASE q # p
    <3>1. work'[q] = work[q] /\ pos'[q] = pos[q]
      BY <2>2, <1>1
    <3> QED BY <3>1 DEF OpsInv, Planned, Busy, Plan
  <2> QED BY <2>1, <2>2
<1>4. ~Busy(p) /\ \A q \in Caller \ {p} : Busy(q) => Busy(q)' /\ At(q)' = At(q)
  BY <1>1 DEF Call, Busy, At, Plan
<1>5. Waits'
  <2> SUFFICES ASSUME NEW c \in Clusters, waiter[c] # None
               PROVE  Busy(waiter[c])' /\ At(waiter[c])'.cmd = c /\ stage'[waiter'[c]] # "issue"
    BY DEF Waits, Busy, At, Plan
  <2>1. waiter[c] \in Caller \ {p}
    BY <1>4 DEF OpsInv, OpsTyped, Waits
  <2>2. Busy(waiter[c]) /\ At(waiter[c]).cmd = c /\ stage[waiter[c]] # "issue"
    BY DEF OpsInv, Waits
  <2> QED BY <2>1, <2>2, <1>1, Zenon DEF Busy, At, Plan
<1>6. \A q \in Caller : pos'[q].t \in Nat
  BY <1>1 DEF OpsInv, OpsTyped
<1> QED BY <1>1, <1>3, <1>5, <1>6 DEF OpsInv, OpsTyped

\* A process that is gone leaves no operation and no waiter.
LEMMA Died ==
  ASSUME Die
  PROVE  OpsInv' /\ seen' \in [Caller -> Nat \cup {None}]
BY DEF Die, OpsInv, OpsTyped, Planned, Waits, Busy

\* Nothing happens to the operations.
LEMMA OpsKept ==
  ASSUME OpsInv, UNCHANGED <<work, pos, stage, waiter>>
  PROVE  OpsInv'
<1>1. Planned'
  BY DEF OpsInv, Planned, Busy, Plan
<1>2. Waits'
  BY DEF OpsInv, Waits, Busy, At, Plan
<1> QED BY <1>1, <1>2 DEF OpsInv, OpsTyped

-----------------------------------------------------------------------------
(* The NCP.                                                                *)

\* A command leaves the NCP with a real key, if any.
LEMMA Ran ==
  ASSUME Planned, NcpInv, NEW p \in Caller, Busy(p), NEW v, NcpRuns(p, v)
  PROVE  /\ cur' \in Network \cup {None} /\ tokens' \in Network \cup {None} /\ key' \in Nat \cup {None}
         /\ Keyed'
<1> USE DEF NcpInv, NetTyped, Keyed, NeverZeroKey
<1>1. At(p).cmd \in {"security", "form"} => work[p].arg \in Network /\ work[p].arg.key # ZeroKey
  <2> SUFFICES ASSUME At(p).cmd \in {"security", "form"}
               PROVE  work[p].arg \in Network /\ work[p].arg.key # ZeroKey
    OBVIOUS
  <2>1. work[p].op \in Forms
    BY Labels
  <2> QED BY <2>1 DEF Planned, Others
<1>2. CASE NcpLeaves(v)
  BY <1>2 DEF NcpLeaves
<1>3. CASE NcpInits(v)
  BY <1>3 DEF NcpInits
<1>4. CASE At(p).cmd = "security" /\ NcpSecures(v, work[p].arg)
  BY <1>1, <1>4 DEF NcpSecures, Network
<1>5. CASE At(p).cmd = "form" /\ NcpForms(v, work[p].arg)
  <2>1. \A n \in Network : n.id \in Nat
    BY DEF Network
  <2>2. [id |-> work[p].arg.id, key |-> key] \in Network
    BY <1>1, <1>5, <2>1 DEF Network
  <2> QED BY <1>5, <2>2 DEF NcpForms
<1>6. CASE UNCHANGED <<cur, tokens, key>>
  BY <1>6
<1>7. \/ NcpLeaves(v) \/ NcpInits(v)
      \/ At(p).cmd = "security" /\ NcpSecures(v, work[p].arg)
      \/ At(p).cmd = "form" /\ NcpForms(v, work[p].arg)
      \/ UNCHANGED <<cur, tokens, key>>
  BY DEF NcpRuns, NcpPermits, NcpRelays, NcpTells, network
<1> QED BY <1>2, <1>3, <1>4, <1>5, <1>6, <1>7

\* What stays when neither the NCP nor the random values change.
LEMMA NcpKept ==
  ASSUME NcpInv, UNCHANGED <<cur, tokens, key, fresh>>, seen' \in [Caller -> Nat \cup {None}]
  PROVE  NcpInv'
BY DEF NcpInv, NetTyped, Keyed, NeverZeroKey

\* A step of an operation keeps the invariant of the operations and of the NCP.
LEMMA OperationKeeps ==
  ASSUME OpsInv, NcpInv, NEW p \in Caller, OperationStep(p), UNCHANGED fresh
  PROVE  OpsInv' /\ NcpInv'
<1> USE DEF network
<1>1. OpsTyped /\ Planned /\ NetTyped
  BY DEF OpsInv, NcpInv
<1>2. CASE registerZDOWaiter(p)
  <2>1. OpsInv'
    BY <1>2, Registered
  <2>2. NcpInv'
    BY <1>1, <1>2, NcpKept DEF registerZDOWaiter, NetTyped
  <2> QED BY <2>1, <2>2
<1>3. CASE sendEZSPCommand(p)
  <2>1. PICK v \in Answers :
          /\ NcpRuns(p, v)
          /\ IF At(p).cmd \in Clusters /\ v = "ok"
             THEN stage' = [stage EXCEPT ![p] = "sent"] /\ UNCHANGED <<work, pos, result, waiter>>
             ELSE /\ IF At(p).cmd \in Clusters THEN Fails(p) ELSE Succeeds(p, v)
                  /\ removeZDOWaiter(p)
    BY <1>3 DEF sendEZSPCommand
  <2>2. Busy(p)
    BY <1>3 DEF sendEZSPCommand, Issues
  <2>3. OpsInv'
    <3>1. CASE At(p).cmd \in Clusters /\ v = "ok"
      BY <2>1, <3>1, Sent
    <3>2. CASE ~(At(p).cmd \in Clusters /\ v = "ok")
      <4>1. Moves(p) /\ removeZDOWaiter(p)
        BY <1>1, <2>1, <2>2, <3>2, FailsMoves, SucceedsMoves
      <4> QED BY <4>1, <2>2, Moved
    <3> QED BY <3>1, <3>2
  <2>4. seen' \in [Caller -> Nat \cup {None}]
    <3>1. cur # None => cur.id \in Nat
      BY <1>1 DEF NetTyped, Network
    <3> QED BY <3>1, <1>1, <1>3 DEF sendEZSPCommand, NetTyped
  <2>5. /\ cur' \in Network \cup {None} /\ tokens' \in Network \cup {None} /\ key' \in Nat \cup {None}
        /\ Keyed'
    BY <1>1, <2>1, <2>2, Ran
  <2>6. fresh' \in Nat
    BY <1>1 DEF NetTyped
  <2> QED BY <2>3, <2>4, <2>5, <2>6 DEF NcpInv, NetTyped
<1>4. CASE CommandFails(p)
  <2>1. Busy(p) /\ Fails(p) /\ removeZDOWaiter(p) /\ UNCHANGED seen
    BY <1>4 DEF CommandFails, Issues
  <2>2. OpsInv'
    BY <1>1, <2>1, FailsMoves, Moved
  <2>3. CASE \E v \in Answers : NcpRuns(p, v)
    <3>1. /\ cur' \in Network \cup {None} /\ tokens' \in Network \cup {None} /\ key' \in Nat \cup {None}
          /\ Keyed'
      BY <1>1, <2>1, <2>3, Ran
    <3> QED BY <3>1, <2>1, <2>2, <1>1 DEF NcpInv, NetTyped
  <2>4. CASE UNCHANGED network
    BY <2>1, <2>2, <2>4, <1>1, NcpKept DEF NetTyped
  <2> QED BY <1>4, <2>3, <2>4 DEF CommandFails
<1>5. CASE AwaitZDO(p)
  <2>1. Busy(p) /\ (NextStep(p) \/ Fails(p)) /\ removeZDOWaiter(p)
    BY <1>5 DEF AwaitZDO
  <2>2. OpsInv'
    BY <1>1, <2>1, NextStepMoves, FailsMoves, Moved
  <2> QED BY <2>2, <1>1, <1>5, NcpKept DEF AwaitZDO, NetTyped
<1>6. CASE Peek(p)
  <2>1. Busy(p) /\ At(p).cmd \notin Clusters /\ Formable(Plan(p))
    BY <1>1, <1>6, Labels DEF Peek, Reached
  <2>2. Ends(p, "ok") \/ Jump(p, "security")
    BY <1>6 DEF Peek
  <2>3. Moves(p)
    BY <2>1, <2>2, JumpMoves DEF Moves
  <2>4. removeZDOWaiter(p)
    BY <1>6, <2>1, Zenon DEF Peek, removeZDOWaiter
  <2>5. OpsInv'
    BY <2>1, <2>3, <2>4, Moved
  <2> QED BY <2>5, <1>1, <1>6, NcpKept DEF Peek, NetTyped
<1>7. CASE WaitFormed(p)
  <2>1. Busy(p) /\ At(p).at = "wait" /\ At(p).cmd \notin Clusters /\ Formable(Plan(p))
    BY <1>1, <1>7, Labels DEF WaitFormed, Reached
  <2>2. Ends(p, "ok") \/ Ends(p, "error") \/ Goes(p, pos[p].i + 1, pos[p].t)
    BY <1>7 DEF WaitFormed
  <2>3. pos[p].i + 1 \in 1..Len(Plan(p)) /\ pos[p].t \in Nat
    <3>1. pos[p].i \in 1..Len(Plan(p)) /\ Len(Plan(p)) \in Nat /\ pos[p].t \in Nat
      BY <1>1, <2>1, AtStep DEF Planned, OpsTyped
    <3>2. pos[p].i # Len(Plan(p))
      BY <2>1 DEF Formable, At
    <3> QED BY <3>1, <3>2
  <2>4. Moves(p)
    BY <2>2, <2>3 DEF Moves
  <2>5. removeZDOWaiter(p)
    BY <1>7, <2>1 DEF WaitFormed, removeZDOWaiter
  <2>6. OpsInv'
    BY <2>1, <2>4, <2>5, Moved
  <2> QED BY <2>6, <1>1, <1>7, NcpKept DEF WaitFormed, NetTyped
<1> QED BY <1>2, <1>3, <1>4, <1>5, <1>6, <1>7 DEF OperationStep

-----------------------------------------------------------------------------
(* The coordinator.                                                        *)

\* Main or Clock calls an operation that is not FormNetwork.
LEMMA CalledOther ==
  ASSUME OpsInv, NetTyped, NEW p \in {Main, Clock}, NEW op \in Others, Call(p, op, None), UNCHANGED waiter
  PROVE  OpsInv' /\ seen' \in [Caller -> Nat \cup {None}]
<1>1. p \in Caller
  BY CallersAssumption
<1>2. OpsInv'
  BY <1>1, Called
<1> QED BY <1>1, <1>2 DEF Call, NetTyped

\* The state file, and what is to be written to it, stay; no write begins or ends.
LEMMA IdentifiedKept ==
  ASSUME Identified, UNCHANGED <<file, identity>>,
         \/ phase # "write" /\ phase' \notin {"form", "save", "write"}
         \/ UNCHANGED <<phase, wanted>>
         \/ phase = "form" /\ phase' = "save" /\ UNCHANGED wanted
  PROVE  Identified'
BY DEF Identified, SourceOfTruth, Loaded

\* The random key is not the placeholder.
LEMMA Random ==
  ASSUME fresh \in Nat
  PROVE  /\ GenerateRandomNetworkParameters \in Network
         /\ GenerateRandomNetworkParameters.key \in Nat /\ GenerateRandomNetworkParameters.key # ZeroKey
BY DEF GenerateRandomNetworkParameters, Network, ZeroKey

\* The network that is formed: a real key, and the identity of the file.
LEMMA FormKeeps ==
  ASSUME IInv, Form, UNCHANGED <<tables, network, file, timer, Config, starts, identity>>
  PROVE  IInv'
<1> USE DEF IInv
<1>1. fresh \in Nat /\ fresh' = fresh + 1
  BY DEF Form, NcpInv, NetTyped
<1>2. /\ file \in Network \cup {None, Bad}
      /\ Loaded => file.id = identity
      /\ phase = "info" /\ phase' = "form"
      /\ ~Loaded => identity = None
  BY DEF Form, Goto, Identified, SourceOfTruth
<1>3. wanted' \in Network /\ wanted'.key # ZeroKey /\ (identity # None => wanted'.id = identity)
  <2>1. CASE ~Loaded
    <3>1. wanted' = GenerateRandomNetworkParameters
      BY <2>1 DEF Form
    <3> QED BY <3>1, <2>1, <1>1, <1>2, Random
  <2>2. CASE Loaded /\ IsZeroNetworkKey(file)
    <3>1. wanted' = [file EXCEPT !.key = GenerateRandomNetworkParameters.key]
      BY <2>2 DEF Form
    <3>2. file \in Network
      BY <2>2, <1>2 DEF Loaded
    <3>3. wanted' \in Network /\ wanted'.key = GenerateRandomNetworkParameters.key /\ wanted'.id = file.id
      BY <3>1, <3>2, <1>1, Random DEF Network
    <3> QED BY <3>3, <2>2, <1>1, <1>2, Random
  <2>3. CASE Loaded /\ ~IsZeroNetworkKey(file)
    <3>1. wanted' = file
      BY <2>3 DEF Form
    <3> QED BY <3>1, <2>3, <1>2 DEF IsZeroNetworkKey, Loaded
  <2> QED BY <2>1, <2>2, <2>3
<1>4. PICK op \in Forms : Call(Main, op, wanted')
  BY DEF Form, Forms
<1>5. OpsInv'
  BY <1>3, <1>4, Called, CallersAssumption DEF tables
<1>6. NcpInv'
  <2>1. seen' \in [Caller -> Nat \cup {None}]
    BY <1>4, CallersAssumption DEF Call, NcpInv, NetTyped
  <2> QED BY <2>1, <1>1 DEF NcpInv, NetTyped, Keyed, NeverZeroKey, network
<1>7. Identified'
  BY <1>2, <1>3 DEF Identified, SourceOfTruth, Loaded
<1> QED BY <1>5, <1>6, <1>7

\* An adopted network is saved, never formed.
LEMMA DecideKeeps ==
  ASSUME IInv, Decide
  PROVE  IInv'
<1> USE DEF IInv
<1>0. "GetNetworkInfo" \in Others /\ NetTyped
  BY OthersAre DEF NcpInv
<1>1. CASE NoInfo \/ Keep
  <2>1. Call(Main, "GetNetworkInfo", None) /\ UNCHANGED waiter
    BY <1>1 DEF Decide, NoInfo, Keep, tables
  <2>2. OpsInv' /\ seen' \in [Caller -> Nat \cup {None}]
    BY <1>0, <2>1, CalledOther
  <2>3. NcpInv'
    BY <2>2, <1>1, NcpKept DEF Decide, NoInfo, Keep, network
  <2>4. Identified'
    BY <1>1, IdentifiedKept DEF Decide, NoInfo, Keep, Goto
  <2> QED BY <2>2, <2>3, <2>4
<1>2. CASE Adopt
  <2>1. OpsInv'
    BY <1>2, OpsKept DEF Decide, Adopt, tables, ops
  <2>2. NcpInv'
    BY <1>0, <1>2, NcpKept DEF Decide, Adopt, network, ops, NetTyped
  <2>3. wanted' \in Network
    <3>1. seen[Main] \in Nat
      BY <1>0, <1>2, CallersAssumption DEF Adopt, needsNetwork, NetTyped
    <3> QED BY <3>1, <1>2 DEF Adopt, Network, ZeroKey
  <2>4. Identified'
    BY <1>2, <2>3 DEF Decide, Adopt, Goto, Identified, SourceOfTruth, Loaded
  <2> QED BY <2>1, <2>2, <2>4
<1>3. CASE Form
  BY <1>3, FormKeeps DEF Decide
<1> QED BY <1>1, <1>2, <1>3 DEF Decide

\* A save that is cut short leaves a file without an identity; one that
\* succeeds writes the identity the file had.
LEMMA SaveKeeps ==
  ASSUME IInv, Truncate \/ Write
  PROVE  IInv'
<1> USE DEF IInv
<1>0. "GetNetworkInfo" \in Others /\ NetTyped
  BY OthersAre DEF NcpInv
<1>1. OpsInv' /\ seen' \in [Caller -> Nat \cup {None}]
  <2>1. CASE Call(Main, "GetNetworkInfo", None)
    BY <1>0, <2>1, CalledOther DEF Truncate, Write, tables
  <2>2. CASE UNCHANGED ops
    BY <1>0, <2>2, OpsKept DEF Truncate, Write, tables, ops, NetTyped
  <2> QED BY <2>1, <2>2 DEF Truncate, Write
<1>2. NcpInv'
  BY <1>1, NcpKept DEF Truncate, Write, network
<1>3. Identified'
  <2>1. CASE Truncate
    BY <2>1, ScenariosAssumption DEF Truncate, Identified, SourceOfTruth, Loaded
  <2>2. CASE Write
    BY <2>2, ScenariosAssumption DEF Write, Identified, SourceOfTruth, Loaded
  <2> QED BY <2>1, <2>2
<1> QED BY <1>1, <1>2, <1>3

\* A step of Main that calls an operation, and one that calls none.
LEMMA Calls ==
  ASSUME IInv, NEW p \in {Main, Clock}, NEW op \in Others, Call(p, op, None),
         UNCHANGED <<waiter, cur, tokens, key, fresh, file, identity>>,
         \/ phase # "write" /\ phase' \notin {"form", "save", "write"}
         \/ UNCHANGED <<phase, wanted>>
  PROVE  IInv'
<1>1. OpsInv' /\ seen' \in [Caller -> Nat \cup {None}]
  BY CalledOther DEF IInv, NcpInv
<1>2. NcpInv'
  BY <1>1, NcpKept DEF IInv
<1>3. Identified'
  BY IdentifiedKept DEF IInv
<1> QED BY <1>1, <1>2, <1>3 DEF IInv

LEMMA CallsNone ==
  ASSUME IInv, UNCHANGED <<ops, waiter, cur, tokens, key, fresh, file, identity>>,
         \/ phase # "write" /\ phase' \notin {"form", "save", "write"}
         \/ UNCHANGED <<phase, wanted>>
         \/ phase = "form" /\ phase' = "save" /\ UNCHANGED wanted
  PROVE  IInv'
<1>1. OpsInv'
  BY OpsKept DEF IInv, ops
<1>2. NcpInv'
  BY NcpKept DEF IInv, NcpInv, NetTyped, ops
<1>3. Identified'
  BY IdentifiedKept DEF IInv
<1> QED BY <1>1, <1>2, <1>3 DEF IInv

\* The process ends; a write that was going on is cut short.
LEMMA Dies ==
  ASSUME IInv, Die, phase' = "down", UNCHANGED <<network, file, fresh>>,
         identity' = IF phase = "write" THEN None ELSE identity
  PROVE  IInv'
<1>1. OpsInv' /\ seen' \in [Caller -> Nat \cup {None}]
  BY Died
<1>2. NcpInv'
  BY <1>1, NcpKept DEF IInv, network
<1>3. Identified'
  BY DEF IInv, Identified, SourceOfTruth, Loaded
<1> QED BY <1>1, <1>2, <1>3 DEF IInv

LEMMA MainStepKeeps ==
  ASSUME IInv, MainStep \/ Stopping
  PROVE  IInv'
<1> USE DEF Goto, network, tables, emberVars
<1>0. {"initEzsp", "GetNetworkInfo", "SetConcentrator", "PermitJoining", "StopJoining"} \subseteq Others
  BY OthersAre
<1>1. CASE StartDongle
  <2>1. PICK r \in BOOLEAN :
          /\ r => cur' = None /\ key' = None /\ UNCHANGED tokens
          /\ ~r => UNCHANGED network
    BY <1>1, Zenon DEF StartDongle, NcpReboots
  <2>2. OpsInv' /\ seen' \in [Caller -> Nat \cup {None}]
    <3>1. CASE Call(Main, "initEzsp", None)
      BY <3>1, <1>0, <1>1, CalledOther DEF StartDongle, IInv, NcpInv
    <3>2. CASE UNCHANGED ops
      BY <3>2, <1>1, OpsKept DEF StartDongle, IInv, NcpInv, NetTyped, ops
    <3> QED BY <1>1, <3>1, <3>2 DEF StartDongle
  <2>3. NcpInv'
    <3>1. CASE r
      <4>1. cur' = None /\ key' = None /\ tokens' = tokens /\ fresh' = fresh
        BY <2>1, <3>1, <1>1 DEF StartDongle
      <4>2. ZeroKey # None
        BY NoneAssumption DEF ZeroKey
      <4> QED BY <4>1, <4>2, <2>2 DEF IInv, NcpInv, NetTyped, Keyed, NeverZeroKey
    <3>2. CASE ~r
      BY <3>2, <2>1, <2>2, <1>1, NcpKept DEF StartDongle, IInv
    <3> QED BY <3>1, <3>2
  <2>4. Identified'
    BY <1>1, IdentifiedKept DEF StartDongle, IInv
  <2> QED BY <2>2, <2>3, <2>4 DEF IInv
<1>2. CASE Started
  <2>1. CASE Call(Main, "GetNetworkInfo", None)
    BY <2>1, <1>0, <1>2, Calls DEF Started
  <2>2. CASE UNCHANGED ops
    BY <2>2, <1>2, CallsNone DEF Started
  <2> QED BY <1>2, <2>1, <2>2 DEF Started
<1>3. CASE Decide
  BY <1>3, DecideKeeps
<1>4. CASE Formed
  <2>1. CASE Goto("form", "down") /\ Die
    BY <1>4, <2>1, Dies DEF Formed
  <2>2. CASE UNCHANGED <<ops, tables, timer, wanted>>
    BY <1>4, <2>2, CallsNone DEF Formed
  <2> QED BY <1>4, <2>1, <2>2 DEF Formed
<1>5. CASE Truncate \/ Write
  BY <1>5, SaveKeeps
<1>6. CASE Concentrate
  BY <1>0, <1>6, Calls DEF Concentrate
<1>7. CASE PermitJoin
  BY <1>0, <1>7, Calls DEF PermitJoin
<1>8. CASE Listen
  BY <1>8, CallsNone DEF Listen
<1>9. CASE Stopping
  BY <1>0, <1>9, Calls DEF Stopping
<1>10. CASE Stopped
  BY <1>10, Dies DEF Stopped
<1> QED BY <1>1, <1>2, <1>3, <1>4, <1>5, <1>6, <1>7, <1>8, <1>9, <1>10 DEF MainStep

LEMMA NextKeeps ==
  ASSUME IInv, [Next]_vars
  PROVE  IInv'
<1> USE DEF emberVars, network, tables
<1>1. CASE MainStep \/ Stopping
  BY <1>1, MainStepKeeps
<1>2. CASE TimerFires
  BY <1>2, OthersAre, Calls DEF TimerFires
<1>3. CASE TimerDone
  BY <1>3, CallsNone DEF TimerDone
<1>4. CASE Crash
  BY <1>4, Dies DEF Crash
<1>5. CASE Restart
  BY <1>5, CallsNone DEF Restart
<1>6. CASE \E p \in Caller : Alive(OperationStep(p))
  <2>1. PICK p \in Caller : OperationStep(p) /\ UNCHANGED coordinatorVars
    BY <1>6 DEF Alive
  <2>2. OpsInv' /\ NcpInv'
    BY <2>1, OperationKeeps DEF IInv, coordinatorVars
  <2>3. Identified'
    BY <2>1, IdentifiedKept DEF IInv, coordinatorVars
  <2> QED BY <2>2, <2>3 DEF IInv
<1>7. CASE Alive(handleCallback)
  BY <1>7, CallsNone DEF Alive, handleCallback, coordinatorVars
<1>8. CASE NcpComesUp /\ UNCHANGED coordinatorVars
  <2>1. OpsInv'
    BY <1>8, OpsKept DEF NcpComesUp, IInv, ops
  <2>2. NcpInv'
    BY <1>8 DEF NcpComesUp, IInv, NcpInv, NetTyped, Keyed, NeverZeroKey, ops, coordinatorVars
  <2>3. Identified'
    BY <1>8, IdentifiedKept DEF IInv, coordinatorVars
  <2> QED BY <2>1, <2>2, <2>3 DEF IInv
<1>9. CASE Finished \/ UNCHANGED vars
  BY <1>9, CallsNone DEF Finished, vars, coordinatorVars
<1> QED BY <1>1, <1>2, <1>3, <1>4, <1>5, <1>6, <1>7, <1>8, <1>9 DEF Next

LEMMA InitHolds ==
  ASSUME Init
  PROVE  IInv
<1>1. PICK s \in Scenarios :
        /\ EmberInit(s.work, s.net, s.tokens)
        /\ phase = IF s.on THEN "start" ELSE "off"
        /\ wanted = None /\ fresh = 1 /\ timer = "none"
        /\ file = s.file /\ identity = (IF s.file \in {None, Bad} THEN None ELSE s.file.id)
  BY DEF Init
<1>2. /\ s.tokens = None \/ (s.tokens \in Network /\ s.tokens.key # ZeroKey)
      /\ s.file \in {None, Bad} \/ s.file \in Network
      /\ s.work = [p \in Caller |-> s.work[p]]
      /\ \A p \in Caller : s.work[p] = None \/ s.work[p].op \in Others
  BY ScenariosAssumption, Zenon DEF Others
<1>3. work = s.work /\ pos = [p \in Caller |-> [i |-> 1, t |-> 1]] /\ tokens = s.tokens /\ cur \in {s.tokens, None}
  BY <1>1, Zenon DEF EmberInit
<1>4. OpsInv
  <2>1. OpsTyped
    BY <1>1, <1>2, Zenon DEF EmberInit, OpsTyped
  <2>2. Planned
    <3> SUFFICES ASSUME NEW p \in Caller, Busy(p)
                 PROVE  pos[p].i \in 1..Len(Plan(p)) /\ work[p].op \in Others
      BY Zenon DEF Planned
    <3>1. work[p].op \in Others /\ pos[p].i = 1
      BY <1>2, <1>3 DEF Busy
    <3>2. Len(Plan(p)) \in Nat /\ Len(Plan(p)) > 0
      BY <3>1, OthersPlain DEF Plan
    <3> QED BY <3>1, <3>2
  <2>3. Waits
    BY <1>1 DEF EmberInit, Waits
  <2> QED BY <2>1, <2>2, <2>3 DEF OpsInv
<1>5. NcpInv
  <2>1. tokens \in Network \cup {None} /\ cur \in {tokens, None} /\ (tokens # None => tokens.key # ZeroKey)
    BY <1>2, <1>3
  <2>2. key # ZeroKey
    BY <1>1, NoneAssumption DEF EmberInit, ZeroKey
  <2>3. key = None /\ fresh \in Nat /\ seen \in [Caller -> Nat \cup {None}]
    BY <1>1 DEF EmberInit
  <2> QED BY <2>1, <2>2, <2>3 DEF NcpInv, NetTyped, Keyed, NeverZeroKey
<1>6. Identified
  BY <1>1, <1>2 DEF Identified, SourceOfTruth, Loaded
<1> QED BY <1>4, <1>5, <1>6 DEF IInv

-----------------------------------------------------------------------------

\* The inductive invariant holds in every reachable state.
THEOREM Invariance == Spec => []IInv
<1>1. Init => IInv
  BY InitHolds
<1>2. IInv /\ [Next]_vars => IInv'
  BY NextKeeps
<1> QED BY <1>1, <1>2, PTL DEF Spec

\* "Never form a network with an all-zero key" (running): for every scenario,
\* neither the security state of the NCP nor its network has the placeholder
\* key, however often the process crashes and is started, and whether the file
\* was adopted, cut short or restored.
THEOREM NeverZeroKeyHolds == Spec => []NeverZeroKey
<1>1. IInv => NeverZeroKey
  BY DEF IInv, NcpInv, Keyed
<1> QED BY <1>1, Invariance, PTL

\* The state file keeps the identity of its network (state.go, running): it
\* changes only through a save that was cut short.
THEOREM SourceOfTruthHolds == Spec => []SourceOfTruth
<1>1. IInv => SourceOfTruth
  BY DEF IInv, Identified
<1> QED BY <1>1, Invariance, PTL

\* A ZDO waiter is never left behind (registerZDOWaiter, removeZDOWaiter), for
\* any number of goroutines that interview devices at the same time.
THEOREM WaiterLiveHolds == Spec => []WaiterLive
<1>1. IInv => WaiterLive
  BY DEF IInv, OpsInv, Waits, WaiterLive
<1> QED BY <1>1, Invariance, PTL

=============================================================================
