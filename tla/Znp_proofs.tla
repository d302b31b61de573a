----------------------------- MODULE Znp_proofs -----------------------------
(***************************************************************************)
(* Proofs about the serial port's Handlers: at most one of the read loop,  *)
(* the timer, Close and a failing writer answers for a request, and the    *)
(* port implements OneShot, for any goroutines, headers and work they do.  *)
(***************************************************************************)
EXTENDS Znp, TLAPS

Label == {"begin", "call", "write", "failing", "receive", "await", "defer", "ended"}
Place == [g : Nat \ {0}, t : Nat \ {0}]

\* The Handlers that goroutines deferred a fail() of are those of indications,
\* and Close has Handlers to fail only while it holds handlerMutex.
Types ==
  /\ work \in Scenarios
  /\ pos \in [Proc -> Place] /\ pc \in [Proc -> Label]
  /\ deferred \in [Proc -> Seq([owner : Proc, g : Nat, t : Nat, kind : {"ind"}])]
  /\ table \subseteq Handler /\ failing \subseteq Handler /\ late \subseteq Handler
  /\ cmds \subseteq Handler /\ errs \subseteq Handler
  /\ reader \in Handler \cup {None}
  /\ todo \subseteq table /\ (closer # "sweep" => todo = {})

\* A goroutine that is not done is at one of the tries of one of its groups.
Where ==
  \A p \in Proc :
    /\ pc[p] \notin {"defer", "ended"} => pos[p].g <= Len(work[p]) /\ pos[p].t <= At(p).tries
    /\ pc[p] \in {"call", "write", "receive", "failing"} => At(p).req # None

\* The Handler of the try its goroutine is at, or of an earlier one.
Now(h)  == h.g = pos[h.owner].g /\ h.t = pos[h.owner].t
Past(h) == h.g < pos[h.owner].g \/ (h.g = pos[h.owner].g /\ h.t < pos[h.owner].t)

IsRequest(h) == OneOff(h) /\ h.kind = "req"

\* The Handlers of requests that exist were made by tries that were begun: the
\* next one is new.
Known ==
  /\ \A h \in table \cup failing \cup cmds \cup errs \cup Reading :
       IsRequest(h) => Past(h) \/ (Now(h) /\ pc[h.owner] \notin {"begin", "call"})
  /\ \A h \in late :
       IsRequest(h) => Past(h) \/ (Now(h) /\ pc[h.owner] \notin {"begin", "call", "write"})

\* A result is owed only to the goroutine that is waiting for it, or will.
Live ==
  \A h \in Owed : Tracked(h) => Now(h) /\ pc[h.owner] \in {"write", "receive", "failing"}

IInv == Types /\ Where /\ Known /\ Live /\ OneOwner

-----------------------------------------------------------------------------
\* A Handler of a request is determined by its goroutine and its try.
LEMMA Records ==
  ASSUME NEW h \in Handler, IsRequest(h)
  PROVE  /\ h \in [owner : Proc, g : Nat, t : Nat, kind : {"req"}]
         /\ h.owner \in Proc /\ h.g \in Nat /\ h.t \in Nat
         /\ h = [owner |-> h.owner, g |-> h.g, t |-> h.t, kind |-> "req"]
  BY DEF Handler, IsRequest, OneOff

LEMMA TheOne ==
  ASSUME Types, NEW p \in Proc
  PROVE  /\ The(p, "req") \in Handler /\ IsRequest(The(p, "req")) /\ Now(The(p, "req"))
         /\ The(p, "req").owner = p /\ The(p, "req").kind = "req"
         /\ The(p, "req").g = pos[p].g /\ The(p, "req").t = pos[p].t
         /\ \A h \in Handler : IsRequest(h) /\ Now(h) /\ h.owner = p => h = The(p, "req")
<1> USE DEF The
<1>1. pos[p].g \in Nat /\ pos[p].t \in Nat
  BY DEF Types, Place
<1>2. p # None
  BY ProcAssumption
<1>3. /\ The(p, "req").owner = p /\ The(p, "req").kind = "req"
      /\ The(p, "req").g = pos[p].g /\ The(p, "req").t = pos[p].t
  OBVIOUS
<1>4. The(p, "req") \in Handler
  BY <1>1 DEF Handler
<1>5. IsRequest(The(p, "req")) /\ Now(The(p, "req"))
  BY <1>2 DEF IsRequest, OneOff, Now
<1>6. \A h \in Handler : IsRequest(h) /\ Now(h) /\ h.owner = p => h = The(p, "req")
  BY Records DEF Now
<1> QED BY <1>3, <1>4, <1>5, <1>6

LEMMA TheIndication ==
  ASSUME Types, NEW p \in Proc
  PROVE  /\ The(p, "ind") \in [owner : Proc, g : Nat, t : Nat, kind : {"ind"}]
         /\ The(p, "ind") \in Handler
         /\ ~IsRequest(The(p, "ind")) /\ ~Tracked(The(p, "ind"))
<1>1. pos[p].g \in Nat /\ pos[p].t \in Nat
  BY DEF Types, Place
<1>2. The(p, "ind").kind = "ind"
  BY DEF The
<1> QED BY <1>1, <1>2 DEF The, Handler, IsRequest, Tracked

LEMMA Permanents ==
  ASSUME NEW c \in Perm
  PROVE  /\ PermHandler(c) \in Handler
         /\ ~IsRequest(PermHandler(c)) /\ ~Tracked(PermHandler(c))
  BY DEF PermHandler, Handler, IsRequest, Tracked, OneOff

-----------------------------------------------------------------------------
(* The steps of OneShot, in terms of the Handlers.                         *)

Sending   == {h \in Unsent : Tracked(h)}
Waiting   == {h \in Owed : Tracked(h)}
Answers   == {h \in cmds : Tracked(h)}
Errors    == {h \in errs : Tracked(h)}
Simulates == [Promise!Next]_(Promise!vars)

LEMMA Stutters ==
  ASSUME Sending' = Sending, Waiting' = Waiting, Answers' = Answers, Errors' = Errors
  PROVE  Simulates
  BY DEF Simulates, Promise!vars, Sending, Waiting, Answers, Errors

LEMMA Makes ==
  ASSUME NEW c \in Requests, c \notin Waiting \cup Answers \cup Errors,
         Sending' = Sending \cup {c}, Waiting' = Waiting \cup {c},
         Answers' = Answers, Errors' = Errors
  PROVE  Simulates
<1>1. Promise!Make(c)
  BY DEF Promise!Make, Sending, Waiting, Answers, Errors
<1> QED BY <1>1 DEF Simulates, Promise!Next

LEMMA Sends ==
  ASSUME NEW c \in Requests, c \in Sending, Sending' = Sending \ {c},
         Waiting' = Waiting, Answers' = Answers, Errors' = Errors
  PROVE  Simulates
<1>1. Promise!Sent(c)
  BY DEF Promise!Sent, Sending, Waiting, Answers, Errors
<1> QED BY <1>1 DEF Simulates, Promise!Next

LEMMA GivesUp ==
  ASSUME NEW c \in Requests, c \in Sending, Sending' = Sending \ {c},
         Waiting' = Waiting \ {c}, Answers' = Answers \ {c}, Errors' = Errors \ {c}
  PROVE  Simulates
<1>1. Promise!GiveUp(c)
  BY DEF Promise!GiveUp, Sending, Waiting, Answers, Errors
<1> QED BY <1>1 DEF Simulates, Promise!Next

LEMMA Replies ==
  ASSUME NEW c \in Requests, c \in Waiting, Waiting' = Waiting \ {c},
         Answers' = Answers \cup {c}, Sending' = Sending, Errors' = Errors
  PROVE  Simulates
<1>1. Promise!Answer(c)
  BY DEF Promise!Answer, Sending, Waiting, Answers, Errors
<1> QED BY <1>1 DEF Simulates, Promise!Next

LEMMA Fails ==
  ASSUME NEW c \in Requests, c \in Waiting, Waiting' = Waiting \ {c},
         Errors' = Errors \cup {c}, Sending' = Sending, Answers' = Answers
  PROVE  Simulates
<1>1. Promise!Fail(c)
  BY DEF Promise!Fail, Sending, Waiting, Answers, Errors
<1> QED BY <1>1 DEF Simulates, Promise!Next

LEMMA Takes ==
  ASSUME NEW c \in Requests, c \in Answers \cup Errors,
         Answers' = Answers \ {c}, Errors' = Errors \ {c},
         Sending' = Sending, Waiting' = Waiting
  PROVE  Simulates
<1>1. Promise!Take(c)
  BY DEF Promise!Take, Sending, Waiting, Answers, Errors
<1> QED BY <1>1 DEF Simulates, Promise!Next

\* A Handler of a request that a goroutine waits for is one of OneShot's calls.
LEMMA Calls ==
  ASSUME IInv, NEW p \in Proc, pc[p] \notin {"defer", "ended"}
  PROVE  The(p, "req") \in Requests
<1>1. /\ work \in Scenarios /\ pos[p].g \in Nat \ {0} /\ pos[p].t \in Nat \ {0}
      /\ pos[p].g <= Len(work[p]) /\ pos[p].t <= work[p][pos[p].g].tries
  BY DEF IInv, Types, Where, Place, At
<1>2. Len(work[p]) \in Nat /\ pos[p].g \in DOMAIN work[p] /\ work[p][pos[p].g].tries \in Nat
  <2>1. work[p] \in Seq(Group)
    BY <1>1, WorkAssumption
  <2>2. Len(work[p]) \in Nat /\ DOMAIN work[p] = 1 .. Len(work[p])
    BY <2>1
  <2>3. pos[p].g \in DOMAIN work[p]
    BY <1>1, <2>2
  <2>4. work[p][pos[p].g] \in Group
    BY <2>1, <2>2, <2>3
  <2> QED BY <2>2, <2>3, <2>4 DEF Group
<1>3. pos[p].g \in 1 .. Len(work[p]) /\ pos[p].t \in 1 .. work[p][pos[p].g].tries
  BY <1>1, <1>2
<1>4. The(p, "req") \in [owner : {p}, g : {pos[p].g}, t : 1 .. work[p][pos[p].g].tries, kind : {"req"}]
  BY <1>3 DEF The
<1> DEFINE Tried(w, q, i) == [owner : {q}, g : {i}, t : 1 .. w[q][i].tries, kind : {"req"}]
<1>5. The(p, "req") \in Tried(work, p, pos[p].g)
  BY <1>4
<1>6. Requests = UNION {UNION {UNION {Tried(w, q, i) : i \in 1 .. Len(w[q])} : q \in Proc} : w \in Scenarios}
  BY DEF Requests
<1> HIDE DEF Tried
<1>7. The(p, "req") \in UNION {Tried(work, p, i) : i \in 1 .. Len(work[p])}
  BY <1>3, <1>5
<1>8. The(p, "req") \in UNION {UNION {Tried(work, q, i) : i \in 1 .. Len(work[q])} : q \in Proc}
  BY <1>7
<1> QED BY <1>1, <1>6, <1>8

-----------------------------------------------------------------------------
(* Steps that leave the goroutines where they are.                         *)

Handlers == table \cup failing \cup cmds \cup errs \cup Reading

\* A step that moves Handlers between their holders, and makes none.
LEMMA Quiet ==
  ASSUME IInv, Types', UNCHANGED <<work, pos, pc, late>>,
         \A h \in Handlers' : IsRequest(h) => h \in Handlers,
         \A h \in Owed' : Tracked(h) => h \in Owed,
         OneOwner'
  PROVE  IInv' /\ Sending' = Sending
<1> USE DEF IInv
<1>1. /\ \A h : Tracked(h)' = Tracked(h) /\ Now(h)' = Now(h) /\ Past(h)' = Past(h)
      /\ \A p : The(p, "req")' = The(p, "req")
      /\ \A p : At(p)' = At(p)
  BY DEF Tracked, Now, Past, The, At
<1>2. Where'
  BY <1>1 DEF Where
<1>3. Known'
  BY <1>1 DEF Known, Handlers
<1>4. Live'
  BY <1>1 DEF Live
<1>5. Sending' = Sending
  BY <1>1 DEF Sending, Unsent
<1> QED BY <1>2, <1>3, <1>4, <1>5

\* Nothing that the invariant or the mapping speaks of changes.
LEMMA Unmoved ==
  ASSUME IInv, UNCHANGED <<work, pos, pc, deferred, late, table, failing, channels, reader, todo>>,
         (closer' = "sweep") = (closer = "sweep")
  PROVE  IInv' /\ Simulates
<1> USE DEF channels
<1>1. /\ Owed' = Owed /\ InTable' = InTable /\ Reading' = Reading /\ Writing' = Writing
      /\ \A h : Tracked(h)' = Tracked(h)
  BY DEF Owed, InTable, Reading, Writing, The, Tracked
<1>2. Types'
  BY Zenon DEF IInv, Types
<1>3. OneOwner'
  BY <1>1 DEF IInv, OneOwner, Apart
<1>4. IInv' /\ Sending' = Sending
  BY <1>1, <1>2, <1>3, Quiet DEF Handlers
<1>5. Waiting' = Waiting /\ Answers' = Answers /\ Errors' = Errors
  BY <1>1 DEF Waiting, Answers, Errors
<1> QED BY <1>4, <1>5, Stutters

\* The timer takes the Handler from the table, if it is there.
LEMMA TimerTakes ==
  ASSUME IInv, NEW x, TimerFires(x)
  PROVE  IInv' /\ Simulates
<1> USE DEF IInv
<1>1. /\ UNCHANGED <<work, pos, pc, deferred, late, cmds, errs, reader, todo, closer>> /\ closer # "sweep"
      /\ table' = table \ {x} /\ failing' = IF x \in table THEN failing \cup {x} ELSE failing
  BY DEF TimerFires, removeHandler, Unlocked, goroutines, history, channels, shutdown
<1>2. /\ InTable' = table' /\ InTable = table /\ Reading' = Reading /\ Writing' = Writing
      /\ \A h : Tracked(h)' = Tracked(h)
  BY <1>1 DEF InTable, Reading, Writing, The, Tracked
<1>3. Types'
  BY <1>1, Zenon DEF Types
<1>4. OneOwner'
  BY <1>1, <1>2 DEF OneOwner, Apart
<1>5. Owed' = Owed
  BY <1>1, <1>2 DEF Owed
<1>6. IInv' /\ Sending' = Sending
  BY <1>1, <1>2, <1>3, <1>4, <1>5, Quiet DEF Handlers
<1>7. Waiting' = Waiting /\ Answers' = Answers /\ Errors' = Errors
  BY <1>1, <1>2, <1>5 DEF Waiting, Answers, Errors
<1> QED BY <1>6, <1>7, Stutters

\* A request that is waited for is the one its goroutine is at.
LEMMA Owned ==
  ASSUME IInv, NEW x \in Owed, Tracked(x)
  PROVE  /\ x \in Requests /\ x \in Handler /\ IsRequest(x)
         /\ x.owner \in Proc /\ x = The(x.owner, "req")
<1> USE DEF IInv
<1>1. x \in Handler
  <2>1. CASE x \in Writing
    BY <2>1, TheOne DEF Writing
  <2>2. CASE x \notin Writing
    BY <2>2 DEF Owed, InTable, Reading, Types
  <2> QED BY <2>1, <2>2
<1>2. IsRequest(x) /\ Now(x) /\ pc[x.owner] \in {"write", "receive", "failing"}
  BY DEF Live, Tracked, IsRequest
<1>3. x.owner \in Proc
  BY <1>1, <1>2, Records
<1>4. x = The(x.owner, "req")
  BY <1>1, <1>2, <1>3, TheOne
<1> QED BY <1>1, <1>2, <1>3, <1>4, Calls

\* The timer, or Close, puts an error into the channel of a Handler it owes it.
LEMMA FailsOne ==
  ASSUME IInv, NEW x, ~Full(x), cmds' = cmds, errs' = errs \cup {x},
         UNCHANGED <<work, pos, pc, deferred, late, table, reader, closer>>,
         \/ x \in failing /\ failing' = failing \ {x} /\ todo' = todo
         \/ closer = "sweep" /\ x \in todo /\ todo' = todo \ {x} /\ failing' = failing
  PROVE  IInv' /\ Simulates
<1> USE DEF IInv
<1>1. /\ Reading' = Reading /\ Writing' = Writing
      /\ \A h : Tracked(h)' = Tracked(h)
      /\ \/ x \in failing /\ failing' = failing \ {x} /\ InTable' = InTable
         \/ x \in InTable /\ failing' = failing /\ InTable' = InTable \ {x}
  BY DEF InTable, Reading, Writing, The, Tracked
<1>2. x \in Owed /\ x \in Handler /\ x \in Handlers
  BY DEF Owed, InTable, Handlers, Types
<1>3. Types'
  BY <1>2, Zenon DEF Types
<1>4. Tracked(x) => x \notin Owed'
  <2>1. CASE x \in failing /\ failing' = failing \ {x} /\ InTable' = InTable
    BY <1>1, <2>1 DEF OneOwner, Apart, Owed
  <2>2. CASE x \in InTable /\ failing' = failing /\ InTable' = InTable \ {x}
    BY <1>1, <2>2 DEF OneOwner, Apart, Owed
  <2> QED BY <1>1, <2>1, <2>2
<1>5. \A h : h # x => (h \in Owed' <=> h \in Owed)
  BY <1>1 DEF Owed
<1>6. OneOwner'
  <2>1. CASE x \in failing /\ failing' = failing \ {x} /\ InTable' = InTable
    BY <1>1, <2>1 DEF OneOwner, Apart, Full
  <2>2. CASE x \in InTable /\ failing' = failing /\ InTable' = InTable \ {x}
    BY <1>1, <2>2 DEF OneOwner, Apart, Full
  <2> QED BY <1>1, <2>1, <2>2
<1>7. IInv' /\ Sending' = Sending
  BY <1>1, <1>2, <1>3, <1>5, <1>6, Quiet DEF Handlers
<1>8. CASE Tracked(x)
  <2>1. Waiting' = Waiting \ {x} /\ Answers' = Answers /\ Errors' = Errors \cup {x} /\ x \in Waiting
    BY <1>1, <1>2, <1>4, <1>5, <1>8 DEF Waiting, Answers, Errors
  <2>2. x \in Requests
    BY <1>2, <1>8, Owned
  <2> QED BY <1>7, <2>1, <2>2, Fails
<1>9. CASE ~Tracked(x)
  <2>1. Waiting' = Waiting /\ Answers' = Answers /\ Errors' = Errors
    BY <1>1, <1>5, <1>9 DEF Waiting, Answers, Errors
  <2> QED BY <1>7, <2>1, Stutters
<1> QED BY <1>8, <1>9

\* The read loop takes a Handler from the table.
LEMMA FrameTakes ==
  ASSUME IInv, NEW hd, handleFrame(hd)
  PROVE  IInv' /\ Simulates
<1> USE DEF IInv
<1>1. /\ UNCHANGED <<work, pos, pc, deferred, late, failing, cmds, errs, todo, closer>>
      /\ closer # "sweep" /\ reader = None
  BY DEF handleFrame, Unlocked, goroutines, history, channels, shutdown
<1>2. CASE UNCHANGED <<reader, table>>
  BY <1>1, <1>2, Unmoved DEF channels
<1>3. ASSUME NEW x \in table, reader' = x, table' = IF OneOff(x) THEN table \ {x} ELSE table
      PROVE  IInv' /\ Simulates
  <2>1. /\ InTable' = table' /\ InTable = table /\ Writing' = Writing
        /\ \A h : Tracked(h)' = Tracked(h)
    BY <1>1 DEF InTable, Writing, The, Tracked
  <2>2. Reading' \subseteq {x} /\ Reading = {} /\ (Tracked(x) => Reading' = {x})
    <3>1. Tracked(x) => x # None
      BY <1>3, HandlerAssumption DEF Types
    <3> QED BY <1>1, <1>3, <3>1 DEF Reading
  <2>3. Types'
    BY <1>1, <1>3, Zenon DEF Types
  <2>4. OneOwner'
    BY <1>1, <1>3, <2>1, <2>2 DEF OneOwner, Apart, Tracked
  <2>5. \A h : Tracked(h) => (h \in Owed' <=> h \in Owed)
    BY <1>1, <1>3, <2>1, <2>2 DEF Owed, Tracked
  <2>6. IInv' /\ Sending' = Sending
    BY <1>1, <1>3, <2>1, <2>2, <2>3, <2>4, <2>5, Quiet DEF Handlers
  <2>7. Waiting' = Waiting /\ Answers' = Answers /\ Errors' = Errors
    BY <1>1, <2>1, <2>5 DEF Waiting, Answers, Errors
  <2> QED BY <2>6, <2>7, Stutters
<1> QED BY <1>2, <1>3 DEF handleFrame, Under

\* The read loop hands the command to the Handler it has taken.
LEMMA Fulfills ==
  ASSUME IInv, fulfill
  PROVE  IInv' /\ Simulates
<1> USE DEF IInv
<1> DEFINE x == reader
<1>1. /\ UNCHANGED <<work, pos, pc, deferred, late, table, failing, errs, todo, closer>>
      /\ x # None /\ ~Full(x) /\ cmds' = cmds \cup {x} /\ reader' = None
  BY DEF fulfill, goroutines, history, shutdown
<1>2. /\ InTable' = InTable /\ Writing' = Writing /\ Reading = {x} /\ Reading' = {}
      /\ \A h : Tracked(h)' = Tracked(h)
  BY <1>1 DEF InTable, Reading, Writing, The, Tracked
<1>3. x \in Owed /\ x \in Handler /\ x \in Handlers
  BY <1>1, <1>2 DEF Owed, Handlers, Types
<1> HIDE DEF x
<1>4. Types'
  BY <1>1, <1>3, Zenon DEF Types
<1>5. OneOwner'
  BY <1>1, <1>2 DEF OneOwner, Apart, Full
<1>6. (Tracked(x) => x \notin Owed') /\ \A h : h # x => (h \in Owed' <=> h \in Owed)
  BY <1>1, <1>2 DEF OneOwner, Apart, Owed
<1>7. IInv' /\ Sending' = Sending
  BY <1>1, <1>2, <1>3, <1>4, <1>5, <1>6, Quiet DEF Handlers
<1>8. CASE Tracked(x)
  <2>1. Waiting' = Waiting \ {x} /\ Answers' = Answers \cup {x} /\ Errors' = Errors /\ x \in Waiting
    BY <1>1, <1>2, <1>3, <1>6, <1>8 DEF Waiting, Answers, Errors
  <2>2. x \in Requests
    BY <1>3, <1>8, Owned
  <2> QED BY <1>7, <2>1, <2>2, Replies
<1>9. CASE ~Tracked(x)
  <2>1. Waiting' = Waiting /\ Answers' = Answers /\ Errors' = Errors
    BY <1>1, <1>2, <1>6, <1>9 DEF Waiting, Answers, Errors
  <2> QED BY <1>7, <2>1, Stutters
<1> QED BY <1>8, <1>9

\* A result that is not a request's is put into its channel, or taken from it.
LEMMA OtherResults ==
  ASSUME IInv, NEW x \in Handler, ~IsRequest(x), ~Tracked(x),
         UNCHANGED <<work, pos, pc, late, table, failing, reader, todo, closer>>,
         deferred' \in [Proc -> Seq([owner : Proc, g : Nat, t : Nat, kind : {"ind"}])],
         \/ cmds' = cmds \ {x} /\ errs' = errs \ {x}
         \/ cmds' = cmds /\ errs' = errs \cup {x}
  PROVE  IInv' /\ Simulates
<1> USE DEF IInv
<1>1. /\ InTable' = InTable /\ Reading' = Reading /\ Writing' = Writing /\ Owed' = Owed
      /\ \A h : Tracked(h)' = Tracked(h)
  BY DEF InTable, Reading, Writing, Owed, The, Tracked
<1>2. Types'
  BY Zenon DEF Types
<1>3. /\ cmds' \subseteq cmds /\ errs' \subseteq errs \cup {x}
      /\ \A h : h # x => (h \in cmds' <=> h \in cmds) /\ (h \in errs' <=> h \in errs)
  OBVIOUS
<1>4. OneOwner'
  BY <1>1, <1>3 DEF OneOwner, Apart
<1>5. IInv' /\ Sending' = Sending
  BY <1>1, <1>2, <1>3, <1>4, Quiet DEF Handlers
<1>6. Waiting' = Waiting /\ Answers' = Answers /\ Errors' = Errors
  BY <1>1, <1>3 DEF Waiting, Answers, Errors
<1> QED BY <1>5, <1>6, Stutters

\* Close locks the table to fail what is in it, and empties it when that is done.
LEMMA Sweeps ==
  ASSUME IInv, CloseLocks \/ CloseUnlocks
  PROVE  IInv' /\ Simulates
<1> USE DEF IInv
<1>1. /\ UNCHANGED <<work, pos, pc, deferred, late, failing, cmds, errs, reader>>
      /\ table' \subseteq table /\ todo' \subseteq table' /\ InTable' = InTable
      /\ closer' # "sweep" => todo' = {}
  BY DEF CloseLocks, CloseUnlocks, handlers, goroutines, history, channels, InTable
<1>2. /\ Reading' = Reading /\ Writing' = Writing /\ Owed' = Owed
      /\ \A h : Tracked(h)' = Tracked(h)
  BY <1>1 DEF Reading, Writing, Owed, The, Tracked
<1>3. Types'
  BY <1>1, Zenon DEF Types
<1>4. OneOwner'
  BY <1>1, <1>2 DEF OneOwner, Apart
<1>5. IInv' /\ Sending' = Sending
  BY <1>1, <1>2, <1>3, <1>4, Quiet DEF Handlers
<1>6. Waiting' = Waiting /\ Answers' = Answers /\ Errors' = Errors
  BY <1>1, <1>2 DEF Waiting, Answers, Errors
<1> QED BY <1>5, <1>6, Stutters

-----------------------------------------------------------------------------
(* Steps of the goroutines.                                                *)

\* p goes on to a later try, or is done.
Moved(p) ==
  /\ pos' \in [Proc -> Place] /\ pc' \in [Proc -> Label]
  /\ \A q \in Proc : q # p => pos'[q] = pos[q] /\ pc'[q] = pc[q]
  /\ \/ pc'[p] = "begin" /\ pos'[p].g <= Len(work[p]) /\ pos'[p].t <= work[p][pos'[p].g].tries
     \/ pc'[p] = "defer"
  /\ \/ pos'[p] = pos[p] /\ pc'[p] = "defer"
     \/ pos'[p].g > pos[p].g
     \/ pos'[p].g = pos[p].g /\ pos'[p].t > pos[p].t

LEMMA Groups ==
  ASSUME IInv, NEW p \in Proc
  PROVE  /\ work[p] \in Seq(Group) /\ Len(work[p]) \in Nat
         /\ \A i \in Nat \ {0} : i <= Len(work[p]) =>
              /\ i \in DOMAIN work[p] /\ work[p][i] \in Group
              /\ work[p][i].tries \in Nat \ {0} /\ work[p][i].skip \in Nat
<1>1. work[p] \in Seq(Group)
  BY WorkAssumption DEF IInv, Types
<1>2. Len(work[p]) \in Nat /\ DOMAIN work[p] = 1 .. Len(work[p])
  BY <1>1
<1>3. \A i \in Nat \ {0} : i <= Len(work[p]) => i \in DOMAIN work[p] /\ work[p][i] \in Group
  BY <1>1, <1>2
<1> QED BY <1>1, <1>2, <1>3 DEF Group

LEMMA OnwardsMoves ==
  ASSUME IInv, NEW p \in Proc, NEW n \in Nat \ {0}, GoesOn(p, n)
  PROVE  Moved(p)
<1>1. /\ pos[p] \in Place /\ pos[p].g \in Nat \ {0} /\ pos \in [Proc -> Place] /\ pc \in [Proc -> Label]
      /\ pos[p].g + n \in Nat \ {0}
  BY DEF IInv, Types, Place
<1>2. pos' = [pos EXCEPT ![p] = [g |-> pos[p].g + n, t |-> 1]]
  BY DEF GoesOn
<1>3. pos' \in [Proc -> Place] /\ pos'[p].g = pos[p].g + n /\ pos'[p].t = 1
  BY <1>1, <1>2 DEF Place
<1>4. pos'[p].g > pos[p].g
  BY <1>1, <1>3
<1>5. CASE pos[p].g + n <= Len(work[p])
  <2>1. pc' = [pc EXCEPT ![p] = "begin"]
    BY <1>5 DEF GoesOn
  <2>2. 1 <= work[p][pos[p].g + n].tries
    BY <1>1, <1>5, Groups
  <2> QED BY <1>1, <1>2, <1>3, <1>4, <1>5, <2>1, <2>2 DEF Moved, Label
<1>6. CASE ~(pos[p].g + n <= Len(work[p]))
  <2>1. pc' = [pc EXCEPT ![p] = "defer"]
    BY <1>6 DEF GoesOn
  <2> QED BY <1>1, <1>2, <1>3, <1>4, <2>1 DEF Moved, Label
<1> QED BY <1>5, <1>6

LEMMA EndsMoves ==
  ASSUME IInv, NEW p \in Proc, Ends(p)
  PROVE  Moved(p)
  BY DEF IInv, Types, Ends, Moved, Label

LEMMA OutcomeMoves ==
  ASSUME IInv, NEW p \in Proc, pc[p] \notin {"defer", "ended"}, Failed(p) \/ Succeeded(p)
  PROVE  Moved(p)
<1>1. /\ pos[p] \in Place /\ pos[p].g \in Nat \ {0} /\ pos[p].t \in Nat \ {0}
      /\ pos \in [Proc -> Place] /\ pc \in [Proc -> Label]
      /\ pos[p].g <= Len(work[p]) /\ At(p) = work[p][pos[p].g]
  BY DEF IInv, Types, Place, Where, At
<1>2. At(p).tries \in Nat \ {0} /\ At(p).skip \in Nat
  BY <1>1, Groups
<1>3. CASE Ends(p)
  BY <1>3, EndsMoves
<1>4. CASE GoesOn(p, 1)
  BY <1>4, OnwardsMoves
<1>5. CASE At(p).skip > 0 /\ GoesOn(p, At(p).skip)
  BY <1>2, <1>5, OnwardsMoves
<1>6. CASE /\ pos[p].t < At(p).tries
           /\ pos' = [pos EXCEPT ![p].t = @ + 1] /\ pc' = [pc EXCEPT ![p] = "begin"]
  <2>1. pos'[p].g = pos[p].g /\ pos'[p].t = pos[p].t + 1 /\ pos' \in [Proc -> Place]
    BY <1>1, <1>6 DEF Place
  <2>2. pos'[p].t > pos[p].t /\ pos'[p].t <= work[p][pos'[p].g].tries
    BY <1>1, <1>2, <1>6, <2>1
  <2> QED BY <1>1, <1>6, <2>1, <2>2 DEF Moved, Label
<1> QED BY <1>3, <1>4, <1>5, <1>6 DEF Failed, Succeeded

\* What is said of a request's Handler before a move of p still holds after it.
LEMMA Carries ==
  ASSUME IInv, NEW p \in Proc, Moved(p)
  PROVE  \A h \in Handler : IsRequest(h) =>
           /\ h.owner # p => (Past(h)' <=> Past(h)) /\ (Now(h)' <=> Now(h)) /\ pc'[h.owner] = pc[h.owner]
           /\ h.owner = p /\ (Past(h) \/ Now(h)) => Past(h)' \/ (Now(h)' /\ pc'[p] = "defer")
<1> SUFFICES ASSUME NEW h \in Handler, IsRequest(h)
             PROVE  /\ h.owner # p => (Past(h)' <=> Past(h)) /\ (Now(h)' <=> Now(h)) /\ pc'[h.owner] = pc[h.owner]
                    /\ h.owner = p /\ (Past(h) \/ Now(h)) => Past(h)' \/ (Now(h)' /\ pc'[p] = "defer")
  OBVIOUS
<1>1. h.owner \in Proc /\ h.g \in Nat /\ h.t \in Nat
  BY Records
<1>2. h.owner # p => (Past(h)' <=> Past(h)) /\ (Now(h)' <=> Now(h)) /\ pc'[h.owner] = pc[h.owner]
  BY <1>1 DEF Moved, Past, Now
<1>3. h.owner = p => (Past(h) \/ Now(h) => Past(h)' \/ (Now(h)' /\ pc'[p] = "defer"))
  <2>1. /\ pos[p].g \in Nat /\ pos[p].t \in Nat /\ pos'[p].g \in Nat /\ pos'[p].t \in Nat
    BY DEF IInv, Types, Moved, Place
  <2> QED BY <1>1, <2>1 DEF Moved, Past, Now
<1> QED BY <1>2, <1>3

\* The invariant survives a move of p, when nothing is owed to it any more.
LEMMA Travels ==
  ASSUME IInv, NEW p \in Proc, Moved(p), UNCHANGED <<work, late>>, Types',
         \A h \in Handlers' : IsRequest(h) => h \in Handlers \/ h = The(p, "req"),
         \A h \in Owed' : Tracked(h) => h \in Owed /\ h # The(p, "req"),
         OneOwner', pc[p] # "write"
  PROVE  IInv' /\ Sending' = Sending
<1> USE DEF IInv
<1>1. \A h : Tracked(h)' = Tracked(h)
  BY DEF Tracked
<1>2. \A h \in Handler : IsRequest(h) =>
        /\ h.owner # p => (Past(h)' <=> Past(h)) /\ (Now(h)' <=> Now(h)) /\ pc'[h.owner] = pc[h.owner]
        /\ h.owner = p /\ (Past(h) \/ Now(h)) => Past(h)' \/ (Now(h)' /\ pc'[p] = "defer")
  BY Carries, Zenon
<1>3. Handlers' \subseteq Handler /\ late' \subseteq Handler
  BY HandlerAssumption DEF Handlers, Types, Reading
<1>4. The(p, "req").owner = p /\ Now(The(p, "req"))
  BY TheOne
<1>5. Known'
  BY <1>2, <1>3, <1>4, Zenon DEF Known, Handlers
<1>6. Live'
  <2> SUFFICES ASSUME NEW h \in Owed', Tracked(h)'
               PROVE  Now(h)' /\ pc'[h.owner] \in {"write", "receive", "failing"}
    BY Zenon DEF Live
  <2>1. h \in Owed /\ Tracked(h) /\ h # The(p, "req")
    BY <1>1
  <2>2. h \in Handler /\ IsRequest(h) /\ h.owner # p
    BY <2>1, Owned, Zenon
  <2> QED BY <1>2, <2>1, <2>2, Zenon DEF Live
<1>7. Where'
  <2> SUFFICES ASSUME NEW q \in Proc
               PROVE  /\ pc'[q] \notin {"defer", "ended"} => pos'[q].g <= Len(work[q]) /\ pos'[q].t <= At(q).tries'
                      /\ pc'[q] \in {"call", "write", "receive", "failing"} => At(q).req' # None
    BY DEF Where
  <2>1. CASE q = p
    BY <2>1, Zenon DEF Moved, At
  <2>2. CASE q # p
    BY <2>2, Zenon DEF Moved, At, Where
  <2> QED BY <2>1, <2>2
<1>8. Sending' = Sending
  <2>1. {q \in Proc : pc'[q] = "write"} = {q \in Proc : pc[q] = "write"}
    BY Zenon DEF Moved
  <2>2. \A q \in Proc : pc[q] = "write" => The(q, "req")' = The(q, "req")
    BY Zenon DEF Moved, The
  <2> QED BY <1>1, <2>1, <2>2 DEF Sending, Unsent
<1> QED BY <1>5, <1>6, <1>7, <1>8

\* The writer puts the error into the channel of its own Handler.
LEMMA OwnFails ==
  ASSUME IInv, NEW p \in Proc, FailOwn(p)
  PROVE  IInv' /\ Simulates
<1> USE DEF IInv
<1> DEFINE x == The(p, "req")
<1>1. /\ UNCHANGED <<work, deferred, late, table, failing, reader, todo, closer>>
      /\ pc[p] = "failing" /\ ~Full(x) /\ errs' = errs \cup {x} /\ cmds' = cmds
  BY DEF FailOwn, fail, handlers, history, shutdown
<1>2. Moved(p)
  BY <1>1, OutcomeMoves DEF FailOwn
<1>3. x \in Handler /\ x.owner = p /\ \A q \in Proc : The(q, "req").owner = q
  BY TheOne
<1>4. Writing' = Writing \ {x} /\ x \in Writing
  <2>1. {q \in Proc : pc'[q] = "failing"} = {q \in Proc : pc[q] = "failing"} \ {p}
    BY <1>2 DEF Moved
  <2>2. \A q \in Proc : q # p => The(q, "req")' = The(q, "req") /\ The(q, "req") # x
    BY <1>2, <1>3, Zenon DEF Moved, The
  <2> QED BY <1>1, <2>1, <2>2 DEF Writing
<1>5. /\ InTable' = InTable /\ Reading' = Reading /\ \A h : Tracked(h)' = Tracked(h)
  BY <1>1 DEF InTable, Reading, Tracked
<1> HIDE DEF x
<1>6. Types'
  BY <1>1, <1>2, <1>3, Zenon DEF Types, Moved
<1>7. OneOwner'
  BY <1>1, <1>4, <1>5 DEF OneOwner, Apart, Full
<1>8. (Tracked(x) => x \notin Owed') /\ x \in Owed /\ \A h : h # x => (h \in Owed' <=> h \in Owed)
  BY <1>1, <1>4, <1>5 DEF OneOwner, Apart, Owed
<1>9. IInv' /\ Sending' = Sending
  BY <1>1, <1>2, <1>5, <1>6, <1>7, <1>8, Travels DEF x, Handlers
<1>10. CASE Tracked(x)
  <2>1. Waiting' = Waiting \ {x} /\ Answers' = Answers /\ Errors' = Errors \cup {x} /\ x \in Waiting
    BY <1>1, <1>5, <1>8, <1>10 DEF Waiting, Answers, Errors
  <2>2. x \in Requests
    BY <1>8, <1>10, Owned
  <2> QED BY <1>9, <2>1, <2>2, Fails
<1>11. CASE ~Tracked(x)
  <2>1. Waiting' = Waiting /\ Answers' = Answers /\ Errors' = Errors
    BY <1>1, <1>5, <1>8, <1>11 DEF Waiting, Answers, Errors
  <2> QED BY <1>9, <2>1, Stutters
<1> QED BY <1>10, <1>11

\* Nothing is owed to a goroutine that does not wait for the answer of a request.
LEMMA NotOwed ==
  ASSUME IInv, NEW p \in Proc, pc[p] \notin {"write", "receive", "failing"}
  PROVE  \A h \in Owed : Tracked(h) => h # The(p, "req")
<1>1. The(p, "req").owner = p
  BY TheOne DEF IInv
<1>2. \A h \in Owed : Tracked(h) => pc[h.owner] \in {"write", "receive", "failing"}
  BY DEF IInv, Live
<1> QED BY <1>1, <1>2

\* p takes a result out of a channel and moves on; nothing is owed to it then.
LEMMA TakesAndMoves ==
  ASSUME IInv, NEW p \in Proc, NEW x \in Handler, Moved(p),
         cmds' = cmds \ {x}, errs' = errs \ {x},
         UNCHANGED <<work, deferred, late, table, failing, reader, todo, closer>>,
         \/ x = The(p, "req") /\ x \in cmds \cup errs /\ pc[p] = "receive"
         \/ ~Tracked(x) /\ pc[p] = "await"
  PROVE  IInv' /\ Simulates
<1> USE DEF IInv
<1>1. /\ InTable' = InTable /\ Reading' = Reading /\ \A h : Tracked(h)' = Tracked(h)
  BY DEF InTable, Reading, Tracked
<1>2. Writing' = Writing
  <2>1. {q \in Proc : pc'[q] = "failing"} = {q \in Proc : pc[q] = "failing"}
    BY DEF Moved
  <2>2. \A q \in Proc : pc[q] = "failing" => The(q, "req")' = The(q, "req")
    BY Zenon DEF Moved, The
  <2> QED BY <2>1, <2>2 DEF Writing
<1>3. Types'
  BY Zenon DEF Types, Moved
<1>4. OneOwner'
  BY <1>1, <1>2 DEF OneOwner, Apart
<1>5. Owed' = Owed
  BY <1>1, <1>2 DEF Owed
<1>6. \A h \in Owed : Tracked(h) => h # The(p, "req")
  <2>1. CASE x = The(p, "req") /\ x \in cmds \cup errs
    BY <2>1 DEF OneOwner, Apart, Owed
  <2>2. CASE pc[p] = "await"
    BY <2>2, NotOwed
  <2> QED BY <2>1, <2>2
<1>7. IInv' /\ Sending' = Sending
  BY <1>1, <1>3, <1>4, <1>5, <1>6, Travels DEF Handlers
<1>8. CASE Tracked(x)
  <2>1. Waiting' = Waiting /\ Answers' = Answers \ {x} /\ Errors' = Errors \ {x} /\ x \in Answers \cup Errors
    BY <1>1, <1>5, <1>8 DEF Waiting, Answers, Errors
  <2>2. x \in Requests
    BY <1>8, Calls
  <2> QED BY <1>7, <2>1, <2>2, Takes
<1>9. CASE ~Tracked(x)
  <2>1. Waiting' = Waiting /\ Answers' = Answers /\ Errors' = Errors
    BY <1>1, <1>5, <1>9 DEF Waiting, Answers, Errors
  <2> QED BY <1>7, <2>1, Stutters
<1> QED BY <1>8, <1>9

\* The permanent Handlers are registered, by a goroutine to which nothing is owed.
LEMMA PermanentMoves ==
  ASSUME IInv, RegisterPermanent
  PROVE  IInv' /\ Simulates
<1> USE DEF IInv
<1>1. /\ UNCHANGED <<work, deferred, late, failing, cmds, errs, reader, todo, closer>>
      /\ pc["main"] = "begin" /\ closer # "sweep" /\ "main" \in Proc
      /\ table \subseteq table' /\ table' \subseteq table \cup {PermHandler(c) : c \in Perm}
  BY ProcAssumption DEF RegisterPermanent, Unlocked, history, channels, shutdown
<1>2. Moved("main")
  BY <1>1, OnwardsMoves DEF RegisterPermanent
<1>3. /\ InTable' = table' /\ InTable = table /\ Reading' = Reading /\ \A h : Tracked(h)' = Tracked(h)
  BY <1>1 DEF InTable, Reading, Tracked
<1>4. Writing' = Writing
  <2>1. {q \in Proc : pc'[q] = "failing"} = {q \in Proc : pc[q] = "failing"}
    BY <1>1, <1>2 DEF Moved
  <2>2. \A q \in Proc : pc[q] = "failing" => The(q, "req")' = The(q, "req")
    BY <1>1, <1>2, Zenon DEF Moved, The
  <2> QED BY <2>1, <2>2 DEF Writing
<1>5. \A h \in table' : h \in Handler /\ (IsRequest(h) \/ Tracked(h) => h \in table)
  BY <1>1, Permanents DEF Types
<1>6. Types'
  BY <1>1, <1>2, <1>5, Zenon DEF Types, Moved
<1>7. OneOwner'
  BY <1>1, <1>3, <1>4, <1>5 DEF OneOwner, Apart
<1>8. \A h : Tracked(h) => (h \in Owed' <=> h \in Owed)
  BY <1>1, <1>3, <1>4, <1>5 DEF Owed
<1>9. \A h \in Owed : Tracked(h) => h # The("main", "req")
  BY <1>1, NotOwed
<1>10. IInv' /\ Sending' = Sending
  BY <1>1, <1>2, <1>3, <1>5, <1>6, <1>7, <1>8, <1>9, Travels DEF Handlers
<1>11. Waiting' = Waiting /\ Answers' = Answers /\ Errors' = Errors
  BY <1>1, <1>3, <1>8 DEF Waiting, Answers, Errors
<1> QED BY <1>10, <1>11, Stutters

Stage(l) == CASE l = "begin" -> 1 [] l = "call" -> 2 [] l = "write" -> 3 [] OTHER -> 4

\* p goes on within its try, with or without a Handler of its own.
LEMMA Proceeds ==
  ASSUME IInv, NEW p \in Proc, NEW l \in Label, pc' = [pc EXCEPT ![p] = l],
         UNCHANGED <<work, pos>>, Types', OneOwner',
         Stage(pc[p]) <= Stage(l),
         pc[p] \in {"defer", "ended"} => l \in {"defer", "ended"},
         l \in {"call", "write", "receive", "failing"} => At(p).req # None,
         \A h \in Handlers' : IsRequest(h) => h \in Handlers \/ (h = The(p, "req") /\ Stage(l) > 2),
         \A h \in late' : h \in late \/ (h = The(p, "req") /\ Stage(l) > 3),
         \A h \in Owed' : Tracked(h)' =>
           IF h = The(p, "req") THEN l \in {"write", "receive", "failing"} ELSE h \in Owed /\ Tracked(h)
  PROVE  IInv'
<1> USE DEF IInv
<1>1. \A h : (Past(h)' <=> Past(h)) /\ (Now(h)' <=> Now(h))
  BY Zenon DEF Past, Now
<1>2. \A q \in Proc : At(q)' = At(q) /\ (q # p => pc'[q] = pc[q]) /\ pc'[p] = l
  BY Zenon DEF At, Types
<1>3. The(p, "req").owner = p /\ Now(The(p, "req"))
  BY TheOne, Zenon
<1>4. Where'
  BY <1>2, Zenon DEF Where
<1>5. Handlers' \subseteq Handler /\ late' \subseteq Handler
  BY HandlerAssumption DEF Handlers, Types, Reading
<1>6. /\ Stage(l) > 2 => l \notin {"begin", "call"}
      /\ Stage(l) > 3 => l \notin {"begin", "call", "write"}
      /\ pc[p] \notin {"begin", "call"} => l \notin {"begin", "call"}
      /\ pc[p] \notin {"begin", "call", "write"} => l \notin {"begin", "call", "write"}
  BY DEF Stage
<1>7. \A h \in Handler : IsRequest(h) => h.owner \in Proc
  BY Records
<1>8. Known'
  <2>1. \A h \in Handlers' : IsRequest(h) => Past(h)' \/ (Now(h)' /\ pc'[h.owner] \notin {"begin", "call"})
    <3> SUFFICES ASSUME NEW h \in Handlers', IsRequest(h)
                 PROVE  Past(h)' \/ (Now(h)' /\ pc'[h.owner] \notin {"begin", "call"})
      OBVIOUS
    <3>1. h.owner \in Proc
      BY <1>5, <1>7, Zenon
    <3>2. CASE h \in Handlers
      <4>1. Past(h) \/ (Now(h) /\ pc[h.owner] \notin {"begin", "call"})
        BY <3>2, Zenon DEF Known, Handlers
      <4> QED BY <4>1, <3>1, <1>1, <1>2, <1>6, Zenon
    <3>3. CASE h = The(p, "req") /\ Stage(l) > 2
      BY <3>3, <1>1, <1>2, <1>3, <1>6, Zenon
    <3> QED BY <3>2, <3>3, Zenon
  <2>2. \A h \in late' : IsRequest(h) => Past(h)' \/ (Now(h)' /\ pc'[h.owner] \notin {"begin", "call", "write"})
    <3> SUFFICES ASSUME NEW h \in late', IsRequest(h)
                 PROVE  Past(h)' \/ (Now(h)' /\ pc'[h.owner] \notin {"begin", "call", "write"})
      OBVIOUS
    <3>1. h.owner \in Proc
      BY <1>5, <1>7, Zenon
    <3>2. CASE h \in late
      <4>1. Past(h) \/ (Now(h) /\ pc[h.owner] \notin {"begin", "call", "write"})
        BY <3>2, Zenon DEF Known
      <4> QED BY <4>1, <3>1, <1>1, <1>2, <1>6, Zenon
    <3>3. CASE h = The(p, "req") /\ Stage(l) > 3
      BY <3>3, <1>1, <1>2, <1>3, <1>6, Zenon
    <3> QED BY <3>2, <3>3, Zenon
  <2> QED BY <2>1, <2>2, Zenon DEF Known, Handlers
<1>9. Live'
  <2> SUFFICES ASSUME NEW h \in Owed', Tracked(h)'
               PROVE  Now(h)' /\ pc'[h.owner] \in {"write", "receive", "failing"}
    BY Zenon DEF Live
  <2>1. CASE h = The(p, "req")
    BY <2>1, <1>1, <1>2, <1>3, Zenon
  <2>2. CASE h # The(p, "req")
    <3>1. h \in Owed /\ Tracked(h)
      BY <2>2, Zenon
    <3>2. h.owner \in Proc /\ h.owner # p
      BY <2>2, <3>1, Owned, Zenon
    <3> QED BY <3>1, <3>2, <1>1, <1>2, Zenon DEF Live
  <2> QED BY <2>1, <2>2, Zenon
<1> QED BY <1>4, <1>8, <1>9, Zenon

\* Only p's own Handler becomes one that has still to be written, or failed.
LEMMA OwnSets ==
  ASSUME IInv, NEW p \in Proc, NEW l \in Label, pc' = [pc EXCEPT ![p] = l], UNCHANGED pos
  PROVE  /\ \A q \in Proc : The(q, "req")' = The(q, "req")
         /\ pc[p] # "write" /\ l # "write" => Unsent' = Unsent
         /\ pc[p] = "write" /\ l # "write" =>
              Unsent' = Unsent \ {The(p, "req")} /\ The(p, "req") \in Unsent
         /\ l = "write" => Unsent' = Unsent \cup {The(p, "req")}
         /\ pc[p] # "failing" /\ l # "failing" => Writing' = Writing
         /\ l = "failing" => Writing' = Writing \cup {The(p, "req")}
<1> USE DEF IInv
<1>1. \A q \in Proc : The(q, "req")' = The(q, "req")
  BY DEF The
<1>2. \A q, r \in Proc : The(q, "req") = The(r, "req") => q = r
  BY DEF The
<1>3. \A q \in Proc : (q # p => pc'[q] = pc[q]) /\ pc'[p] = l
  BY DEF Types
<1>4. /\ pc[p] # "write" /\ l # "write" => Unsent' = Unsent
      /\ pc[p] = "write" /\ l # "write" =>
           Unsent' = Unsent \ {The(p, "req")} /\ The(p, "req") \in Unsent
      /\ l = "write" => Unsent' = Unsent \cup {The(p, "req")}
  BY <1>1, <1>2, <1>3 DEF Unsent
<1>5. /\ pc[p] # "failing" /\ l # "failing" => Writing' = Writing
      /\ l = "failing" => Writing' = Writing \cup {The(p, "req")}
  BY <1>1, <1>2, <1>3 DEF Writing
<1> QED BY <1>1, <1>4, <1>5

\* The Handler of an indication is registered; nothing changes for requests.
LEMMA Begins ==
  ASSUME IInv, NEW p \in Proc, Begin(p)
  PROVE  IInv' /\ Simulates
<1> USE DEF IInv
<1>1. /\ UNCHANGED <<work, pos, late, failing, cmds, errs, reader, todo, closer>>
      /\ pc[p] = "begin" /\ At(p) # Permanent
      /\ table' = table \/ (table' = table \cup {The(p, "ind")} /\ closer # "sweep")
      /\ deferred' = deferred \/ deferred' = [deferred EXCEPT ![p] = <<The(p, "ind")>> \o @]
  BY DEF Begin, registerHandler, Unlocked, handlers, channels, shutdown, history
<1>2. PICK l \in {"begin", "call", "await"} : /\ pc' = [pc EXCEPT ![p] = l]
                                              /\ l = "call" => At(p).req # None
  <2>1. CASE At(p).ind = None
    <3>1. At(p) = work[p][pos[p].g] /\ pos[p].g \in DOMAIN work[p]
      BY <1>1, Groups, Zenon DEF Where, At, Types, Place
    <3>2. work \in Scenarios
      BY DEF Types
    <3>3. At(p).req = None => At(p).ind # None \/ At(p) = Permanent
      BY <3>1, <3>2, WorkAssumption, Zenon
    <3>4. At(p).req # None
      BY <2>1, <3>3, <1>1, Zenon
    <3> QED BY <2>1, <3>4 DEF Begin
  <2>2. CASE At(p).ind # None
    BY <2>2, <1>1 DEF Begin
  <2> QED BY <2>1, <2>2
<1>3. l \in Label /\ l \notin {"write", "failing"} /\ pc[p] \notin {"write", "failing"}
  BY <1>1 DEF Label
<1>4. Writing' = Writing /\ Unsent' = Unsent
  <2>1. pos' = pos /\ pc' = [pc EXCEPT ![p] = l] /\ l \in Label
    BY <1>1, <1>2, <1>3
  <2>2. /\ pc[p] # "write" /\ l # "write" => Unsent' = Unsent
        /\ pc[p] # "failing" /\ l # "failing" => Writing' = Writing
    BY <2>1, OwnSets, Zenon
  <2> QED BY <1>3, <2>2
<1>5. /\ Reading' = Reading /\ \A h : Tracked(h)' = Tracked(h)
      /\ The(p, "ind") \in Handler /\ ~IsRequest(The(p, "ind")) /\ ~Tracked(The(p, "ind"))
      /\ The(p, "ind") \in [owner : Proc, g : Nat, t : Nat, kind : {"ind"}]
  BY <1>1, TheIndication, Zenon DEF Reading, Tracked
<1>6. \A h : Tracked(h) => (h \in InTable' <=> h \in InTable)
  BY <1>1, <1>5, Zenon DEF InTable
<1>7. Types'
  <2> DEFINE D == [owner : Proc, g : Nat, t : Nat, kind : {"ind"}]
  <2>1. deferred' \in [Proc -> Seq(D)]
    <3> HIDE DEF D
    <3>1. deferred \in [Proc -> Seq(D)] /\ The(p, "ind") \in D
      BY <1>5, Zenon DEF Types, D
    <3>2. <<The(p, "ind")>> \in Seq(D) /\ deferred[p] \in Seq(D)
      BY <3>1
    <3>3. <<The(p, "ind")>> \o deferred[p] \in Seq(D)
      BY <3>2
    <3> QED BY <1>1, <3>1, <3>3, Zenon
  <2>2. table' \subseteq Handler /\ todo' \subseteq table'
    BY <1>1, <1>5 DEF Types
  <2>3. pc' \in [Proc -> Label]
    BY <1>2, <1>3 DEF Types
  <2> HIDE DEF D
  <2> QED BY <1>1, <2>1, <2>2, <2>3, Zenon DEF Types, D
<1>8. OneOwner'
  BY <1>1, <1>4, <1>5, <1>6, Zenon DEF OneOwner, Apart
<1>9. \A h : Tracked(h) => (h \in Owed' <=> h \in Owed)
  BY <1>1, <1>4, <1>5, <1>6, Zenon DEF Owed
<1>10. \A h \in Owed : Tracked(h) => h # The(p, "req")
  BY <1>1, NotOwed
<1>11. Stage(pc[p]) <= Stage(l)
  BY <1>1, <1>2 DEF Stage
<1>12. \A h \in Handlers' : IsRequest(h) => h \in Handlers
  BY <1>1, <1>5, Zenon DEF Handlers
<1>13. IInv'
  <2>1. /\ UNCHANGED <<work, pos>> /\ late' = late /\ l \in Label /\ pc' = [pc EXCEPT ![p] = l]
        /\ pc[p] \notin {"defer", "ended"}
        /\ l \in {"call", "write", "receive", "failing"} => At(p).req # None
    BY <1>1, <1>2, <1>3
  <2>2. \A h \in Owed' : Tracked(h)' => h # The(p, "req") /\ h \in Owed /\ Tracked(h)
    BY <1>5, <1>9, <1>10, Zenon
  <2> QED BY <2>1, <2>2, <1>7, <1>8, <1>11, <1>12, Proceeds, Zenon
<1>14. Sending' = Sending /\ Waiting' = Waiting /\ Answers' = Answers /\ Errors' = Errors
  BY <1>1, <1>4, <1>5, <1>9, Zenon DEF Sending, Waiting, Answers, Errors
<1> QED BY <1>13, <1>14, Stutters

\* A call is made when its Handler is registered: the Handler is a new one.
LEMMA Registered ==
  ASSUME IInv, NEW p \in Proc, WriteCommandTimeout(p)
  PROVE  IInv' /\ Simulates
<1> USE DEF IInv
<1> DEFINE x == The(p, "req")
<1>1. /\ UNCHANGED <<work, pos, deferred, late, failing, cmds, errs, reader, todo, closer>>
      /\ pc[p] = "call" /\ closer # "sweep"
      /\ \/ table' = table /\ pc' = pc
         \/ table' = table \cup {x} /\ pc' = [pc EXCEPT ![p] = "write"]
  BY DEF WriteCommandTimeout, registerHandler, Unlocked, channels, shutdown, history
<1>2. CASE table' = table /\ pc' = pc
  BY <1>1, <1>2, Unmoved DEF channels
<1>3. CASE table' = table \cup {x} /\ pc' = [pc EXCEPT ![p] = "write"]
  <2>1. /\ x \in Handler /\ IsRequest(x) /\ Now(x) /\ x.owner = p /\ ~Past(x)
        /\ x.g = pos[p].g /\ x.t = pos[p].t
    <3>1. pos[p].g \in Nat /\ pos[p].t \in Nat
      BY DEF Types, Place
    <3>2. x \in Handler /\ IsRequest(x) /\ Now(x) /\ x.owner = p /\ x.g = pos[p].g /\ x.t = pos[p].t
      BY TheOne, Zenon
    <3> HIDE DEF x
    <3>3. ~Past(x)
      BY <3>1, <3>2 DEF Past
    <3> QED BY <3>2, <3>3
  <2> HIDE DEF x
  <2>2. x \notin Handlers /\ x \notin late
    BY <1>1, <2>1, Zenon DEF Known, Handlers
  <2>3. x \notin Owed /\ Tracked(x) /\ x \notin cmds /\ x \notin errs
    <3>1. Tracked(x) /\ x \notin cmds /\ x \notin errs
      BY <2>1, <2>2, Zenon DEF Tracked, IsRequest, Handlers
    <3>2. x \notin Owed
      BY <1>1, <2>1, <3>1 DEF Live
    <3> QED BY <3>1, <3>2
  <2>4. Writing' = Writing /\ Unsent' = Unsent \cup {x}
    BY <1>1, <1>3, OwnSets, Zenon DEF Label, x
  <2>5. /\ Reading' = Reading /\ InTable' = InTable \cup {x} /\ \A h : Tracked(h)' = Tracked(h)
    BY <1>1, <1>3 DEF Reading, InTable, Tracked
  <2>6. Owed' = Owed \cup {x}
    BY <1>1, <2>4, <2>5 DEF Owed
  <2>7. Types'
    BY <1>1, <1>3, <2>1, Zenon DEF Types, Label
  <2>8. OneOwner'
    BY <1>1, <2>2, <2>3, <2>4, <2>5 DEF OneOwner, Apart, Owed
  <2>9. Stage(pc[p]) <= Stage("write") /\ Stage("write") > 2 /\ "write" \in Label
    BY <1>1 DEF Stage, Label
  <2>10. \A h \in Handlers' : h \in Handlers \/ h = x
    BY <1>1, <1>3, <2>5 DEF Handlers
  <2>11. At(p).req # None
    BY <1>1 DEF Where
  <2>12. IInv'
    BY <1>1, <1>3, <2>5, <2>6, <2>7, <2>8, <2>9, <2>10, <2>11, Proceeds, Zenon DEF x
  <2>13. x \in Requests
    BY <1>1, Calls DEF x
  <2>14. /\ x \notin Waiting \cup Answers \cup Errors
         /\ Sending' = Sending \cup {x} /\ Waiting' = Waiting \cup {x}
         /\ Answers' = Answers /\ Errors' = Errors
    BY <1>1, <2>3, <2>4, <2>5, <2>6 DEF Sending, Waiting, Answers, Errors
  <2> QED BY <2>12, <2>13, <2>14, Makes
<1> QED BY <1>1, <1>2, <1>3

\* A goroutine that has still to write its frame has not failed to.
LEMMA NotLate ==
  ASSUME IInv, NEW p \in Proc, pc[p] = "write"
  PROVE  Tracked(The(p, "req")) /\ The(p, "req") \in Requests
<1> USE DEF IInv
<1> DEFINE x == The(p, "req")
<1>1. pos[p].g \in Nat /\ pos[p].t \in Nat
  BY DEF Types, Place
<1>2. IsRequest(x) /\ x.owner = p /\ x.g = pos[p].g /\ x.t = pos[p].t
  BY TheOne, Zenon
<1> HIDE DEF x
<1>3. ~Past(x)
  BY <1>1, <1>2 DEF Past
<1>4. x \notin late
  BY <1>2, <1>3 DEF Known
<1>5. x \in Requests
  BY Calls DEF x
<1> QED BY <1>2, <1>4, <1>5, Zenon DEF Tracked, IsRequest, x

\* The frame is written.
LEMMA Writes ==
  ASSUME IInv, NEW p \in Proc, Write(p)
  PROVE  IInv' /\ Simulates
<1> USE DEF IInv
<1>1. /\ UNCHANGED <<work, pos, deferred, late, table, failing, cmds, errs, reader, todo, closer>>
      /\ pc[p] = "write" /\ pc' = [pc EXCEPT ![p] = "receive"]
  BY Zenon DEF Write, handlers, channels, shutdown, history
<1>2. /\ Writing' = Writing /\ Unsent' = Unsent \ {The(p, "req")} /\ The(p, "req") \in Unsent
  BY <1>1, OwnSets, Zenon DEF Label
<1>3. /\ Reading' = Reading /\ InTable' = InTable /\ \A h : Tracked(h)' = Tracked(h)
  BY <1>1 DEF Reading, InTable, Tracked
<1>4. Owed' = Owed /\ Handlers' = Handlers
  BY <1>1, <1>2, <1>3 DEF Owed, Handlers
<1>5. Types'
  BY <1>1 DEF Types, Label
<1>6. OneOwner'
  BY <1>1, <1>2, <1>3 DEF OneOwner, Apart
<1>7. /\ Stage(pc[p]) <= Stage("receive") /\ "receive" \in Label /\ At(p).req # None
  BY <1>1 DEF Stage, Label, Where
<1>8. IInv'
  BY <1>1, <1>3, <1>4, <1>5, <1>6, <1>7, Proceeds, Zenon
<1>9. /\ Sending' = Sending \ {The(p, "req")} /\ The(p, "req") \in Sending
      /\ Waiting' = Waiting /\ Answers' = Answers /\ Errors' = Errors
  BY <1>1, <1>2, <1>3, <1>4, NotLate DEF Sending, Waiting, Answers, Errors
<1> QED BY <1>1, <1>8, <1>9, NotLate, Sends

\* A write that fails takes its own request's Handler from the table and no
\* other request's: goroutines that run together make different requests.
LEMMA OwnHeader ==
  ASSUME IInv, NEW p \in Proc, pc[p] = "write", closer # "sweep"
  PROVE  \A h \in table : Tracked(h) => (h \in Under(At(p).req) <=> h = The(p, "req"))
<1> USE DEF IInv
<1> SUFFICES ASSUME NEW h \in table, Tracked(h)
             PROVE  h \in Under(At(p).req) <=> h = The(p, "req")
  OBVIOUS
<1> DEFINE q == h.owner
<1>1. h \in Owed
  BY DEF Owed, InTable
<1>2. q \in Proc /\ h = The(q, "req")
  BY <1>1, Owned, Zenon
<1>3. pc[q] \in {"write", "receive", "failing"}
  BY <1>1, Zenon DEF Live
<1>4. HeaderOf(h) = At(q).req
  BY <1>2 DEF Tracked, HeaderOf, At, The
<1>5. /\ pos[p].g \in DOMAIN work[p] /\ pos[q].g \in DOMAIN work[q]
      /\ At(p).req # None
  BY <1>2, <1>3, Groups, Zenon DEF Where, Types, Place
<1>6. q # p => At(p).req # At(q).req
  <2>1. work \in Scenarios
    BY DEF Types
  <2>2. q # p => \A i \in DOMAIN work[p] : \A j \in DOMAIN work[q] :
                   work[p][i].req # None => work[p][i].req # work[q][j].req
    BY <1>2, <2>1, HeadersAssumption, Zenon
  <2> QED BY <1>5, <2>2, Zenon DEF At
<1>7. h = The(p, "req") <=> q = p
  BY <1>2 DEF The
<1> QED BY <1>4, <1>6, <1>7, Zenon DEF Under

\* A write that fails while the table still has the Handler fails the call
\* itself; when somebody has the Handler already, the call is given up.
LEMMA WritesNot ==
  ASSUME IInv, NEW p \in Proc, WriteFails(p)
  PROVE  IInv' /\ Simulates
<1> USE DEF IInv
<1> DEFINE x == The(p, "req")
<1>1. /\ UNCHANGED <<work, pos, deferred, failing, cmds, errs, reader, todo, closer>>
      /\ pc[p] = "write" /\ pc' = [pc EXCEPT ![p] = "failing"] /\ closer # "sweep"
      /\ table' = table \ Under(At(p).req)
      /\ late' = IF x \in table THEN late ELSE late \cup {x}
  BY DEF WriteFails, Unlocked, channels, shutdown
<1>2. Writing' = Writing \cup {x} /\ Unsent' = Unsent \ {x} /\ x \in Unsent
  BY <1>1, OwnSets, Zenon DEF Label
<1>3. \A h \in table : Tracked(h) => (h \in table' <=> h # x)
  BY <1>1, OwnHeader
<1>4. Tracked(x) /\ x \in Requests /\ x \in Handler /\ IsRequest(x)
  BY <1>1, NotLate, TheOne, Zenon
<1>5. Reading' = Reading /\ InTable = table /\ InTable' = table' /\ table' \subseteq table
  BY <1>1 DEF Reading, InTable
<1>6. Stage(pc[p]) <= Stage("failing") /\ Stage("failing") > 3 /\ "failing" \in Label /\ At(p).req # None
  BY <1>1 DEF Stage, Label, Where
<1> HIDE DEF x
<1>7. Types'
  <2>1. todo' = {} /\ late' \subseteq Handler
    BY <1>1, <1>4 DEF Types
  <2> QED BY <1>1, <1>5, <2>1, Zenon DEF Types, Label
<1>8. \A h \in Handlers' : h \in Handlers
  BY <1>1, <1>5 DEF Handlers
<1>9. ASSUME OneOwner', \A h \in Owed' : Tracked(h)' => h = x \/ (h \in Owed /\ Tracked(h))
      PROVE  IInv'
  BY <1>1, <1>6, <1>7, <1>8, <1>9, Proceeds, Zenon DEF x
<1>10. CASE x \in table
  <2>1. late' = late /\ \A h : Tracked(h)' = Tracked(h)
    BY <1>1, <1>10 DEF Tracked
  <2>2. \A h : Tracked(h) => (h \in Owed' <=> h \in Owed)
    BY <1>1, <1>2, <1>3, <1>5, <1>10 DEF Owed
  <2>3. x \notin Reading \cup failing \cup cmds \cup errs /\ x \notin table'
    <3>1. Apart(table, Reading \cup failing \cup Writing \cup cmds \cup errs)
      BY <1>5 DEF OneOwner
    <3>2. x \notin Reading \cup failing \cup cmds \cup errs
      BY <1>4, <1>10, <3>1 DEF Apart
    <3> QED BY <1>3, <1>4, <1>10, <3>2
  <2>4. OneOwner'
    <3>1. Apart(InTable, Reading \cup failing \cup Writing \cup cmds \cup errs)'
      BY <1>1, <1>2, <1>5, <2>1, <2>3, Zenon DEF OneOwner, Apart
    <3>2. Apart(Reading, failing \cup Writing \cup cmds \cup errs)'
      BY <1>1, <1>2, <1>5, <2>1, <2>3, Zenon DEF OneOwner, Apart
    <3>3. Apart(failing, Writing \cup cmds \cup errs)'
      BY <1>1, <1>2, <1>5, <2>1, <2>3 DEF OneOwner, Apart
    <3>4. Apart(Writing, cmds \cup errs)'
      BY <1>1, <1>2, <1>5, <2>1, <2>3, Zenon DEF OneOwner, Apart
    <3>5. Apart(cmds, errs)'
      BY <1>1, <1>2, <1>5, <2>1, <2>3 DEF OneOwner, Apart
    <3> QED BY <3>1, <3>2, <3>3, <3>4, <3>5 DEF OneOwner
  <2>5. IInv'
    BY <1>9, <2>1, <2>2, <2>4
  <2>6. /\ Sending' = Sending \ {x} /\ x \in Sending
        /\ Waiting' = Waiting /\ Answers' = Answers /\ Errors' = Errors
    BY <1>1, <1>2, <1>4, <2>1, <2>2 DEF Sending, Waiting, Answers, Errors
  <2> QED BY <1>4, <2>5, <2>6, Sends
<1>11. CASE x \notin table
  <2>1. \A h : Tracked(h)' <=> Tracked(h) /\ h # x
    BY <1>1, <1>11 DEF Tracked
  <2>2. \A h : Tracked(h) /\ h # x => (h \in Owed' <=> h \in Owed)
    BY <1>1, <1>2, <1>3, <1>5 DEF Owed
  <2>3. OneOwner'
    <3>1. Apart(InTable, Reading \cup failing \cup Writing \cup cmds \cup errs)'
      BY <1>1, <1>2, <1>5, <2>1, Zenon DEF OneOwner, Apart
    <3>2. Apart(Reading, failing \cup Writing \cup cmds \cup errs)'
      BY <1>1, <1>2, <1>5, <2>1, Zenon DEF OneOwner, Apart
    <3>3. Apart(failing, Writing \cup cmds \cup errs)'
      BY <1>1, <1>2, <1>5, <2>1, Zenon DEF OneOwner, Apart
    <3>4. Apart(Writing, cmds \cup errs)'
      BY <1>1, <1>2, <1>5, <2>1, Zenon DEF OneOwner, Apart
    <3>5. Apart(cmds, errs)'
      BY <1>1, <1>2, <1>5, <2>1, Zenon DEF OneOwner, Apart
    <3> QED BY <3>1, <3>2, <3>3, <3>4, <3>5 DEF OneOwner
  <2>4. IInv'
    BY <1>9, <2>1, <2>2, <2>3
  <2>5. /\ Sending' = Sending \ {x} /\ x \in Sending
        /\ Waiting' = Waiting \ {x} /\ Answers' = Answers \ {x} /\ Errors' = Errors \ {x}
    BY <1>1, <1>2, <1>4, <2>1, <2>2 DEF Sending, Waiting, Answers, Errors
  <2> QED BY <1>4, <2>4, <2>5, GivesUp
<1> QED BY <1>10, <1>11

\* The caller takes the result of its request.
LEMMA Receives ==
  ASSUME IInv, NEW p \in Proc, Receive(p)
  PROVE  IInv' /\ Simulates
<1> USE DEF IInv
<1> DEFINE x == The(p, "req")
<1>1. /\ UNCHANGED <<work, deferred, late, table, failing, reader, todo, closer>>
      /\ pc[p] = "receive" /\ x \in cmds \cup errs /\ cmds' = cmds \ {x} /\ errs' = errs \ {x}
      /\ \/ Failed(p) \/ Succeeded(p)
         \/ pc' = [pc EXCEPT ![p] = "await"] /\ pos' = pos
  BY DEF Receive, take, Full, handlers, shutdown, history
<1>2. x \in Handler
  BY TheOne, Zenon
<1>3. CASE Failed(p) \/ Succeeded(p)
  <2>1. Moved(p)
    BY <1>1, <1>3, OutcomeMoves
  <2> QED BY <1>1, <1>2, <2>1, TakesAndMoves
<1>4. CASE pc' = [pc EXCEPT ![p] = "await"] /\ pos' = pos
  <2>1. Writing' = Writing /\ Unsent' = Unsent
    BY <1>1, <1>4, OwnSets, Zenon DEF Label
  <2>2. Reading' = Reading /\ InTable' = InTable /\ \A h : Tracked(h)' = Tracked(h)
    BY <1>1 DEF Reading, InTable, Tracked
  <2>3. Owed' = Owed /\ \A h \in Handlers' : h \in Handlers
    BY <1>1, <2>1, <2>2 DEF Owed, Handlers
  <2>4. Types'
    BY <1>1, <1>4 DEF Types, Label
  <2>5. OneOwner'
    BY <1>1, <2>1, <2>2, Zenon DEF OneOwner, Apart
  <2>6. Tracked(x) => x \notin Owed
    BY <1>1 DEF OneOwner, Apart, Owed
  <2>7. Stage(pc[p]) <= Stage("await") /\ "await" \in Label
    BY <1>1 DEF Stage, Label
  <2>8. IInv'
    BY <1>1, <1>4, <2>2, <2>3, <2>4, <2>5, <2>6, <2>7, Proceeds, Zenon
  <2>9. Sending' = Sending /\ Waiting' = Waiting
    BY <2>1, <2>2, <2>3 DEF Sending, Waiting
  <2>10. CASE Tracked(x)
    <3>1. Answers' = Answers \ {x} /\ Errors' = Errors \ {x} /\ x \in Answers \cup Errors
      BY <1>1, <2>2, <2>10 DEF Answers, Errors
    <3>2. x \in Requests
      BY <1>1, Calls
    <3> QED BY <2>8, <2>9, <3>1, <3>2, Takes
  <2>11. CASE ~Tracked(x)
    <3>1. Answers' = Answers /\ Errors' = Errors
      BY <1>1, <2>2, <2>11 DEF Answers, Errors
    <3> QED BY <2>8, <2>9, <3>1, Stutters
  <2> QED BY <2>10, <2>11
<1> QED BY <1>1, <1>3, <1>4

\* The caller takes the indication.
LEMMA Awaits ==
  ASSUME IInv, NEW p \in Proc, Await(p)
  PROVE  IInv' /\ Simulates
<1> USE DEF IInv
<1>1. /\ UNCHANGED <<work, deferred, late, table, failing, reader, todo, closer>>
      /\ pc[p] = "await" /\ (Failed(p) \/ Succeeded(p))
      /\ cmds' = cmds \ {The(p, "ind")} /\ errs' = errs \ {The(p, "ind")}
  BY DEF Await, take, handlers, shutdown, history
<1>2. Moved(p)
  BY <1>1, OutcomeMoves
<1>3. The(p, "ind") \in Handler /\ ~Tracked(The(p, "ind"))
  BY TheIndication
<1> QED BY <1>1, <1>2, <1>3, TakesAndMoves

\* A goroutine that is done runs what it deferred.
LEMMA Defers ==
  ASSUME IInv, NEW p \in Proc, Defer(p)
  PROVE  IInv' /\ Simulates
<1> USE DEF IInv
<1> DEFINE D == [owner : Proc, g : Nat, t : Nat, kind : {"ind"}]
<1>1. /\ UNCHANGED <<work, pos, late, table, failing, reader, todo, closer>> /\ pc[p] = "defer"
      /\ \/ /\ pc' = [pc EXCEPT ![p] = "ended"]
            /\ deferred' = deferred /\ cmds' = cmds /\ errs' = errs
         \/ /\ deferred[p] # <<>> /\ pc' = pc /\ cmds' = cmds
            /\ errs' = errs \cup {Head(deferred[p])}
            /\ deferred' = [deferred EXCEPT ![p] = Tail(@)]
  BY DEF Defer, fail, channels, handlers, shutdown, history
<1>2. CASE /\ pc' = [pc EXCEPT ![p] = "ended"]
           /\ deferred' = deferred /\ cmds' = cmds /\ errs' = errs
  <2>1. Writing' = Writing /\ Unsent' = Unsent
    BY <1>1, <1>2, OwnSets, Zenon DEF Label
  <2>2. Reading' = Reading /\ InTable' = InTable /\ \A h : Tracked(h)' = Tracked(h)
    BY <1>1 DEF Reading, InTable, Tracked
  <2>3. Owed' = Owed /\ Handlers' = Handlers
    BY <1>1, <1>2, <2>1, <2>2 DEF Owed, Handlers
  <2>4. Types'
    BY <1>1, <1>2 DEF Types, Label
  <2>5. OneOwner'
    BY <1>1, <1>2, <2>1, <2>2, Zenon DEF OneOwner, Apart
  <2>6. \A h \in Owed : Tracked(h) => h # The(p, "req")
    BY <1>1, NotOwed
  <2>7. Stage(pc[p]) <= Stage("ended") /\ "ended" \in Label
    BY <1>1 DEF Stage, Label
  <2>8. IInv'
    BY <1>1, <1>2, <2>2, <2>3, <2>4, <2>5, <2>6, <2>7, Proceeds, Zenon
  <2>9. Sending' = Sending /\ Waiting' = Waiting /\ Answers' = Answers /\ Errors' = Errors
    BY <1>2, <2>1, <2>2, <2>3 DEF Sending, Waiting, Answers, Errors
  <2> QED BY <2>8, <2>9, Stutters
<1>3. CASE /\ deferred[p] # <<>> /\ pc' = pc /\ cmds' = cmds
           /\ errs' = errs \cup {Head(deferred[p])}
           /\ deferred' = [deferred EXCEPT ![p] = Tail(@)]
  <2>1. Head(deferred[p]) \in D /\ Tail(deferred[p]) \in Seq(D) /\ deferred \in [Proc -> Seq(D)]
    <3> HIDE DEF D
    <3>1. deferred \in [Proc -> Seq(D)]
      BY Zenon DEF Types, D
    <3>2. deferred[p] \in Seq(D) /\ deferred[p] # <<>>
      BY <3>1, <1>3
    <3> QED BY <3>1, <3>2
  <2>2. PICK x \in D : x = Head(deferred[p])
    BY <2>1
  <2>3. x \in Handler /\ ~IsRequest(x) /\ ~Tracked(x)
    BY Zenon DEF Handler, IsRequest, Tracked
  <2>4. deferred' \in [Proc -> Seq(D)]
    <3> HIDE DEF D
    <3> QED BY <1>3, <2>1
  <2> QED BY <1>1, <1>3, <2>2, <2>3, <2>4, OtherResults, Zenon
<1> QED BY <1>1, <1>2, <1>3

-----------------------------------------------------------------------------

LEMMA First ==
  ASSUME NEW S, NEW s \in Seq(S), s # <<>>
  PROVE  Len(s) \in Nat /\ Len(s) >= 1 /\ s[1] \in S
  OBVIOUS

LEMMA Initially ==
  ASSUME Init
  PROVE  IInv /\ Promise!Init
<1>1. Types
  <2>1. pos \in [Proc -> Place]
    <3>1. [g |-> 1, t |-> 1] \in Place
      BY DEF Place
    <3> QED BY <3>1, Zenon DEF Init
  <2>3. pc \in [Proc -> Label]
    BY DEF Init, Label
  <2>2. deferred \in [Proc -> Seq([owner : Proc, g : Nat, t : Nat, kind : {"ind"}])]
    BY DEF Init
  <2> QED BY <2>1, <2>2, <2>3, Zenon DEF Init, Types
<1>2. /\ table = {} /\ failing = {} /\ cmds = {} /\ errs = {} /\ late = {} /\ reader = None
      /\ closer = "open" /\ todo = {} /\ work \in Scenarios
      /\ \A p \in Proc : pos[p].g = 1 /\ pos[p].t = 1
      /\ \A p \in Proc : pc[p] = IF work[p] = <<>> THEN "ended" ELSE "begin"
  BY Zenon DEF Init
<1>3. InTable = {} /\ Reading = {} /\ Writing = {} /\ Unsent = {} /\ Owed = {}
  BY <1>2, Zenon DEF InTable, Reading, Writing, Unsent, Owed
<1>4. Where
  <2> SUFFICES ASSUME NEW p \in Proc, pc[p] = "begin"
               PROVE  pos[p].g <= Len(work[p]) /\ pos[p].t <= At(p).tries
    BY <1>2, Zenon DEF Where
  <2>1. work[p] \in Seq(Group) /\ work[p] # <<>>
    BY <1>2, WorkAssumption, Zenon
  <2>2. Len(work[p]) \in Nat /\ Len(work[p]) >= 1 /\ work[p][1] \in Group
    BY <2>1, First, Zenon
  <2>3. work[p][1].tries \in Nat \ {0}
    BY <2>2 DEF Group
  <2>4. 1 <= work[p][1].tries
    BY <2>3
  <2>5. pos[p].g = 1 /\ pos[p].t = 1 /\ At(p) = work[p][1]
    BY <1>2 DEF At
  <2> QED BY <2>2, <2>4, <2>5, Zenon
<1>5. Known /\ Live /\ OneOwner
  BY <1>2, <1>3, Zenon DEF Known, Live, OneOwner, Apart
<1>6. Promise!Init
  BY <1>2, <1>3, Zenon DEF Promise!Init
<1> QED BY <1>1, <1>4, <1>5, <1>6 DEF IInv

LEMMA StepKeeps ==
  ASSUME IInv, [Next]_vars
  PROVE  IInv' /\ Simulates
<1>1. CASE UNCHANGED vars
  BY <1>1, Unmoved DEF vars, goroutines, handlers, channels, shutdown, history
<1>2. ASSUME NEW p \in Proc, Runs(p)
      PROVE  IInv' /\ Simulates
  <2> USE <1>2
  <2>1. CASE Begin(p)               BY <2>1, Begins
  <2>2. CASE WriteCommandTimeout(p) BY <2>2, Registered
  <2>3. CASE Write(p)               BY <2>3, Writes
  <2>4. CASE WriteFails(p)          BY <2>4, WritesNot
  <2>5. CASE FailOwn(p)             BY <2>5, OwnFails
  <2>6. CASE Receive(p)             BY <2>6, Receives
  <2>7. CASE Await(p)               BY <2>7, Awaits
  <2>8. CASE Defer(p)               BY <2>8, Defers
  <2> QED BY <2>1, <2>2, <2>3, <2>4, <2>5, <2>6, <2>7, <2>8 DEF Runs
<1>3. ASSUME NEW h, TimerFires(h)
      PROVE  IInv' /\ Simulates
  BY <1>3, TimerTakes
<1>4. ASSUME NEW h \in failing, TimerFails(h)
      PROVE  IInv' /\ Simulates
  BY <1>4, FailsOne DEF TimerFails, fail, goroutines, channels, shutdown, history
<1>5. ASSUME NEW c \in Perm, Arrive(c) \/ Deliver(c)
      PROVE  IInv' /\ Simulates
  BY <1>5, Unmoved, Zenon DEF Arrive, Deliver, goroutines, handlers, channels, shutdown, history
<1>6. ASSUME NEW c \in Perm, Consume(c)
      PROVE  IInv' /\ Simulates
  <2>1. /\ UNCHANGED <<work, pos, pc, deferred, late, table, failing, reader, todo, closer>>
        /\ cmds' = cmds \ {PermHandler(c)} /\ errs' = errs \ {PermHandler(c)}
    BY <1>6 DEF Consume, take, goroutines, handlers, shutdown, history
  <2>2. deferred' \in [Proc -> Seq([owner : Proc, g : Nat, t : Nat, kind : {"ind"}])]
    BY <2>1, Zenon DEF IInv, Types
  <2> QED BY <2>1, <2>2, Permanents, OtherResults, Zenon
<1>7. ASSUME NEW hd, handleFrame(hd)
      PROVE  IInv' /\ Simulates
  BY <1>7, FrameTakes
<1>8. CASE LoopExits \/ StopRunning \/ Close
  BY <1>8, Unmoved, Zenon DEF LoopExits, StopRunning, Close, goroutines, handlers, channels, shutdown, history
<1>9. ASSUME NEW h \in todo, CloseFails(h)
      PROVE  IInv' /\ Simulates
  BY <1>9, FailsOne DEF CloseFails, fail, goroutines, handlers, channels, history
<1> QED
  BY <1>1, <1>2, <1>3, <1>4, <1>5, <1>6, <1>7, <1>8, <1>9, Fulfills, PermanentMoves, Sweeps DEF Next

\* Handlers are where the code's locking puts them, in every reachable state.
THEOREM Invariance == Spec => []IInv
<1>1. Init => IInv
  BY Initially
<1>2. IInv /\ [Next]_vars => IInv'
  BY StepKeeps
<1> QED BY <1>1, <1>2, PTL DEF Spec

\* At most one of the read loop, the timer, Close and the writer ever answers
\* for a request, for any number of goroutines and requests.
THEOREM OneOwnerHolds == Spec => []OneOwner
<1>1. IInv => OneOwner
  BY DEF IInv
<1> QED BY <1>1, Invariance, PTL

\* WriteCommandTimeout keeps its promise: a request that was written has one
\* outcome, an answer or an error, delivered once, for any number of
\* goroutines, requests and tries and in every order of the read loop, the
\* timers, Close and failing writes.
THEOREM PromisedHolds == Spec => Promised
<1>1. Init => Promise!Init
  BY Initially
<1>2. IInv /\ [Next]_vars => [Promise!Next]_(Promise!vars)
  BY StepKeeps DEF Simulates
<1> QED BY <1>1, <1>2, Invariance, PTL DEF Spec, Promised, Promise!Spec
=============================================================================
