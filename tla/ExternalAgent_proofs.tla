-------------------------- MODULE ExternalAgent_proofs --------------------------
(***************************************************************************)
(* FailStop and TurnsInOrder hold of ExternalAgent for every set of tasks, *)
(* message length and number of calls, sessions and faults.                *)
(***************************************************************************)
EXTENDS ExternalAgent, FiniteSetTheorems, TLAPS

\* What Append does to a sequence of anything.
LEMMA OutcomeAppended ==
  ASSUME NEW s, NEW e, s \in Seq(ToSet(s))
  PROVE  /\ Append(s, e) \in Seq(ToSet(Append(s, e)))
         /\ Len(s) \in Nat
         /\ DOMAIN s = 1 .. Len(s)
         /\ DOMAIN Append(s, e) = 1 .. (Len(s) + 1)
         /\ \A i \in 1 .. Len(s) : Append(s, e)[i] = s[i]
         /\ Append(s, e)[Len(s) + 1] = e
         /\ Len(Append(s, e)) = Len(s) + 1
<1> DEFINE t == Append(s, e)
<1>1. s \in Seq(ToSet(s) \cup {e})
  OBVIOUS
<1>2. /\ t \in Seq(ToSet(s) \cup {e})
      /\ Len(s) \in Nat /\ Len(t) \in Nat
      /\ DOMAIN s = 1 .. Len(s)
      /\ DOMAIN t = 1 .. Len(t) /\ Len(t) = Len(s) + 1
      /\ \A i \in 1 .. Len(s) : t[i] = s[i]
      /\ t[Len(s) + 1] = e
  BY <1>1
<1> HIDE DEF t
<1>3. t \in [1 .. Len(t) -> ToSet(s) \cup {e}]
  BY <1>2
<1>4. t \in [1 .. Len(t) -> ToSet(t)]
  BY <1>2, <1>3 DEF ToSet
<1>5. t \in Seq(ToSet(t))
  BY <1>2, <1>4
<1> QED
  BY <1>2, <1>5 DEF t

\* A call may end in any way while the endpoint is sound, and otherwise only
\* without an answer; one that fails leaves an endpoint that is not sound.
LEMMA OutcomeKept ==
  ASSUME FailStopInv, NEW e, outcomes' = Append(outcomes, e),
         closed' \in BOOLEAN, poisoned' \in BOOLEAN,
         closed \/ poisoned => closed' \/ poisoned',
         e.result = "ok" => ~closed /\ ~poisoned,
         e.result \in {"failed", "bye"} => closed' \/ poisoned',
         call' = None
  PROVE  FailStopInv'
<1>1. /\ outcomes' \in Seq(ToSet(outcomes'))
      /\ DOMAIN outcomes' = 1 .. (Len(outcomes) + 1)
      /\ DOMAIN outcomes = 1 .. Len(outcomes)
      /\ Len(outcomes) \in Nat
      /\ \A i \in 1 .. Len(outcomes) : outcomes'[i] = outcomes[i]
      /\ outcomes'[Len(outcomes) + 1] = e
  BY OutcomeAppended DEF FailStopInv
<1>2. Ended' # {} => closed' \/ poisoned'
  BY <1>1 DEF FailStopInv, Ended
<1>3. FailStop'
  <2> SUFFICES ASSUME NEW i \in DOMAIN outcomes', NEW j \in DOMAIN outcomes',
                      i < j, outcomes'[i].result \in {"failed", "bye"},
                      outcomes'[j].result = "ok"
               PROVE  FALSE
    BY DEF FailStop
  <2>1. CASE j \in DOMAIN outcomes
    BY <1>1, <2>1 DEF FailStopInv, FailStop
  <2>2. CASE j = Len(outcomes) + 1
    BY <1>1, <2>2 DEF FailStopInv, Ended
  <2> QED
    BY <1>1, <2>1, <2>2
<1> QED
  BY <1>1, <1>2, <1>3 DEF FailStopInv

\* A step within a call: the endpoint's soundness stays, and the call goes
\* past its beginning only on a sound endpoint.
LEMMA CallKept ==
  ASSUME FailStopInv, UNCHANGED <<outcomes, closed, poisoned>>,
         closed \/ poisoned => call' = None \/ call'.stage = "connect"
  PROVE  FailStopInv'
BY DEF FailStopInv, Ended, FailStop

LEMMA EndCallKept ==
  ASSUME FailStopInv, NEW result, NEW body, EndCall(result, body),
         closed' \in BOOLEAN, poisoned' \in BOOLEAN,
         closed \/ poisoned => closed' \/ poisoned',
         result = "ok" => ~closed /\ ~poisoned,
         result \in {"failed", "bye"} => closed' \/ poisoned'
  PROVE  FailStopInv'
<1> DEFINE e == [op |-> call.asking, arg |-> call.arg, result |-> result, body |-> body]
<1>1. outcomes' = Append(outcomes, e) /\ call' = None /\ e.result = result
  BY DEF EndCall
<1> HIDE DEF e
<1> QED
  BY <1>1, OutcomeKept

LEMMA FailsStep ==
  ASSUME FailStopInv, Fails
  PROVE  FailStopInv'
BY OutcomeKept DEF Fails, Poison, EndCall, FailStopInv

LEMMA ControllerStep ==
  ASSUME FailStopInv, Controller
  PROVE  FailStopInv'
<1>0. Sending \/ Waiting => ~closed /\ ~poisoned
  BY DEF Sending, Waiting, FailStopInv
<1>1. CASE Unavailable
  BY <1>1, OutcomeKept DEF Unavailable, EndCall, FailStopInv
<1>2. CASE ConnectFails \/ SendFails \/ TimesOut \/ ConnectionLost \/ Oversized
  BY <1>2, FailsStep DEF ConnectFails, SendFails, TimesOut, ConnectionLost, Oversized
<1>3. CASE Connect
  BY <1>3, CallKept DEF Connect
<1>4. CASE Connected
  <2>1. ~closed /\ ~poisoned /\ UNCHANGED <<closed, poisoned>>
    BY <1>4 DEF Connected
  <2>2. CASE call.asking = "PEER"
    <3>1. EndCall("ok", None) \/ EndCall("refused", None)
      BY <1>4, <2>2 DEF Connected
    <3> QED
      BY <2>1, <3>1, EndCallKept DEF FailStopInv
  <2>3. CASE call.asking # "PEER"
    BY <1>4, <2>1, <2>3, CallKept DEF Connected
  <2> QED
    BY <2>2, <2>3
<1>5. CASE FrameTooLong
  BY <1>5, OutcomeKept DEF FrameTooLong, EndCall, FailStopInv
<1>6. CASE Send
  BY <1>0, <1>6, CallKept DEF Send
<1>7. CASE ReadPiece
  BY <1>0, <1>7, CallKept DEF ReadPiece
<1>8. CASE Greeted
  BY <1>0, <1>8, CallKept DEF Greeted, Line
<1>9. CASE Answered
  <2>1. /\ ~closed /\ ~poisoned /\ UNCHANGED <<closed, poisoned>>
        /\ EndCall("ok", reply.body)
    BY <1>0, <1>9 DEF Answered, Line
  <2> QED
    BY <2>1, EndCallKept DEF FailStopInv
<1>10. CASE AnswerRejected
  <2>1. Poison /\ EndCall("failed", None) /\ closed' = closed
    BY <1>10 DEF AnswerRejected
  <2> QED
    BY <2>1, EndCallKept DEF Poison, FailStopInv
<1> QED
  BY <1>1, <1>2, <1>3, <1>4, <1>5, <1>6, <1>7, <1>8, <1>9, <1>10 DEF Controller

LEMMA FailStopStep == FailStopInv /\ [Next]_vars => FailStopInv'
<1> SUFFICES ASSUME FailStopInv, [Next]_vars PROVE FailStopInv'
  OBVIOUS
<1>1. CASE BeginStart \/ BeginTurn \/ BeginClose \/ BeginOther
  BY <1>1, CallKept DEF BeginStart, BeginTurn, BeginClose, BeginOther, Begin, Asked
<1>2. CASE CallsUnknown
  BY <1>2, OutcomeKept DEF CallsUnknown, MayCall, FailStopInv
<1>3. CASE Disconnect
  BY <1>3, OutcomeKept DEF Disconnect, MayCall, FailStopInv
<1>4. CASE Controller
  BY <1>4, ControllerStep
<1>5. CASE Service \/ UNCHANGED vars
  <2>1. UNCHANGED client
    BY <1>5 DEF Service, WorkerAnswers, WorkerStarts, WorkerDecides, WorkerCloses, WorkerFails,
                Replies, PieceArrives, HandlerReturns, Spoil, vars
  <2> QED
    BY <2>1, CallKept DEF client, FailStopInv
<1> QED
  BY <1>1, <1>2, <1>3, <1>4, <1>5 DEF Next

(* Once a call of the external endpoint has failed, or it is disconnected, *)
(* it answers nothing more (_poison and _ensure_connected): there is no    *)
(* reconnection a stale session could survive.                             *)
THEOREM ExternalFailStop == Spec => []FailStop
<1>1. Init => FailStopInv
  <2> SUFFICES ASSUME Init PROVE FailStopInv
    OBVIOUS
  <2>1. outcomes = <<>> /\ DOMAIN outcomes = {} /\ outcomes \in Seq(ToSet(outcomes))
    BY DEF Init
  <2> QED
    BY <2>1 DEF Init, FailStopInv, Ended, FailStop
<1>2. FailStopInv => FailStop
  BY DEF FailStopInv
<1> QED
  BY <1>1, <1>2, FailStopStep, PTL DEF Spec
-----------------------------------------------------------------------------
(* The turns of a session. *)

\* There are finitely many.
LEMMA FewTurns ==
  ASSUME NEW h, NEW n \in Nat, NEW s
  PROVE  /\ Cardinality(TurnsUpTo(h, n, s)) \in Nat
         /\ Cardinality(TurnsUpTo(h, n, s) \cup {n + 1}) = Cardinality(TurnsUpTo(h, n, s)) + 1
<1>1. IsFiniteSet(1 .. n)
  BY FS_Interval
<1>2. TurnsUpTo(h, n, s) \subseteq 1 .. n
  BY DEF TurnsUpTo
<1>3. IsFiniteSet(TurnsUpTo(h, n, s))
  BY <1>1, <1>2, FS_Subset
<1>4. n + 1 \notin TurnsUpTo(h, n, s)
  BY <1>2
<1> QED
  BY <1>3, <1>4, FS_CardinalityType, FS_AddElement

\* What one more outcome adds to the turns of a session.
LEMMA TurnsCounted ==
  ASSUME NEW h, h \in Seq(ToSet(h)), NEW o, NEW s
  PROVE  /\ \A i \in 0 .. Len(h) : TurnsUpTo(Append(h, o), i, s) = TurnsUpTo(h, i, s)
         /\ TurnsSoFar(Append(h, o), s) =
               TurnsSoFar(h, s) \cup (IF IsTurn(o) /\ o.arg.session = s THEN {Len(h) + 1} ELSE {})
<1> DEFINE g == Append(h, o)
           n == Len(h)
<1>1. /\ n \in Nat /\ Len(g) = n + 1 /\ g[n + 1] = o /\ \A i \in 1 .. n : g[i] = h[i]
  BY OutcomeAppended
<1> HIDE DEF g, n
<1>2. ASSUME NEW i \in 0 .. n PROVE TurnsUpTo(g, i, s) = TurnsUpTo(h, i, s)
  <2>1. \A j \in 1 .. i : g[j] = h[j]
    BY <1>1
  <2> QED
    BY <2>1 DEF TurnsUpTo
<1>3. 1 .. (n + 1) = (1 .. n) \cup {n + 1}
  BY <1>1
<1>4. TurnsUpTo(g, n + 1, s) =
         TurnsUpTo(h, n, s) \cup (IF IsTurn(o) /\ o.arg.session = s THEN {n + 1} ELSE {})
  BY <1>1, <1>3 DEF TurnsUpTo
<1> QED
  BY <1>1, <1>2, <1>4 DEF TurnsSoFar, g, n

\* An outcome that is no turn changes no count.
LEMMA OtherOutcome ==
  ASSUME NEW h, h \in Seq(ToSet(h)), NEW o, ~IsTurn(o)
  PROVE  /\ InOrder(h) => InOrder(Append(h, o))
         /\ \A s : TurnsSoFar(Append(h, o), s) = TurnsSoFar(h, s)
         /\ \A i \in DOMAIN Append(h, o) : IsTurn(Append(h, o)[i]) =>
                i \in DOMAIN h /\ Append(h, o)[i] = h[i]
<1> DEFINE g == Append(h, o)
           n == Len(h)
<1>1. /\ n \in Nat /\ DOMAIN h = 1 .. n /\ DOMAIN g = 1 .. (n + 1)
      /\ g[n + 1] = o /\ \A i \in 1 .. n : g[i] = h[i]
  BY OutcomeAppended
<1>2. ASSUME NEW s
      PROVE  /\ \A i \in 0 .. n : TurnsUpTo(g, i, s) = TurnsUpTo(h, i, s)
             /\ TurnsSoFar(g, s) = TurnsSoFar(h, s)
  <2>1. /\ \A i \in 0 .. n : TurnsUpTo(g, i, s) = TurnsUpTo(h, i, s)
        /\ TurnsSoFar(g, s) =
              TurnsSoFar(h, s) \cup (IF IsTurn(o) /\ o.arg.session = s THEN {n + 1} ELSE {})
    BY TurnsCounted
  <2> QED
    BY <2>1
<1> HIDE DEF g, n
<1>3. ASSUME NEW i \in DOMAIN g, IsTurn(g[i])
      PROVE  i \in 0 .. n /\ i \in DOMAIN h /\ g[i] = h[i]
  <2>1. i # n + 1
    BY <1>1, <1>3
  <2> QED
    BY <1>1, <2>1
<1>4. InOrder(h) => InOrder(g)
  BY <1>2, <1>3 DEF InOrder
<1> QED
  BY <1>2, <1>3, <1>4 DEF g

\* The answer of the turn that is due is the next of its session.
LEMMA DueTurn ==
  ASSUME NEW h, h \in Seq(ToSet(h)), NEW o, InOrder(h), IsTurn(o),
         o.body = <<o.op, o.arg.session, Cardinality(TurnsSoFar(h, o.arg.session)) + 1>>
  PROVE  /\ InOrder(Append(h, o))
         /\ Cardinality(TurnsSoFar(Append(h, o), o.arg.session))
              = Cardinality(TurnsSoFar(h, o.arg.session)) + 1
         /\ \A s : s # o.arg.session => TurnsSoFar(Append(h, o), s) = TurnsSoFar(h, s)
<1> DEFINE g == Append(h, o)
           n == Len(h)
           due == o.arg.session
<1>1. /\ n \in Nat /\ DOMAIN h = 1 .. n /\ DOMAIN g = 1 .. (n + 1) /\ Len(g) = n + 1
      /\ g[n + 1] = o /\ \A i \in 1 .. n : g[i] = h[i]
  BY OutcomeAppended
<1>2. /\ \A i \in 0 .. n : \A s : TurnsUpTo(g, i, s) = TurnsUpTo(h, i, s)
      /\ \A s : TurnsSoFar(g, s) = TurnsSoFar(h, s) \cup (IF due = s THEN {n + 1} ELSE {})
  BY TurnsCounted
<1>3. Cardinality(TurnsSoFar(h, due) \cup {n + 1}) = Cardinality(TurnsSoFar(h, due)) + 1
  BY <1>1, FewTurns DEF TurnsSoFar
<1> HIDE DEF g, n, due
<1>4. Cardinality(TurnsSoFar(g, due)) = Cardinality(TurnsSoFar(h, due)) + 1
  BY <1>2, <1>3
<1>5. ASSUME NEW i \in DOMAIN g, IsTurn(g[i])
      PROVE  LET s == g[i].arg.session
             IN  g[i].body = <<g[i].op, s, Cardinality(TurnsUpTo(g, i, s))>>
  <2>1. CASE i = n + 1
    BY <1>1, <1>4, <2>1 DEF TurnsSoFar, due
  <2>2. CASE i # n + 1
    <3>1. i \in 0 .. n /\ i \in DOMAIN h /\ g[i] = h[i]
      BY <1>1, <2>2
    <3>2. TurnsUpTo(g, i, g[i].arg.session) = TurnsUpTo(h, i, h[i].arg.session)
      BY <1>2, <3>1
    <3> QED
      BY <1>5, <3>1, <3>2 DEF InOrder
  <2> QED
    BY <2>1, <2>2
<1>6. InOrder(g)
  BY <1>5 DEF InOrder
<1>7. \A s : s # due => TurnsSoFar(g, s) = TurnsSoFar(h, s)
  BY <1>2
<1> QED
  BY <1>4, <1>6, <1>7 DEF g, due
\* The outcomes grow by none that is a turn.
NoTurnAdded ==
    \/ outcomes' = outcomes
    \/ \E o : ~IsTurn(o) /\ outcomes' = Append(outcomes, o)

\* Such outcomes leave every count, and the numbers used, as they were.
LEMMA NothingCounted ==
  ASSUME outcomes \in Seq(ToSet(outcomes)), NoTurnAdded
  PROVE  /\ InOrder(outcomes) => InOrder(outcomes')
         /\ \A s : TurnsSoFar(outcomes', s) = TurnsSoFar(outcomes, s)
         /\ \A i \in DOMAIN outcomes' : IsTurn(outcomes'[i]) =>
                i \in DOMAIN outcomes /\ outcomes'[i] = outcomes[i]
<1>1. CASE outcomes' = outcomes
  BY <1>1
<1>2. ASSUME NEW o, ~IsTurn(o), outcomes' = Append(outcomes, o)
      PROVE  /\ InOrder(outcomes) => InOrder(Append(outcomes, o))
             /\ \A s : TurnsSoFar(Append(outcomes, o), s) = TurnsSoFar(outcomes, s)
             /\ \A i \in DOMAIN Append(outcomes, o) : IsTurn(Append(outcomes, o)[i]) =>
                    i \in DOMAIN outcomes /\ Append(outcomes, o)[i] = outcomes[i]
  BY <1>2, OtherOutcome
<1> QED
  BY <1>1, <1>2 DEF NoTurnAdded
-----------------------------------------------------------------------------
(* What each step leaves of TurnsInv. *)

\* What is known of a usable endpoint and its connection.
UsableInv ==
    /\ LineInv
    /\ IF socket = "none" THEN UnconnectedInv
       ELSE DueInv /\ CountInv /\ NumberedInv /\ AgreementInv

\* An endpoint does not become usable again, and its connection ends with it.
LEMMA UsableBefore ==
  ASSUME TurnsInv, Next
  PROVE  /\ Usable' => Usable
         /\ socket' \in {"none", "open"} /\ (socket' = "open" => Usable')
         /\ opened' \in Nat /\ faults' \in Nat
<1>1. /\ opened \in Nat /\ faults \in Nat /\ socket \in {"none", "open"}
      /\ socket = "open" => ~closed /\ ~poisoned
  BY DEF TurnsInv, Usable
<1>2. CASE UNCHANGED <<socket, closed, poisoned>>
  <2>1. opened' \in {opened, opened + 1, 0} /\ faults' \in {faults, faults + 1}
    BY <1>2 DEF Next, BeginStart, BeginTurn, BeginClose, BeginOther, Begin, CallsUnknown,
       Disconnect, Controller, Unavailable, ConnectFails, Connect, Connected, FrameTooLong,
       Send, SendFails, TimesOut, ConnectionLost, ReadPiece, Oversized, Greeted, Answered,
       AnswerRejected, Fails, Taken, Service, WorkerAnswers, WorkerStarts, WorkerDecides,
       WorkerCloses, WorkerFails, Replies, PieceArrives, HandlerReturns, Spoil, service
  <2> QED
    BY <1>1, <1>2, <2>1 DEF Usable
<1>3. CASE Connect
  BY <1>1, <1>3 DEF Connect, Usable
<1>4. CASE Disconnect
  BY <1>1, <1>4 DEF Disconnect, Usable, service
<1>5. CASE Fails \/ AnswerRejected
  BY <1>1, <1>5 DEF Fails, AnswerRejected, Poison, Taken, Usable, service
<1>6. \/ UNCHANGED <<socket, closed, poisoned>> \/ Connect \/ Disconnect
      \/ Fails \/ AnswerRejected
  BY DEF Next, BeginStart, BeginTurn, BeginClose, BeginOther, Begin, CallsUnknown,
     Controller, Unavailable, ConnectFails, Connected, FrameTooLong, Send, SendFails,
     TimesOut, ConnectionLost, ReadPiece, Oversized, Greeted, Answered, Service,
     WorkerAnswers, WorkerStarts, WorkerDecides, WorkerCloses, WorkerFails, Replies,
     PieceArrives, HandlerReturns, Spoil, client
<1> QED
  BY <1>2, <1>3, <1>4, <1>5, <1>6

\* A call keeps asking for the same.
LEMMA AskedStep ==
  ASSUME NoneIsNoRecord, TurnsInv, Next
  PROVE  AskedInv'
<1> USE DEF TurnsInv
<1>1. CASE BeginStart \/ BeginTurn \/ BeginClose \/ BeginOther
  <2>1. PICK op, arg : /\ call' = Asked(op, arg) /\ turns' = turns
                       /\ op \in {"START", "CLOSE", "PING", "PEER"} \cup TurnOps
                       /\ op \in TurnOps => arg.session \in DOMAIN turns
                                            /\ arg.turn = turns[arg.session]
    <3>1. CASE BeginStart \/ BeginClose \/ BeginOther
      BY <3>1 DEF BeginStart, BeginClose, BeginOther, Begin, TurnOps
    <3>2. CASE BeginTurn
      <4>1. PICK op \in TurnOps, s \in DOMAIN turns : Begin(op, [session |-> s, turn |-> turns[s]])
        BY <3>2 DEF BeginTurn
      <4> QED
        BY <4>1 DEF Begin
    <3> QED
      BY <1>1, <3>1, <3>2
  <2> QED
    BY <2>1 DEF AskedInv, Asked
<1>2. CASE Connect \/ Connected \/ Send \/ Greeted
  <2>1. call # None /\ turns' = turns
    BY <1>2 DEF Connect, Connected, Connecting, Send, Sending, Greeted, Line, Waiting
  <2>2. \/ call' = None
        \/ call' = [call EXCEPT !.op = "HELLO", !.stage = "send"]
        \/ call' = [call EXCEPT !.stage = "send"]
        \/ call' = [call EXCEPT !.id = counter + 1, !.stage = "wait"]
        \/ call' = [call EXCEPT !.op = call.asking, !.stage = "connect"]
    BY <1>2 DEF Connect, Connected, Send, Greeted, EndCall
  <2>3. \/ call' = None
        \/ \E op \in {"HELLO", call.asking} : \E id, stage :
               call' = [asking |-> call.asking, arg |-> call.arg, op |-> op,
                        id |-> id, stage |-> stage]
    BY <2>1, <2>2 DEF AskedInv
  <2> QED
    BY <2>1, <2>3 DEF AskedInv
<1>3. CASE call' = None
  BY <1>3 DEF AskedInv
<1>4. CASE UNCHANGED <<call, turns>>
  BY <1>4 DEF AskedInv, TurnOps
<1>5. \/ BeginStart \/ BeginTurn \/ BeginClose \/ BeginOther
      \/ Connect \/ Connected \/ Send \/ Greeted
      \/ call' = None \/ UNCHANGED <<call, turns>>
  BY DEF Next, CallsUnknown, Disconnect, MayCall, Controller, Unavailable, ConnectFails,
     FrameTooLong, SendFails, TimesOut, ConnectionLost, ReadPiece, Oversized, Answered,
     AnswerRejected, Fails, EndCall, Service, WorkerAnswers, WorkerStarts, WorkerDecides,
     WorkerCloses, WorkerFails, Replies, PieceArrives, HandlerReturns, Spoil, client
<1> QED
  BY <1>1, <1>2, <1>3, <1>4, <1>5

\* Every step but an answer adds no turn to the outcomes.
LEMMA NoTurnStep ==
  ASSUME AskedInv, Next, ~Answered
  PROVE  NoTurnAdded
<1>1. CASE outcomes' = outcomes
  BY <1>1 DEF NoTurnAdded
<1>2. CASE CallsUnknown \/ Disconnect \/ Unavailable \/ Fails \/ FrameTooLong \/ AnswerRejected
  <2>1. \E o : outcomes' = Append(outcomes, o) /\ o.result # "ok"
    BY <1>2 DEF CallsUnknown, Disconnect, Unavailable, Fails, FrameTooLong, AnswerRejected,
       EndCall
  <2> QED
    BY <2>1 DEF NoTurnAdded, IsTurn
<1>3. CASE Connected
  <2>1. CASE call.asking = "PEER"
    <3>1. \E o : outcomes' = Append(outcomes, o) /\ o.op = "PEER"
      BY <1>3, <2>1 DEF Connected, EndCall
    <3> QED
      BY <3>1 DEF NoTurnAdded, IsTurn, TurnOps
  <2> QED
    BY <1>3, <2>1 DEF Connected, NoTurnAdded
<1>4. \/ outcomes' = outcomes
      \/ CallsUnknown \/ Disconnect \/ Unavailable \/ Fails \/ FrameTooLong \/ AnswerRejected
      \/ Connected
  BY DEF Next, BeginStart, BeginTurn, BeginClose, BeginOther, Begin, Controller,
     ConnectFails, Connect, Send, SendFails, TimesOut, ConnectionLost, ReadPiece, Oversized,
     Greeted, Service, WorkerAnswers, WorkerStarts, WorkerDecides, WorkerCloses, WorkerFails,
     Replies, PieceArrives, HandlerReturns, Spoil, client
<1> QED
  BY <1>1, <1>2, <1>3, <1>4

\* Nothing is on the line between two requests.
LEMMA IdleStep ==
  ASSUME outcomes \in Seq(ToSet(outcomes)), UsableInv, NoTurnAdded,
         UNCHANGED <<socket, turns, handler, workers, opened, faults>>,
         request' = None, reply' = None, ~Waiting',
         Sending' => socket = "open",
         reply = None \/ (Told /\ call.op = "HELLO")
  PROVE  UsableInv'
<1>1. /\ \A s : TurnsSoFar(outcomes', s) = TurnsSoFar(outcomes, s)
      /\ \A i \in DOMAIN outcomes' : IsTurn(outcomes'[i]) =>
             i \in DOMAIN outcomes /\ outcomes'[i] = outcomes[i]
  BY NothingCounted
<1>2. LineInv' /\ ~Told'
  BY DEF LineInv, Told
<1>3. CASE socket = "none"
  BY <1>1, <1>2, <1>3 DEF UsableInv, UnconnectedInv, IsTurn
<1>4. CASE socket # "none"
  <2>1. ~(Told /\ call.op \in TurnOps)
    BY DEF Told, TurnOps
  <2>2. \A s \in DOMAIN workers : workers[s] = Cardinality(TurnsSoFar(outcomes, s)) + 1 + 0
    BY <1>4, <2>1 DEF UsableInv, CountInv
  <2>3. CountInv'
    <3>1. \A s \in DOMAIN workers : workers[s] = Cardinality(TurnsSoFar(outcomes', s)) + 1 + 0
      BY <1>1, <2>2
    <3> QED
      BY <1>2, <3>1 DEF CountInv, TurnsSoFar, TurnsUpTo, IsTurn
  <2>4. NumberedInv'
    BY <1>1, <1>4 DEF UsableInv, NumberedInv, IsTurn
  <2>5. AgreementInv'
    BY <1>2, <1>4 DEF UsableInv, AgreementInv, TurnsAfter, TurnOps
  <2>6. DueInv'
    BY <1>2 DEF DueInv
  <2> QED
    BY <1>2, <1>4, <2>3, <2>4, <2>5, <2>6 DEF UsableInv
<1> QED
  BY <1>3, <1>4

\* The steps of the controller's thread between an answer and the next request.
LEMMA BetweenStep ==
  ASSUME outcomes \in Seq(ToSet(outcomes)), TurnsInv, Usable, NoTurnAdded,
         \/ BeginStart \/ BeginTurn \/ BeginClose \/ BeginOther \/ CallsUnknown
         \/ Unavailable \/ Connected \/ FrameTooLong \/ Greeted
  PROVE  UsableInv'
<1>1. UsableInv /\ AskedInv
  BY DEF TurnsInv, UsableInv
<1>2. CASE \/ BeginStart \/ BeginTurn \/ BeginClose \/ BeginOther \/ CallsUnknown
           \/ Unavailable \/ FrameTooLong
  <2>1. /\ UNCHANGED <<socket, turns, service>> /\ ~Waiting
        /\ call' = None \/ \E op, arg : call' = Asked(op, arg)
    BY <1>2 DEF BeginStart, BeginTurn, BeginClose, BeginOther, Begin, CallsUnknown, MayCall,
       Unavailable, FrameTooLong, EndCall, Connecting, Sending, Waiting
  <2>2. ~Waiting' /\ ~Sending'
    BY <2>1 DEF Waiting, Sending, Asked
  <2>3. request = None /\ reply = None
    BY <1>1, <2>1 DEF UsableInv, LineInv
  <2> QED
    BY <1>1, <2>1, <2>2, <2>3, IdleStep DEF service
<1>3. CASE Connected
  <2>1. /\ UNCHANGED <<socket, turns, service>> /\ call # None /\ ~Waiting /\ socket = "open"
        /\ call' = None \/ call' = [call EXCEPT !.stage = "send"]
    BY <1>3 DEF Connected, EndCall, Connecting, Waiting
  <2>2. call' # None => call'.stage = "send"
    BY <1>1, <2>1 DEF AskedInv
  <2>3. request = None /\ reply = None
    BY <1>1, <2>1 DEF UsableInv, LineInv
  <2>4. ~Waiting'
    BY <2>2 DEF Waiting
  <2> QED
    BY <1>1, <2>1, <2>3, <2>4, IdleStep DEF service
<1>4. CASE Greeted
  <2>1. /\ UNCHANGED <<socket, turns, handler, request, workers, opened, faults>>
        /\ reply' = None /\ Told /\ call.op = "HELLO" /\ call # None
        /\ call' = [call EXCEPT !.op = call.asking, !.stage = "connect"]
    BY <1>4 DEF Greeted, Taken, Line, Waiting, ResultAccepted, Told
  <2>2. call'.stage = "connect"
    BY <1>1, <2>1 DEF AskedInv
  <2>3. request = None
    BY <1>1, <2>1 DEF UsableInv, LineInv, Told
  <2> QED
    BY <1>1, <2>1, <2>2, <2>3, IdleStep DEF Waiting, Sending
<1> QED
  BY <1>2, <1>3, <1>4

\* A connection begins with a worker that knows nothing, as the endpoint does.
LEMMA ConnectStep ==
  ASSUME NoneIsNoRecord, TurnsInv, Usable, Connect
  PROVE  UsableInv'
<1>1. /\ socket = "none" /\ socket' = "open" /\ UNCHANGED <<turns, outcomes>>
      /\ request' = None /\ reply' = None /\ workers' = <<>> /\ call # None
      /\ call' = [call EXCEPT !.op = "HELLO", !.stage = "send"]
  BY DEF Connect, Connecting
<1>2. AskedInv /\ UnconnectedInv
  BY <1>1 DEF TurnsInv
<1>3. call'.stage = "send"
  BY <1>1, <1>2 DEF AskedInv
<1>4. LineInv' /\ ~Told'
  BY <1>1, <1>3 DEF LineInv, Told
<1>5. DOMAIN workers' = {} /\ workers' = turns'
  BY <1>1, <1>2 DEF UnconnectedInv
<1>6. DueInv' /\ CountInv' /\ NumberedInv' /\ AgreementInv'
  BY <1>1, <1>2, <1>4, <1>5
  DEF DueInv, CountInv, NumberedInv, AgreementInv, UnconnectedInv, IsTurn
<1> QED
  BY <1>1, <1>4, <1>6 DEF UsableInv

\* The request goes out.
LEMMA SendStep ==
  ASSUME NoneIsNoRecord, TurnsInv, Usable, Send
  PROVE  UsableInv'
<1>1. /\ AskedInv /\ LineInv /\ socket = "open"
      /\ DueInv /\ CountInv /\ NumberedInv /\ AgreementInv
  BY DEF TurnsInv, LineInv, Send
<1>2. /\ UNCHANGED <<socket, turns, outcomes, handler, reply, workers, opened, faults>>
      /\ call # None /\ ~Waiting
      /\ call' = [call EXCEPT !.id = counter + 1, !.stage = "wait"]
  BY DEF Send, Sending, Waiting
<1>3. reply = None /\ reply' = None /\ request = None
  BY <1>1, <1>2 DEF LineInv
<1>4. call' = [asking |-> call.asking, arg |-> call.arg, op |-> call.op,
               id |-> counter + 1, stage |-> "wait"]
  BY <1>1, <1>2 DEF AskedInv
<1>5. call' # None
  BY <1>4 DEF NoneIsNoRecord
<1>6. Waiting'
  BY <1>4, <1>5 DEF Waiting
<1>7. LineInv'
  <2>1. request' # None => /\ handler = "serving"
                           /\ request' = [id |-> counter + 1, op |-> call.op, arg |-> call.arg]
    BY DEF Send
  <2> QED
    BY <1>1, <1>2, <1>3, <1>4, <1>6, <2>1 DEF LineInv
<1>8. DueInv' /\ NumberedInv' /\ AgreementInv' /\ CountInv'
  <2>1. ~Told /\ ~Told'
    BY <1>3 DEF Told
  <2>2. CountInv'
    BY <1>1, <1>2, <2>1 DEF CountInv, TurnsSoFar, TurnsUpTo, IsTurn
  <2>3. NumberedInv'
    BY <1>1, <1>2 DEF NumberedInv, IsTurn
  <2>4. DueInv' /\ AgreementInv'
    BY <1>1, <1>2, <1>3, <2>1 DEF DueInv, AgreementInv
  <2> QED
    BY <2>2, <2>3, <2>4
<1> QED
  BY <1>1, <1>2, <1>7, <1>8 DEF UsableInv

\* A piece of the line comes or is read: the answer is as it was.
LEMMA PieceStep ==
  ASSUME NoneIsNoRecord, TurnsInv, Usable, ReadPiece \/ PieceArrives
  PROVE  UsableInv'
<1>1. /\ UNCHANGED <<socket, turns, call, outcomes, handler, request, workers, opened, faults>>
      /\ reply # None
      /\ \/ reply' = [reply EXCEPT !.left = @ - 1, !.here = FALSE]
         \/ reply' = [reply EXCEPT !.here = TRUE]
  BY DEF ReadPiece, PieceArrives, client
<1>2. LineInv
  BY DEF TurnsInv
<1>3. /\ socket = "open" /\ request = None /\ Waiting
      /\ DueInv /\ CountInv /\ NumberedInv /\ AgreementInv
  BY <1>1, <1>2 DEF LineInv, TurnsInv
<1>4. \E left, here : reply' = [id |-> reply.id, ok |-> reply.ok, body |-> reply.body,
                                left |-> left, here |-> here]
  BY <1>1, <1>2 DEF LineInv
<1>5. reply' # None /\ reply'.ok = reply.ok /\ reply'.body = reply.body
  BY <1>4 DEF NoneIsNoRecord
<1>6. LineInv'
  BY <1>1, <1>2, <1>3, <1>4 DEF LineInv, Waiting, Sending
<1>7. Told' = Told
  BY <1>1, <1>5 DEF Told
<1>8. DueInv' /\ CountInv' /\ NumberedInv' /\ AgreementInv'
  <2>1. CountInv'
    BY <1>1, <1>3, <1>7 DEF CountInv, TurnsSoFar, TurnsUpTo, IsTurn, TurnOps
  <2>2. NumberedInv'
    BY <1>1, <1>3 DEF NumberedInv, IsTurn
  <2>3. DueInv'
    BY <1>1, <1>3, <1>5, <1>7 DEF DueInv, TurnsSoFar, TurnsUpTo, IsTurn, TurnOps
  <2>4. AgreementInv'
    BY <1>1, <1>3, <1>5, <1>7 DEF AgreementInv, TurnsAfter, Opened, Drop, TurnOps
  <2> QED
    BY <2>1, <2>2, <2>3, <2>4
<1> QED
  BY <1>1, <1>3, <1>6, <1>8 DEF UsableInv

\* The handler returns and takes its worker with it; a line it wrote stays.
LEMMA ReturnStep ==
  ASSUME NoneIsNoRecord, TurnsInv, Usable, HandlerReturns
  PROVE  UsableInv'
<1>1. /\ UNCHANGED <<socket, turns, call, outcomes, reply>>
      /\ request' = None /\ handler' = "gone" /\ workers' = <<>>
  BY DEF HandlerReturns, client
<1>2. LineInv
  BY DEF TurnsInv
<1>3. LineInv'
  BY <1>1, <1>2 DEF LineInv, Waiting, Sending
<1>4. CASE socket = "none"
  BY <1>1, <1>3, <1>4 DEF TurnsInv, UsableInv, UnconnectedInv, IsTurn
<1>5. CASE socket # "none"
  <2>1. DueInv
    BY <1>5 DEF TurnsInv
  <2>2. DueInv'
    BY <1>1, <2>1 DEF DueInv, Told, TurnsSoFar, TurnsUpTo, IsTurn, TurnOps
  <2>3. CountInv' /\ NumberedInv' /\ AgreementInv'
    BY <1>1 DEF CountInv, NumberedInv, AgreementInv
  <2> QED
    BY <1>1, <1>3, <1>5, <2>2, <2>3 DEF UsableInv
<1> QED
  BY <1>4, <1>5

\* What is spoiled is an answer on its way: that of a turn stays the answer of
\* this turn, or is not accepted.
LEMMA SpoilStep ==
  ASSUME NoneIsNoRecord, TurnsInv, Usable, Spoil
  PROVE  UsableInv'
<1>1. /\ UNCHANGED <<socket, turns, call, outcomes, handler, request, workers, opened>>
      /\ reply # None /\ reply.ok /\ reply.body # Malformed /\ reply' \in Spoiled
      /\ faults' = faults + 1 /\ faults \in Nat
  BY DEF Spoil, client, TurnsInv
<1>2. LineInv
  BY DEF TurnsInv
<1>3. /\ socket = "open" /\ request = None /\ Waiting
      /\ DueInv /\ CountInv /\ NumberedInv
  BY <1>1, <1>2 DEF LineInv, TurnsInv
<1>4. /\ reply' = [id |-> reply'.id, ok |-> reply'.ok, body |-> reply'.body,
                   left |-> reply'.left, here |-> reply'.here]
      /\ reply'.ok = reply.ok
      /\ \/ reply'.body = reply.body \/ reply'.body = Malformed
         \/ \E s, n : reply'.body = <<reply.body[1], s, n>>
  <2> DEFINE R(id, ok, body, left, here) ==
                 [id |-> id, ok |-> ok, body |-> body, left |-> left, here |-> here]
  <2>1. PICK id, ok, b, left, here : reply = R(id, ok, b, left, here)
    BY <1>1, <1>2 DEF LineInv
  <2>2. reply.ok = ok /\ reply.body = b
    BY <2>1
  <2>3. \/ reply' = [R(id, ok, b, left, here) EXCEPT !.body = Malformed]
        \/ reply' = [R(id, ok, b, left, here) EXCEPT !.id = @ - 1]
        \/ reply' = [R(id, ok, b, left, here) EXCEPT !.left = MaxMessage + 2]
        \/ \E s, n : reply' = [R(id, ok, b, left, here) EXCEPT !.body = <<b[1], s, n>>]
    <3>1. \/ reply' = [reply EXCEPT !.body = Malformed]
          \/ reply' = [reply EXCEPT !.id = @ - 1]
          \/ reply' = [reply EXCEPT !.left = MaxMessage + 2]
          \/ \E s, n : reply' = [reply EXCEPT !.body = <<reply.body[1], s, n>>]
      BY <1>1 DEF Spoiled
    <3> HIDE DEF R
    <3> QED
      BY <2>1, <2>2, <3>1
  <2>4. \E id1, body, left1 :
            /\ reply' = R(id1, ok, body, left1, here)
            /\ body = b \/ body = Malformed \/ \E s, n : body = <<b[1], s, n>>
    BY <2>3
  <2> QED
    BY <2>2, <2>4
<1>5. reply' # None /\ reply'.ok /\ reply.ok
  BY <1>1, <1>4 DEF NoneIsNoRecord
<1>6. LineInv'
  BY <1>1, <1>2, <1>3, <1>4 DEF LineInv, Waiting, Sending
<1>7. Told' = Told
  BY <1>1, <1>5 DEF Told
<1>8. CountInv' /\ NumberedInv' /\ AgreementInv'
  <2>1. CountInv'
    BY <1>1, <1>3, <1>7 DEF CountInv, TurnsSoFar, TurnsUpTo, IsTurn, TurnOps
  <2>2. NumberedInv'
    BY <1>1, <1>3 DEF NumberedInv, IsTurn
  <2>3. AgreementInv'
    BY <1>1 DEF AgreementInv
  <2> QED
    BY <2>1, <2>2, <2>3
<1>9. DueInv'
  <2>1. CASE ~(Told /\ call.op \in TurnOps)
    BY <1>1, <1>7, <2>1 DEF DueInv, TurnOps
  <2>2. CASE Told /\ call.op \in TurnOps
    <3>1. reply.body = <<call.op, reply.body[2], reply.body[3]>>
      BY <1>1, <1>3, <2>2 DEF DueInv
    <3>2. reply'.body # Malformed => \E s, n : reply'.body = <<call.op, s, n>>
      BY <1>4, <3>1
    <3>3. reply'.body # Malformed =>
              reply'.body = <<call.op, reply'.body[2], reply'.body[3]>>
      BY <3>2
    <3> QED
      BY <1>1, <1>3, <2>2, <3>3 DEF DueInv, TurnsSoFar, TurnsUpTo, IsTurn, TurnOps
  <2> QED
    BY <2>1, <2>2
<1> QED
  BY <1>1, <1>3, <1>6, <1>8, <1>9 DEF UsableInv

\* The worker acts on the request: it counts a turn before its answer is read.
LEMMA WorkerStep ==
  ASSUME NoneIsNoRecord, outcomes \in Seq(ToSet(outcomes)), TurnsInv, Usable,
         \/ WorkerAnswers \/ WorkerStarts \/ WorkerDecides \/ WorkerCloses \/ WorkerFails
  PROVE  UsableInv'
<1>1. PICK ok, body : Replies(ok, body)
  BY DEF WorkerAnswers, WorkerStarts, WorkerDecides, WorkerCloses, WorkerFails
<1>2. /\ UNCHANGED <<socket, turns, call, outcomes, handler, faults>>
      /\ handler = "serving" /\ request # None /\ reply = None /\ request' = None
      /\ \E left : reply' = [id |-> request.id, ok |-> ok, body |-> body,
                             left |-> left, here |-> FALSE]
  BY <1>1 DEF Replies, client
<1>3. reply' # None /\ reply'.ok = ok /\ reply'.body = body
  BY <1>2 DEF NoneIsNoRecord
<1>4. AskedInv /\ LineInv /\ opened \in Nat
  BY DEF TurnsInv
<1>5. /\ Waiting /\ call # None /\ socket = "open"
      /\ request.op = call.op /\ request.arg = call.arg
  BY <1>2, <1>4 DEF LineInv, Waiting
<1>6. CountInv /\ NumberedInv /\ AgreementInv /\ ~Told
  BY <1>2, <1>5 DEF TurnsInv, Told
<1>7. LineInv'
  BY <1>2, <1>4, <1>5 DEF LineInv, Waiting, Sending
<1>8. \A s : Cardinality(TurnsSoFar(outcomes, s)) \in Nat
  <2>1. Len(outcomes) \in Nat
    OBVIOUS
  <2> QED
    BY <2>1, FewTurns DEF TurnsSoFar
<1>9. \A s \in DOMAIN workers : workers[s] = Cardinality(TurnsSoFar(outcomes, s)) + 1
  BY <1>6, <1>8 DEF CountInv
<1>10. faults = 0 => workers = turns
  BY <1>2, <1>6 DEF AgreementInv
<1>11. SUFFICES
         /\ (ok /\ call.op \in TurnOps =>
               /\ body # Malformed => body = <<call.op, body[2], body[3]>>
               /\ call.arg.turn = Cardinality(TurnsSoFar(outcomes, call.arg.session)) + 1
               /\ call.arg.session \in DOMAIN workers')
         /\ \A s \in DOMAIN workers' :
               workers'[s] = Cardinality(TurnsSoFar(outcomes, s)) + 1
                  + (IF ok /\ call.op \in TurnOps /\ s = call.arg.session THEN 1 ELSE 0)
         /\ DOMAIN workers' \subseteq 1 .. opened' /\ opened' \in Nat /\ opened <= opened'
         /\ faults = 0 /\ ok => workers' = TurnsAfter(call.op, call.arg, body)
  <2>1. Told' <=> ok
    BY <1>3 DEF Told
  <2> HIDE DEF Told
  <2>2. DueInv'
    BY <1>2, <1>3, <1>11, <2>1 DEF DueInv, TurnsSoFar, TurnsUpTo, IsTurn, TurnOps
  <2>3. CountInv'
    BY <1>2, <1>11, <2>1 DEF CountInv, TurnsSoFar, TurnsUpTo, IsTurn, TurnOps
  <2>4. NumberedInv'
    <3>1. 1 .. opened \subseteq 1 .. opened'
      BY <1>4, <1>11
    <3> QED
      BY <1>2, <1>6, <1>11, <3>1 DEF NumberedInv, IsTurn, TurnOps
  <2>5. AgreementInv'
    <3>1. TurnsAfter(call.op, call.arg, body)
             = TurnsAfter(call.op, call.arg, reply.body)'
      BY <1>2, <1>3 DEF TurnsAfter, Opened, Drop, TurnOps
    <3> QED
      BY <1>2, <1>3, <1>11, <2>1, <3>1 DEF AgreementInv
  <2> QED
    BY <1>2, <1>5, <1>7, <2>2, <2>3, <2>4, <2>5 DEF UsableInv
<1>12. ASSUME NEW o, NEW b, Replies(o, b) PROVE ok = o /\ body = b
  BY <1>2, <1>12 DEF Replies
<1>13. DOMAIN workers \subseteq 1 .. opened
  BY <1>2, <1>6 DEF NumberedInv
<1>14. CASE WorkerAnswers
  <2>1. call.op \in {"HELLO", "PING"} /\ workers' = workers /\ opened' = opened
    BY <1>5, <1>14 DEF WorkerAnswers, Asks
  <2> QED
    BY <1>4, <1>8, <1>9, <1>10, <1>13, <2>1 DEF TurnOps, TurnsAfter
<1>15. CASE WorkerStarts
  <2>1. /\ call.op = "START" /\ workers' = Opened(workers, opened + 1) /\ opened' = opened + 1
        /\ body = <<"session", opened + 1, call.arg>>
    <3>1. Replies(TRUE, <<"session", opened + 1, call.arg>>)
      BY <1>5, <1>15 DEF WorkerStarts
    <3>2. body = <<"session", opened + 1, call.arg>>
      BY <1>12, <3>1
    <3> QED
      BY <1>5, <1>15, <3>2 DEF WorkerStarts, Asks
  <2>2. TurnsSoFar(outcomes, opened + 1) = {}
    BY <1>2, <1>4, <1>6 DEF NumberedInv, TurnsSoFar, TurnsUpTo
  <2>3. Cardinality(TurnsSoFar(outcomes, opened + 1)) = 0
    BY <2>2, FS_EmptySet
  <2>4. \A s \in DOMAIN workers' : workers'[s] = Cardinality(TurnsSoFar(outcomes, s)) + 1
    BY <1>9, <2>1, <2>3 DEF Opened
  <2>5. DOMAIN workers' \subseteq 1 .. opened'
    BY <1>4, <1>13, <2>1 DEF Opened
  <2>6. faults = 0 => workers' = TurnsAfter(call.op, call.arg, body)
    BY <1>10, <2>1 DEF TurnsAfter, TurnOps
  <2> QED
    BY <1>4, <1>8, <2>1, <2>4, <2>5, <2>6 DEF TurnOps
<1>16. CASE WorkerDecides
  <2> DEFINE due == call.arg.session
  <2>1. /\ call.op \in TurnOps /\ opened' = opened
        /\ due \in DOMAIN workers /\ workers[due] = call.arg.turn
        /\ workers' = [workers EXCEPT ![due] = @ + 1]
        /\ ok = TRUE /\ body = <<call.op, due, call.arg.turn>>
    <3>1. Replies(TRUE, <<call.op, due, call.arg.turn>>)
      BY <1>5, <1>16 DEF WorkerDecides
    <3>2. ok = TRUE /\ body = <<call.op, due, call.arg.turn>>
      BY <1>12, <3>1
    <3> QED
      BY <1>5, <1>16, <3>2 DEF WorkerDecides, Asks
  <2>2. call.arg.turn = Cardinality(TurnsSoFar(outcomes, due)) + 1
    BY <1>9, <2>1
  <2>3. workers' = [workers EXCEPT ![due] = Cardinality(TurnsSoFar(outcomes, due)) + 1 + 1]
    BY <1>9, <2>1
  <2>4. ASSUME NEW s \in DOMAIN workers'
        PROVE  workers'[s] = Cardinality(TurnsSoFar(outcomes, s)) + 1
                  + (IF ok /\ call.op \in TurnOps /\ s = due THEN 1 ELSE 0)
    <3>1. CASE s = due
      BY <2>1, <2>3, <3>1
    <3>2. CASE s # due
      BY <1>8, <1>9, <2>1, <2>3, <3>2
    <3> QED
      BY <3>1, <3>2
  <2>5. faults = 0 => workers' = TurnsAfter(call.op, call.arg, body)
    <3>1. workers' = [workers EXCEPT ![due] = call.arg.turn + 1]
      BY <2>2, <2>3
    <3> QED
      BY <1>10, <2>1, <3>1 DEF TurnsAfter, TurnOps
  <2>6. due \in DOMAIN workers' /\ DOMAIN workers' = DOMAIN workers
    BY <2>1
  <2> QED
    BY <1>4, <1>13, <2>1, <2>2, <2>4, <2>5, <2>6
<1>17. CASE WorkerCloses
  <2>1. call.op = "CLOSE" /\ workers' = Drop(workers, call.arg) /\ opened' = opened
    BY <1>5, <1>17 DEF WorkerCloses, Asks
  <2>2. \A s \in DOMAIN workers' : s \in DOMAIN workers /\ workers'[s] = workers[s]
    BY <2>1 DEF Drop
  <2>3. faults = 0 => workers' = TurnsAfter(call.op, call.arg, body)
    BY <1>10, <2>1 DEF TurnsAfter, TurnOps
  <2> QED
    BY <1>4, <1>8, <1>9, <1>13, <2>1, <2>2, <2>3 DEF TurnOps
<1>18. CASE WorkerFails
  <2>1. ok = FALSE /\ workers' = workers /\ opened' = opened
    BY <1>12, <1>18 DEF WorkerFails
  <2> QED
    BY <1>4, <1>8, <1>9, <1>13, <2>1
<1> QED
  BY <1>14, <1>15, <1>16, <1>17, <1>18

\* The endpoint accepts the answer, and knows what the worker knows.
LEMMA AnsweredStep ==
  ASSUME NoneIsNoRecord, outcomes \in Seq(ToSet(outcomes)), TurnsInv, Usable, Answered
  PROVE  InOrder(outcomes)' /\ UsableInv'
<1> DEFINE o == [op |-> call.asking, arg |-> call.arg, result |-> "ok", body |-> reply.body]
           due == call.arg.session
<1>1. /\ Waiting /\ Told /\ call.op # "HELLO" /\ reply.body # Malformed
      /\ Accepted(call.op, call.arg, reply.body)
      /\ turns' = TurnsAfter(call.op, call.arg, reply.body)
      /\ outcomes' = Append(outcomes, o) /\ call' = None /\ reply' = None
      /\ UNCHANGED <<socket, handler, request, workers, opened, faults>>
  BY DEF Answered, Line, ResultAccepted, EndCall, Taken, Told
<1>2. AskedInv /\ LineInv /\ InOrder(outcomes)
  BY DEF TurnsInv
<1>3. socket = "open" /\ request = None /\ call.asking = call.op
  BY <1>1, <1>2 DEF LineInv, AskedInv, Waiting, Told
<1>4. DueInv /\ CountInv /\ NumberedInv /\ AgreementInv
  BY <1>3 DEF TurnsInv
<1>5. IsTurn(o) <=> call.op \in TurnOps
  BY <1>3 DEF IsTurn
<1>6. \A s : Cardinality(TurnsSoFar(outcomes, s)) \in Nat
  <2>1. Len(outcomes) \in Nat
    OBVIOUS
  <2> QED
    BY <2>1, FewTurns DEF TurnsSoFar
<1>7. /\ InOrder(outcomes')
      /\ \A s : Cardinality(TurnsSoFar(outcomes', s)) = Cardinality(TurnsSoFar(outcomes, s))
                     + (IF call.op \in TurnOps /\ s = due THEN 1 ELSE 0)
  <2>1. CASE call.op \notin TurnOps
    <3>1. NoTurnAdded
      BY <1>1, <1>5, <2>1 DEF NoTurnAdded
    <3> QED
      BY <1>2, <1>6, <2>1, <3>1, NothingCounted
  <2>2. CASE call.op \in TurnOps
    <3>1. /\ reply.body = <<call.op, reply.body[2], reply.body[3]>>
          /\ call.arg.turn = Cardinality(TurnsSoFar(outcomes, due)) + 1
      BY <1>1, <1>4, <2>2 DEF DueInv
    <3>2. reply.body[2] = due /\ reply.body[3] = call.arg.turn
      BY <1>1, <2>2 DEF Accepted, TurnOps
    <3>3. o.body = <<o.op, o.arg.session, Cardinality(TurnsSoFar(outcomes, o.arg.session)) + 1>>
      BY <1>3, <3>1, <3>2
    <3>4. IsTurn(o) /\ o.arg.session = due
      BY <1>5, <2>2
    <3> HIDE DEF o
    <3>5. /\ InOrder(Append(outcomes, o))
          /\ Cardinality(TurnsSoFar(Append(outcomes, o), due))
               = Cardinality(TurnsSoFar(outcomes, due)) + 1
          /\ \A s : s # due => TurnsSoFar(Append(outcomes, o), s) = TurnsSoFar(outcomes, s)
      BY <1>2, <3>3, <3>4, DueTurn
    <3> QED
      BY <1>1, <1>6, <2>2, <3>5
  <2> QED
    BY <2>1, <2>2
<1>8. LineInv' /\ ~Told'
  BY <1>1, <1>3 DEF LineInv, Told, Waiting, Sending
<1>9. CountInv'
  <2>1. \A s \in DOMAIN workers : workers[s] = Cardinality(TurnsSoFar(outcomes', s)) + 1 + 0
    BY <1>1, <1>4, <1>6, <1>7 DEF CountInv
  <2> QED
    BY <1>1, <1>8, <2>1 DEF CountInv, TurnsSoFar, TurnsUpTo, IsTurn
<1>10. NumberedInv'
  <2>1. ASSUME handler = "serving", NEW i \in DOMAIN outcomes', IsTurn(outcomes'[i])
        PROVE  outcomes'[i].arg.session \in 1 .. opened
    <3>1. /\ DOMAIN outcomes' = 1 .. (Len(outcomes) + 1) /\ DOMAIN outcomes = 1 .. Len(outcomes)
          /\ Len(outcomes) \in Nat /\ outcomes'[Len(outcomes) + 1] = o
          /\ \A j \in 1 .. Len(outcomes) : outcomes'[j] = outcomes[j]
      BY <1>1, OutcomeAppended
    <3>2. CASE i = Len(outcomes) + 1
      <4>1. call.op \in TurnOps /\ due \in DOMAIN workers
        BY <1>1, <1>4, <1>5, <2>1, <3>1, <3>2 DEF DueInv
      <4> QED
        BY <1>4, <2>1, <3>1, <3>2, <4>1 DEF NumberedInv
    <3>3. CASE i # Len(outcomes) + 1
      BY <1>4, <2>1, <3>1, <3>3 DEF NumberedInv
    <3> QED
      BY <3>2, <3>3
  <2> QED
    BY <1>1, <1>4, <2>1 DEF NumberedInv, IsTurn
<1>11. AgreementInv' /\ DueInv'
  BY <1>1, <1>4, <1>8 DEF AgreementInv, DueInv
<1>12. InOrder(outcomes)'
  BY <1>7 DEF InOrder, IsTurn, TurnsUpTo
<1> QED
  BY <1>1, <1>3, <1>8, <1>9, <1>10, <1>11, <1>12 DEF UsableInv

\* Every step keeps the invariant.
LEMMA TurnsStep ==
  ASSUME NoneIsNoRecord, FailStopInv, TurnsInv, [Next]_vars
  PROVE  TurnsInv'
<1>0. outcomes \in Seq(ToSet(outcomes)) /\ AskedInv /\ InOrder(outcomes)
  BY DEF FailStopInv, TurnsInv
<1>1. CASE UNCHANGED vars
  BY <1>1 DEF vars, client, service, TurnsInv, AskedInv, InOrder, IsTurn, TurnsUpTo, TurnOps,
     Usable, LineInv, Waiting, Sending, UnconnectedInv, DueInv, Told, CountInv, NumberedInv,
     AgreementInv, TurnsAfter, Opened, Drop, TurnsSoFar
<1>2. CASE Next
  <2>1. /\ Usable' => Usable
        /\ socket' \in {"none", "open"} /\ (socket' = "open" => Usable')
        /\ opened' \in Nat /\ faults' \in Nat
    BY <1>2, UsableBefore
  <2>2. AskedInv'
    BY <1>2, AskedStep
  <2>3. InOrder(outcomes)'
    <3>1. CASE Answered
      <4>1. Usable
        BY <3>1 DEF Answered, Line, Waiting, FailStopInv, Usable
      <4> QED
        BY <1>0, <3>1, <4>1, AnsweredStep
    <3>2. CASE ~Answered
      <4>1. InOrder(outcomes')
        BY <1>0, <1>2, <3>2, NoTurnStep, NothingCounted
      <4> QED
        BY <4>1 DEF InOrder, IsTurn, TurnsUpTo
    <3> QED
      BY <3>1, <3>2
  <2>4. ASSUME Usable' PROVE UsableInv'
    <3>1. Usable
      BY <2>1, <2>4
    <3>2. CASE \/ BeginStart \/ BeginTurn \/ BeginClose \/ BeginOther \/ CallsUnknown
               \/ Unavailable \/ Connected \/ FrameTooLong \/ Greeted
      <4>1. ~Answered
        BY <3>2 DEF BeginStart, BeginTurn, BeginClose, BeginOther, Begin, CallsUnknown, MayCall,
           Unavailable, Connected, Connecting, FrameTooLong, Sending, Greeted, Answered, Line,
           Waiting
      <4> QED
        BY <1>0, <1>2, <3>1, <3>2, <4>1, BetweenStep, NoTurnStep
    <3>3. CASE Connect \/ Send
      BY <3>1, <3>3, ConnectStep, SendStep
    <3>4. CASE ReadPiece \/ PieceArrives
      BY <3>1, <3>4, PieceStep
    <3>5. CASE Answered
      BY <1>0, <3>1, <3>5, AnsweredStep
    <3>6. CASE \/ WorkerAnswers \/ WorkerStarts \/ WorkerDecides \/ WorkerCloses
               \/ WorkerFails
      BY <1>0, <3>1, <3>6, WorkerStep
    <3>7. CASE HandlerReturns \/ Spoil
      BY <3>1, <3>7, ReturnStep, SpoilStep
    <3>8. ~(Disconnect \/ Fails \/ AnswerRejected)
      BY <2>4 DEF Disconnect, Fails, AnswerRejected, Poison, Usable
    <3> QED
      BY <1>2, <3>2, <3>3, <3>4, <3>5, <3>6, <3>7, <3>8
      DEF Next, Controller, ConnectFails, SendFails, TimesOut, ConnectionLost, Oversized,
          Service
  <2> QED
    BY <2>1, <2>2, <2>3, <2>4 DEF TurnsInv, UsableInv
<1> QED
  BY <1>1, <1>2

(* The answers a controller gets of an external agent in one session are   *)
(* those of its turns 1, 2, 3, ..., whatever the service answers and       *)
(* whenever; and while the connection stands and nothing was spoiled, both *)
(* ends know the same sessions at the same turns between calls.            *)
THEOREM ExternalTurnsAgree ==
  ASSUME NoneIsNoRecord
  PROVE  Spec => []TurnsInOrder
<1>1. Init => FailStopInv /\ TurnsInv
  <2> SUFFICES ASSUME Init PROVE FailStopInv /\ TurnsInv
    OBVIOUS
  <2>1. outcomes = <<>> /\ DOMAIN outcomes = {} /\ outcomes \in Seq(ToSet(outcomes))
    BY DEF Init
  <2>2. FailStopInv
    BY <2>1 DEF Init, FailStopInv, Ended, FailStop
  <2>3. AskedInv /\ InOrder(outcomes) /\ LineInv /\ UnconnectedInv /\ Usable
    BY <2>1 DEF Init, AskedInv, InOrder, LineInv, Sending, Waiting, UnconnectedInv, Usable
  <2> QED
    BY <2>2, <2>3 DEF Init, TurnsInv
<1>2. FailStopInv /\ TurnsInv /\ [Next]_vars => (FailStopInv /\ TurnsInv)'
  BY FailStopStep, TurnsStep
<1>3. TurnsInv => TurnsInOrder
  <2> SUFFICES ASSUME TurnsInv PROVE TurnsInOrder
    OBVIOUS
  <2>1. ASSUME call = None, socket = "open", handler = "serving", faults = 0
        PROVE  turns = workers
    <3>1. LineInv /\ AgreementInv
      BY <2>1 DEF TurnsInv
    <3>2. reply = None
      BY <2>1, <3>1 DEF LineInv, Waiting
    <3> QED
      BY <2>1, <3>1, <3>2 DEF AgreementInv
  <2> QED
    BY <2>1 DEF TurnsInv, TurnsInOrder
<1> QED
  BY <1>1, <1>2, <1>3, PTL DEF Spec
=============================================================================
