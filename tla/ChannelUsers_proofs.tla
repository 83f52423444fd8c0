-------------------------- MODULE ChannelUsers_proofs --------------------------
(***************************************************************************)
(* Theorems about the two users of a channel: the subprocess host gateway  *)
(* and the subprocess agent endpoint.                                      *)
(***************************************************************************)
EXTENDS HostGateway, AgentChannel, LineChannel_proofs, FiniteSetTheorems

(* The gateway. *)

\* What the gateway and its server do are steps of a channel.
LEMMA GatewayStep == Next => ChannelNext
<1> SUFFICES ASSUME Next PROVE ChannelNext
  OBVIOUS
<1> USE DEF ChannelNext, ClientStep, ChildStep
<1>1. CASE BeginCall \/ CallFails \/ Shutdown
  BY <1>1 DEF BeginCall, CallFails, Shutdown
<1>2. CASE \/ CandidateTooLong \/ WriteCandidate \/ FinishWrite
          \/ AnswerAccepted \/ AnswerMalformed \/ ActionRejected
  BY <1>2 DEF CandidateTooLong, WriteCandidate, AnswerAccepted, AnswerMalformed, ActionRejected
<1>3. CASE ClientMoves
  BY <1>3 DEF ClientMoves
<1>4. CASE Serve \/ ServeRaises
  BY <1>4 DEF Serve, ServeRaises
<1>5. CASE ChildMoves \/ Decline \/ SpoilReply(Malformed) \/ ReaderMoves
  BY <1>5 DEF ChildMoves, ReaderMoves
<1> QED
  BY <1>1, <1>2, <1>3, <1>4, <1>5 DEF Next, Caller

(* After a timeout, a broken or foreign reply, a reported error or the end *)
(* of the process, no call of the gateway is answered again, for every     *)
(* registry, number of calls and number of faults.                         *)
THEOREM GatewayFailStop == Spec => []FailStop
<1>1. Init => ChannelInv
  BY ChannelStarts DEF Init
<1>2. ChannelInv /\ [Next]_vars => ChannelInv'
  BY GatewayStep, ChannelStep DEF vars
<1>3. ChannelInv => FailStop
  BY DEF ChannelInv
<1> QED
  BY <1>1, <1>2, <1>3, PTL DEF Spec
-----------------------------------------------------------------------------
(* What a caller is told.                                                  *)

Replaying == INSTANCE FoldFacts WITH Op <- ReplayCall, Base <- ReplayStart

LEMMA ReplayIsFold == \A h : ReplayOf(h) = Replaying!Fold(h)
BY DEF ReplayOf, Replaying!Fold, FoldLeft, Replaying!FoldLeft, MapThenFoldSet,
       Replaying!MapThenFoldSet, Max, Replaying!Max

\* One more call is replayed after the others.
LEMMA ReplayAppend ==
  ASSUME NEW h, IsSeq(h), NEW o
  PROVE  ReplayOf(Append(h, o)) = ReplayCall(ReplayOf(h), o)
<1>1. h \in Seq(ToSet(h) \cup {o}) /\ o \in ToSet(h) \cup {o}
  BY DEF IsSeq
<1> QED
  BY <1>1, ReplayIsFold, Replaying!FoldAppend

LEMMA ReplayEmpty == ReplayOf(<<>>) = ReplayStart
BY ReplayIsFold, Replaying!FoldEmpty

\* The operations that a caller may have answered.
Operations == {"START", "STEP", "VERDICT", "CLOSE", "PING"}

\* What the server's answer to an operation looks like.
LEMMA AnswerShape ==
  ASSUME NEW h, NEW op \in Operations, NEW arg
  PROVE  LET e == Dispatch(h, op, arg)
         IN  /\ e.status \in {"ok", "rejected", "error"}
             /\ e.status # "ok" => e.body = None
<1>1. CASE op = "START"
  BY <1>1 DEF Dispatch, Start, Effect
<1>2. CASE op = "STEP"
  BY <1>2 DEF Dispatch, Step, Effect
<1>3. CASE op = "VERDICT"
  BY <1>3 DEF Dispatch, Verdict, Effect
<1>4. CASE op \in {"CLOSE", "PING"}
  BY <1>4 DEF Dispatch, Close, Effect
<1> QED
  BY <1>1, <1>2, <1>3, <1>4 DEF Operations

\* Where two hosts are alike, the one with fewer sessions answers no call in
\* another way than the one with more, and they are alike after it.
LEMMA AlikeAnswers ==
  ASSUME NEW h, NEW r, Like(h, r), NEW op \in Operations, NEW arg,
         Dispatch(h, op, arg).status # "error"
  PROVE  LET e == Dispatch(h, op, arg)
             f == Dispatch(r, op, arg)
         IN  f.status = e.status /\ f.body = e.body /\ Like(e.host, f.host)
<1>1. CASE op = "START"
  <2>1. arg \in Tasks
    BY <1>1 DEF Dispatch, Start, Effect
  <2>2. \A x \in {h, r} : Dispatch(x, op, arg) =
            Effect(Host(Opened(x.open, x.count + 1), x.count + 1), "ok",
                   <<"session", x.count + 1, arg>>)
    BY <1>1, <2>1 DEF Dispatch, Start
  <2>3. Like(Host(Opened(h.open, h.count + 1), h.count + 1),
             Host(Opened(r.open, r.count + 1), r.count + 1))
    BY DEF Like, Host, Opened
  <2> QED
    BY <2>2, <2>3 DEF Effect, Like
<1>2. CASE op = "STEP"
  <2> DEFINE s == arg.session
  <2>1. s \in DOMAIN h.open /\ s \in DOMAIN r.open /\ h.open[s] = r.open[s]
    BY <1>2 DEF Dispatch, Step, Effect, Like
  <2>2. CASE arg.action = "forbidden"
    BY <1>2, <2>1, <2>2 DEF Dispatch, Step, Effect
  <2>3. CASE arg.action # "forbidden"
    <3>1. \A x \in {h, r} : Dispatch(x, op, arg) =
              Effect(Host([x.open EXCEPT ![s] = @ + 1], x.count), "ok",
                     <<"outcome", x.open[s] + 1>>)
      BY <1>2, <2>1, <2>3 DEF Dispatch, Step
    <3>2. Like(Host([h.open EXCEPT ![s] = @ + 1], h.count),
               Host([r.open EXCEPT ![s] = @ + 1], r.count))
      BY <2>1 DEF Like, Host
    <3> QED
      BY <2>1, <3>1, <3>2 DEF Effect
  <2> QED
    BY <2>2, <2>3
<1>3. CASE op = "VERDICT"
  BY <1>3 DEF Dispatch, Verdict, Effect, Like
<1>4. CASE op = "CLOSE"
  BY <1>4 DEF Dispatch, Close, Effect, Like, Host, Drop
<1>5. CASE op = "PING"
  BY <1>5 DEF Dispatch, Effect
<1> QED
  BY <1>1, <1>2, <1>3, <1>4, <1>5 DEF Operations

\* An outcome that is no answer is not replayed.
LEMMA NotReplayed ==
  ASSUME ChannelInv,
         \/ outcomes' = outcomes
         \/ \E o : o.result \notin {"ok", "rejected"} /\ outcomes' = Append(outcomes, o)
  PROVE  Replay' = Replay
<1>1. Replay = ReplayOf(outcomes) /\ Replay' = ReplayOf(outcomes')
  BY DEF Replay
<1>2. ASSUME NEW o, o.result \notin {"ok", "rejected"}, outcomes' = Append(outcomes, o)
      PROVE  Replay' = Replay
  <2>1. ReplayOf(Append(outcomes, o)) = ReplayCall(ReplayOf(outcomes), o)
    BY ReplayAppend DEF ChannelInv
  <2> QED
    BY <1>1, <1>2, <2>1 DEF ReplayCall
<1>3. CASE outcomes' = outcomes
  BY <1>1, <1>3
<1> QED
  BY <1>2, <1>3

\* What has failed or was declined remains so.
LEMMA UnbrokenBefore ==
  ASSUME ChannelInv, Unbroken',
         outcomes' = outcomes \/ \E o : outcomes' = Append(outcomes, o)
  PROVE  Unbroken
<1>1. CASE outcomes' = outcomes
  BY <1>1 DEF Unbroken
<1>2. ASSUME NEW o, outcomes' = Append(outcomes, o) PROVE Unbroken
  <2>1. /\ DOMAIN outcomes = 1 .. Len(outcomes) /\ Len(outcomes) \in Nat
        /\ DOMAIN outcomes' = 1 .. (Len(outcomes) + 1)
        /\ \A i \in 1 .. Len(outcomes) : outcomes'[i] = outcomes[i]
    BY <1>2, Appended DEF ChannelInv
  <2> QED
    BY <2>1 DEF Unbroken
<1> QED
  BY <1>1, <1>2

\* A step after which nothing is awaited and that answers no call.
LEMMA NothingTold ==
  ASSUME ChannelInv, HostInv, SerialInv', Sound' => Sound,
         call' # None => call'.op \in Operations \cup {"SHUTDOWN"},
         \/ outcomes' = outcomes
         \/ \E o : o.result \notin {"ok", "rejected"} /\ outcomes' = Append(outcomes, o),
         Sound' => /\ ~Awaiting' /\ host' = host
                   /\ Like(host, Replay.host) /\ (Unbroken' => host = Replay.host)
  PROVE  HostInv'
<1>1. Replay' = Replay
  BY NotReplayed
<1>2. Sound' => IsReplay(Replay.host)'
  BY <1>1 DEF IsReplay, Like
<1> QED
  BY <1>1, <1>2 DEF HostInv, Operations

\* A reply goes on telling what it told while neither end moves.
LEMMA StillTells ==
  ASSUME UNCHANGED <<host, outcomes>>,
         call'.op = call.op, call'.arg = call.arg, call'.asking = call.asking,
         NEW reply, Tells(reply)
  PROVE  Tells(reply)'
<1>1. Replay' = Replay
  BY DEF Replay
<1> QED
  BY <1>1 DEF Tells, IsReplay, Unbroken

\* A call begins, or ends at once.
LEMMA BeginningStep ==
  ASSUME ChannelInv, HostInv, SerialInv', Sound' => Sound,
         BeginCall \/ CallFails \/ Shutdown
  PROVE  HostInv'
<1>1. call = None /\ host' = host /\ ~Awaiting
  BY DEF BeginCall, CallFails, Shutdown, Begin, BeginShutdown, ShutdownAtOnce, Refused,
     SpawnFails, Misused, MayCall, Awaiting
<1>2. Sound => IsReplay(Replay.host)
  BY <1>1 DEF HostInv
<1>3. \/ outcomes' = outcomes
      \/ \E r \in {"failed", "refused", "shutdown"} : outcomes' = Append(outcomes, Unanswered(r))
  BY DEF BeginCall, CallFails, Shutdown, Begin, BeginShutdown, ShutdownAtOnce, Refused,
     SpawnFails, Misused
<1>4. \/ outcomes' = outcomes
      \/ \E o : o.result \notin {"ok", "rejected"} /\ outcomes' = Append(outcomes, o)
  BY <1>3 DEF Unanswered, Outcome
<1>5. /\ call' # None => call'.op \in Operations \cup {"SHUTDOWN"}
      /\ ~Awaiting'
  <2>1. CASE BeginCall
    <3>1. PICK r \in Requests : Begin(r.op, r.arg)
      BY <2>1 DEF BeginCall
    <3>2. r.op \in Operations
      BY <3>1 DEF Requests, Operations
    <3>3. call'.op = r.op /\ call'.phase = "send"
      BY <3>1 DEF Begin
    <3> QED
      BY <3>2, <3>3 DEF Awaiting
  <2>2. CASE CallFails \/ ShutdownAtOnce
    BY <1>1, <2>2 DEF CallFails, ShutdownAtOnce, Refused, SpawnFails, Misused, Awaiting
  <2>3. CASE BeginShutdown
    BY <2>3 DEF BeginShutdown, Awaiting
  <2> QED
    BY <2>1, <2>2, <2>3 DEF Shutdown
<1>6. Unbroken' => Unbroken
  BY <1>4, UnbrokenBefore
<1> QED
  BY <1>1, <1>2, <1>4, <1>5, <1>6, NothingTold DEF IsReplay

\* The request is sent, the greeting answered or the time over.
LEMMA ProceedingStep ==
  ASSUME NoneIsNoCall, ChannelInv, HostInv, SerialInv', Sound' => Sound,
         Send \/ BeginWrite \/ FinishWrite \/ Greeted \/ Expire, UNCHANGED host
  PROVE  HostInv'
<1>1. UNCHANGED <<host, closed, outcomes>> /\ call # None /\ CallShaped
  BY DEF Send, Sending, BeginWrite, FinishWrite, Writing, Greeted, Status, Arrived, Expire,
     HostInv, SerialInv
<1>2. /\ call'.op = call.op /\ call'.arg = call.arg
      /\ call.op \in Operations \cup {"SHUTDOWN"}
  <2>1. \/ \E phase : call' = [call EXCEPT !.id = counter + 1, !.phase = phase]
        \/ call' = [call EXCEPT !.asking = call.op, !.phase = "send"]
        \/ \E phase : call' = [call EXCEPT !.phase = phase]
    BY DEF Send, BeginWrite, FinishWrite, Greeted, Expire
  <2> QED
    BY <1>1, <2>1 DEF CallShaped, HostInv, Operations
<1>3. Replay' = Replay /\ Unbroken' = Unbroken
  BY <1>1 DEF Replay, Unbroken
<1>4. CASE Greeted
  <2>1. call'.phase = "send"
    BY <1>1, <1>4 DEF Greeted, CallShaped
  <2>2. ASSUME Sound PROVE IsReplay(Replay.host)
    <3>1. OneRequest
      BY <2>2 DEF HostInv, SerialInv
    <3>2. Awaiting /\ Head(queue) \in Replied
      BY <1>4, <3>1, TakenIsFresh DEF Greeted
    <3>3. Tells(Head(queue))
      BY <2>2, <3>2 DEF HostInv
    <3> QED
      BY <1>4, <3>3 DEF Tells, Greeted
  <2> QED
    BY <1>1, <1>2, <1>3, <2>1, <2>2, NothingTold DEF Awaiting, IsReplay
<1>7. CASE BeginWrite
  <2>1. call'.phase = "write" /\ ~Awaiting
    BY <1>1, <1>7 DEF BeginWrite, Sending, Awaiting, CallShaped
  <2>2. Sound => IsReplay(Replay.host)
    BY <2>1 DEF HostInv
  <2> QED
    BY <1>1, <1>2, <1>3, <2>1, <2>2, NothingTold DEF Awaiting, IsReplay
<1>5. CASE Send \/ FinishWrite
  <2>1. stdin' # <<>> /\ ~Awaiting
    BY <1>5 DEF Send, Sending, FinishWrite, Writing, Awaiting
  <2>2. Sound' => Replied' = {}
    BY <2>1 DEF SerialInv, OneRequest, Replied
  <2>3. Sound' => IsReplay(Replay.host)'
    BY <1>1, <1>3, <2>1 DEF HostInv, IsReplay
  <2> QED
    BY <1>2, <1>3, <2>2, <2>3 DEF HostInv, Operations
<1>6. CASE Expire
  <2>1. /\ Awaiting /\ call'.asking = call.asking
        /\ UNCHANGED <<stdin, serving, sent, stdout, queue, counter>>
    BY <1>1, <1>6 DEF Expire, Awaiting, CallShaped, childVars, readerVars
  <2>2. Replied' = Replied
    BY <2>1 DEF Replied, Fresh, IsFresh, Written
  <2>3. ASSUME NEW reply, Tells(reply) PROVE Tells(reply)'
    BY <1>1, <1>2, <2>1, <2>3, StillTells
  <2>4. Awaiting'
    <3>1. call' = [op |-> call.op, arg |-> call.arg, id |-> call.id,
                   phase |-> "expired", asking |-> call.asking]
      BY <1>1, <1>6 DEF Expire, CallShaped
    <3> QED
      BY <3>1 DEF NoneIsNoCall, Awaiting
  <2>5. Sound' => (stdin' # <<>> => IsReplay(Replay.host)')
    BY <1>1, <1>3, <2>1 DEF HostInv, IsReplay
  <2> QED
    BY <1>2, <1>3, <2>1, <2>2, <2>3, <2>4, <2>5 DEF HostInv, Operations
<1> QED
  BY <1>4, <1>5, <1>6, <1>7

\* A call ends without an answer.
LEMMA UnansweredStep ==
  ASSUME ChannelInv, HostInv, SerialInv', Sound' => Sound, UNCHANGED host,
         \/ FrameTooLong
         \/ SendFails \/ TakeEof \/ TakeBroken \/ TimedOut \/ TakeMalformed
  PROVE  HostInv'
<1>1. CASE FrameTooLong
  <2>1. /\ call' = None /\ ~Awaiting /\ ~Awaiting'
        /\ outcomes' = Append(outcomes, Unanswered("refused"))
    BY <1>1 DEF FrameTooLong, EndCall, Sending, Awaiting
  <2>2. \E o : o.result \notin {"ok", "rejected"} /\ outcomes' = Append(outcomes, o)
    BY <2>1 DEF Unanswered, Outcome
  <2>3. Sound => IsReplay(Replay.host)
    BY <2>1 DEF HostInv
  <2>4. Unbroken' => Unbroken
    BY <2>2, UnbrokenBefore
  <2> QED
    BY <2>1, <2>2, <2>3, <2>4, NothingTold DEF IsReplay
<1>2. CASE SendFails \/ TakeEof \/ TakeBroken \/ TimedOut \/ TakeMalformed
  <2>1. \E stop : Fail(stop)
    BY <1>2 DEF SendFails, TakeEof, TakeBroken, TimedOut, TakeMalformed
  <2>2. ~Sound'
    BY <2>1, FailUnsound
  <2>3. call' = None /\ \E r \in {"failed", "shutdown"} : outcomes' = Append(outcomes, Unanswered(r))
    BY <2>1 DEF Fail, CloseDown, EndCall
  <2>4. \E o : o.result \notin {"ok", "rejected"} /\ outcomes' = Append(outcomes, o)
    BY <2>3 DEF Unanswered, Outcome
  <2> QED
    BY <2>2, <2>3, <2>4, NothingTold
<1> QED
  BY <1>1, <1>2

\* An answer taken: the replay gives the same, and is where the server is.
LEMMA AnsweredStep ==
  ASSUME NoneIsNoCall, ChannelInv, HostInv, SerialInv', Sound' => Sound,
         AnswerAccepted \/ ActionRejected
  PROVE  HostInv'
<1> DEFINE reply == Head(queue)
           own == call.asking = call.op /\ call.op # "SHUTDOWN"
           o == Outcome(call.op, call.arg, reply.status, reply.body)
           effect == Dispatch(Replay.host, call.op, call.arg)
<1>1. /\ \E status \in {"ok", "rejected"} : Status(status) /\ reply.status = status
      /\ host' = host /\ Arrived /\ call # None
      /\ reply.status = "ok" => reply.body # Malformed /\ call.asking = call.op
  BY DEF AnswerAccepted, ActionRejected, Answered, Rejected, Status, Arrived
<1>2. Sound
  <2>1. ~closed /\ ~HasFailed
    BY <1>1, DeadSilence DEF ChannelInv, Dead
  <2> QED
    BY <2>1 DEF Sound, HasFailed
<1>3. OneRequest /\ IsSeq(outcomes) /\ Replay.agrees /\ CallShaped
      /\ call.op \in Operations \cup {"SHUTDOWN"}
  BY <1>1, <1>2 DEF HostInv, SerialInv, ChannelInv, Operations
<1>4. Tells(reply)
  <2>1. Awaiting /\ reply \in Replied
    BY <1>1, <1>3, TakenIsFresh
  <2> QED
    BY <1>2, <2>1 DEF HostInv
<1>5. call' = None /\ ~Awaiting'
  BY DEF AnswerAccepted, ActionRejected, Answered, Rejected, CloseDown, EndCall, Awaiting
<1>6. CASE own
  <2>1. /\ reply.status \in {"ok", "rejected"}
        /\ reply.status = "rejected" => reply.body = None
        /\ effect.status = reply.status /\ effect.body = reply.body
        /\ IsReplay(effect.host)
    <3>1. call.asking \notin {"HELLO", "SHUTDOWN"}
      BY <1>3, <1>6 DEF Operations
    <3> HIDE DEF reply
    <3> QED
      BY <1>1, <1>4, <3>1 DEF Tells
  <2>2. outcomes' = Append(outcomes, o)
    <3>1. CASE AnswerAccepted
      <4>1. outcomes' = Append(outcomes, Outcome(call.op, call.arg, "ok", Head(queue).body))
        BY <1>6, <3>1 DEF AnswerAccepted, Answered, EndCall
      <4>2. reply.status = "ok"
        BY <3>1 DEF AnswerAccepted, Answered, Status
      <4> QED
        BY <4>1, <4>2
    <3>2. CASE ActionRejected
      <4>1. outcomes' = Append(outcomes, Outcome(call.op, call.arg, "rejected", None))
        BY <1>6, <3>2 DEF ActionRejected, Rejected, EndCall
      <4>2. reply.status = "rejected"
        BY <3>2 DEF ActionRejected, Rejected, Status
      <4> QED
        BY <2>1, <4>1, <4>2
    <3> QED
      BY <3>1, <3>2
  <2> HIDE DEF reply
  <2>3. Replay' = ReplayCall(Replay, o)
    <3>1. ReplayOf(Append(outcomes, o)) = ReplayCall(ReplayOf(outcomes), o)
      BY <1>3, ReplayAppend
    <3>2. Replay = ReplayOf(outcomes) /\ Replay' = ReplayOf(outcomes')
      BY DEF Replay
    <3> QED
      BY <2>2, <3>1, <3>2
  <2>4. Replay'.host = effect.host /\ Replay'.agrees
    BY <1>3, <2>1, <2>3 DEF ReplayCall, Outcome
  <2>5. Unbroken' => Unbroken
    BY <2>2, UnbrokenBefore
  <2>6. IsReplay(Replay.host)'
    BY <1>1, <2>1, <2>4, <2>5 DEF IsReplay
  <2> QED
    BY <1>5, <2>4, <2>6 DEF HostInv
<1>7. CASE ~own
  <2>1. \E r \in {"declined", "shutdown"} :
           /\ outcomes' = Append(outcomes, Unanswered(r))
           /\ r = "shutdown" => ~Sound'
    <3>1. CASE AnswerAccepted
      BY <1>1, <1>7, <3>1 DEF AnswerAccepted, Answered, CloseDown, EndCall, Sound
    <3>2. CASE ActionRejected
      BY <1>1, <1>7, <3>2 DEF ActionRejected, Rejected, EndCall
    <3> QED
      BY <3>1, <3>2
  <2>2. \E x : x.result \notin {"ok", "rejected"} /\ outcomes' = Append(outcomes, x)
    BY <2>1 DEF Unanswered, Outcome
  <2>3. call.asking \in {"HELLO", "SHUTDOWN"}
    BY <1>1, <1>3, <1>7 DEF CallShaped
  <2>4. Like(host, Replay.host)
    BY <1>4, <2>3 DEF Tells, IsReplay
  <2>5. Sound' => ~Unbroken'
    <3>1. ASSUME outcomes' = Append(outcomes, Unanswered("declined")) PROVE ~Unbroken'
      <4>1. /\ DOMAIN outcomes' = 1 .. (Len(outcomes) + 1) /\ Len(outcomes) \in Nat
            /\ outcomes'[Len(outcomes) + 1] = Unanswered("declined")
        BY <1>3, <3>1, Appended
      <4>2. Len(outcomes) + 1 \in DOMAIN outcomes'
        BY <4>1
      <4> QED
        BY <4>1, <4>2 DEF Unbroken, Unanswered, Outcome
    <3> QED
      BY <2>1, <3>1
  <2> QED
    BY <1>1, <1>5, <2>2, <2>4, <2>5, NothingTold
<1> QED
  BY <1>6, <1>7

\* The server acts on the request, or the environment raises: the reply tells
\* what was done.
LEMMA ServerStep ==
  ASSUME NoneIsNoCall, ChannelInv, HostInv, SerialInv', Sound' => Sound, Serve \/ ServeRaises
  PROVE  HostInv'
<1> DEFINE done == Dispatch(host, Head(stdin).op, Head(stdin).arg)
           effect == Dispatch(Replay.host, call.op, call.arg)
<1>1. PICK status, body :
         /\ Execute(status, body)
         /\ \/ status = done.status /\ body = done.body /\ host' = done.host
            \/ /\ status = "error" /\ host' \in {host, done.host}
               /\ Head(stdin).op # "HELLO"
  BY DEF Serve, ServeRaises
<1>2. /\ UNCHANGED <<sent, stdout, queue, counter, closed, call, outcomes>>
      /\ serving' = Reply(Head(stdin).id, Head(stdin).op, status, body)
      /\ stdin # <<>> /\ stdin' = Tail(stdin)
  BY <1>1 DEF Execute, readerVars, clientVars
<1>3. Replay' = Replay /\ Unbroken' = Unbroken
  BY <1>2 DEF Replay, Unbroken
<1>4. ASSUME Sound'
      PROVE  /\ Awaiting' /\ stdin' = <<>>
             /\ \A reply \in Replied' : Tells(reply)'
  <2>1. /\ OneRequest /\ CallShaped /\ IsReplay(Replay.host)
    BY <1>2, <1>4 DEF HostInv, SerialInv
  <2>2. Awaiting /\ call # None /\ stdin = <<Request(counter, call.asking, call.arg)>>
    BY <1>2, <2>1 DEF OneRequest, Awaiting
  <2>3. Head(stdin).op = call.asking /\ Head(stdin).arg = call.arg /\ stdin' = <<>>
    BY <1>2, <2>2 DEF Request
  <2>4. Awaiting'
    BY <1>2, <2>2 DEF Awaiting
  <2>5. \A reply \in Replied' : reply = serving'
    <3>1. Fresh = {} /\ Fresh' = Fresh
      BY <1>2, <2>1 DEF OneRequest, Fresh, IsFresh, Written
    <3> QED
      BY <3>1 DEF Replied
  <2>6. serving'.status = status /\ serving'.body = body
    BY <1>2 DEF Reply
  <2>7. Tells(serving)'
    <3>1. CASE call.asking = "HELLO"
      <4>1. done.host = host
        BY <2>3, <3>1 DEF Dispatch, Effect
      <4>2. host' = host
        BY <1>1, <4>1
      <4> QED
        BY <1>2, <1>3, <2>1, <3>1, <4>2 DEF Tells, IsReplay
    <3>2. CASE call.asking = "SHUTDOWN"
      <4>1. done.host = Host(<<>>, host.count)
        BY <2>3, <3>2 DEF Dispatch, Effect
      <4>2. Like(done.host, Replay.host) /\ Like(host, Replay.host)
        BY <2>1, <4>1 DEF Like, Host, IsReplay
      <4>3. Like(host', Replay.host)
        BY <1>1, <4>2
      <4> QED
        BY <1>2, <1>3, <3>2, <4>3 DEF Tells
    <3>3. CASE call.asking \notin {"HELLO", "SHUTDOWN"}
      <4>1. call.asking = call.op /\ call.op \in Operations
        BY <2>1, <2>2, <3>3 DEF CallShaped, HostInv, Operations
      <4>2. CASE status = "error"
        BY <1>2, <2>6, <3>3, <4>2 DEF Tells
      <4>3. CASE status # "error"
        <5>1. /\ status = done.status /\ body = done.body /\ host' = done.host
              /\ done = Dispatch(host, call.op, call.arg)
          BY <1>1, <2>3, <4>1, <4>3
        <5>2. status \in {"ok", "rejected"} /\ (status = "rejected" => body = None)
          BY <4>1, <4>3, <5>1, AnswerShape
        <5>3. /\ effect.status = status /\ effect.body = body /\ Like(host', effect.host)
          BY <2>1, <4>1, <4>3, <5>1, AlikeAnswers DEF IsReplay
        <5>4. Unbroken => host' = effect.host
          BY <2>1, <5>1 DEF IsReplay
        <5>5. IsReplay(effect.host)'
          BY <1>2, <1>3, <5>3, <5>4 DEF IsReplay
        <5> QED
          BY <1>2, <1>3, <2>6, <3>3, <5>2, <5>3, <5>5 DEF Tells
      <4> QED
        BY <4>2, <4>3
    <3> QED
      BY <3>1, <3>2, <3>3
  <2> QED
    BY <2>3, <2>4, <2>5, <2>7
<1> QED
  BY <1>2, <1>3, <1>4 DEF HostInv

\* A greeting or a shutdown declined, or a result spoiled, tells no more than
\* the reply it replaces.
LEMMA FaultyReplyStep ==
  ASSUME NoneIsNoCall, ChannelInv, HostInv, SerialInv', Sound' => Sound,
         Decline \/ SpoilReply(Malformed), UNCHANGED host
  PROVE  HostInv'
<1>1. /\ UNCHANGED <<stdin, sent, stdout, queue, counter, closed, call, outcomes, host>>
      /\ serving # None
  BY DEF Decline, SpoilReply, Fault, clientVars
<1>2. \/ serving.op \in {"HELLO", "SHUTDOWN"}
      \/ serving'.status = "ok" /\ serving'.body = Malformed
  <2>1. serving = Reply(serving.id, serving.op, serving.status, serving.body)
    BY <1>1 DEF HostInv, SerialInv, ServingShaped
  <2>2. \/ serving.op \in {"HELLO", "SHUTDOWN"}
        \/ serving.status = "ok" /\ serving' = [serving EXCEPT !.body = Malformed]
    BY DEF Decline, SpoilReply
  <2> QED
    BY <2>1, <2>2 DEF Reply
<1>3. Replay' = Replay /\ Unbroken' = Unbroken
  BY <1>1 DEF Replay, Unbroken
<1>4. ASSUME Sound'
      PROVE  /\ Awaiting' /\ stdin' = <<>>
             /\ \A reply \in Replied' : Tells(reply)'
  <2>1. OneRequest
    BY <1>4 DEF HostInv, SerialInv
  <2>2. /\ Awaiting /\ stdin = <<>> /\ serving \in Replied /\ serving.op = call.asking
        /\ Fresh = {}
    BY <1>1, <2>1 DEF OneRequest, Replied
  <2>3. Tells(serving)
    BY <1>4, <2>2 DEF HostInv
  <2>4. \A reply \in Replied' : reply = serving'
    <3>1. Fresh' = {}
      BY <1>1, <2>2 DEF Fresh, IsFresh, Written
    <3> QED
      BY <3>1 DEF Replied
  <2>5. Tells(serving)'
    <3>1. CASE call.asking \in {"HELLO", "SHUTDOWN"}
      BY <1>1, <1>3, <2>3, <3>1 DEF Tells, IsReplay
    <3>2. CASE call.asking \notin {"HELLO", "SHUTDOWN"}
      BY <1>1, <1>2, <2>2, <3>2 DEF Tells
    <3> QED
      BY <3>1, <3>2
  <2>6. Awaiting'
    BY <1>1, <2>2 DEF Awaiting
  <2> QED
    BY <1>1, <2>2, <2>4, <2>5, <2>6
<1> QED
  BY <1>1, <1>3, <1>4 DEF HostInv

\* The child's process and the reader thread bring no reply that the gateway
\* might not have had before.
LEMMA QuietStep ==
  ASSUME NoneIsNoCall, ChannelInv, HostInv, SerialInv', Sound' => Sound,
         ChildMoves \/ ReaderMoves, UNCHANGED host
  PROVE  HostInv'
<1>1. /\ UNCHANGED <<stdin, clientVars>> /\ serving' \in {serving, None}
      /\ ChannelNext
  BY DEF ChildMoves, ReaderMoves, Respond, Die, Exit, WriteNoise, ForgetReply, CloseStdout,
     Fault, ReadLine, ReadEof, childVars, ChannelNext, ChildStep
<1>2. UNCHANGED <<stdin, counter, closed, call, outcomes, host>>
  BY <1>1 DEF clientVars
<1>3. Replay' = Replay /\ Unbroken' = Unbroken
  BY <1>2 DEF Replay, Unbroken
<1>4. Awaiting' = Awaiting
  BY <1>2 DEF Awaiting
<1>5. ASSUME Sound' PROVE \A reply \in Replied' : reply \in Replied
  <2>1. OneRequest
    BY <1>5 DEF HostInv, SerialInv
  <2>2. \A frame \in Fresh' : frame \in Replied
    BY <1>1, <1>2, <2>1, FreshStep
  <2> QED
    BY <1>1, <2>2 DEF Replied
<1>6. ASSUME NEW reply, Tells(reply) PROVE Tells(reply)'
  BY <1>2, <1>6, StillTells
<1>7. IsReplay(Replay.host) => IsReplay(Replay.host)'
  BY <1>2, <1>3 DEF IsReplay
<1> QED
  BY <1>2, <1>3, <1>4, <1>5, <1>6, <1>7 DEF HostInv

\* Between them the gateway and its server keep the invariant.
LEMMA HostStep ==
  ASSUME NoneIsNoCall, ChannelInv, HostInv, [Next]_vars
  PROVE  HostInv'
<1>1. CASE UNCHANGED vars
  <2>1. UNCHANGED <<host, outcomes, call, stdin, serving, sent, stdout, queue, counter, closed>>
    BY <1>1 DEF vars, channelVars, childVars, readerVars, clientVars
  <2>2. SerialInv' /\ Sound' = Sound
    BY <1>1, <2>1, SerialStep DEF vars, HostInv, Sound
  <2>3. Replay' = Replay /\ Unbroken' = Unbroken
    BY <2>1 DEF Replay, Unbroken
  <2>4. ASSUME NEW reply, Tells(reply) PROVE Tells(reply)'
    BY <2>1, <2>4, StillTells
  <2>5. Awaiting' = Awaiting /\ Replied' = Replied
    BY <2>1 DEF Awaiting, Replied, Fresh, IsFresh, Written
  <2>6. IsReplay(Replay.host) => IsReplay(Replay.host)'
    BY <2>1, <2>3 DEF IsReplay
  <2> QED
    BY <2>1, <2>2, <2>3, <2>4, <2>5, <2>6 DEF HostInv
<1>2. CASE Next
  <2>1. SerialInv'
    BY <1>2, GatewayStep, SerialStep DEF HostInv
  <2>2. Sound' => Sound
    BY <1>2, GatewayStep, SoundBefore
  <2>3. CASE BeginCall \/ CallFails \/ Shutdown
    BY <2>1, <2>2, <2>3, BeginningStep
  <2>4. CASE CandidateTooLong \/ AnswerMalformed
    BY <2>1, <2>2, <2>4, UnansweredStep DEF CandidateTooLong, AnswerMalformed
  <2>5. CASE AnswerAccepted \/ ActionRejected
    BY <2>1, <2>2, <2>5, AnsweredStep
  <2>6. CASE ClientMoves /\ UNCHANGED host
    BY <2>1, <2>2, <2>6, ProceedingStep, UnansweredStep DEF ClientMoves
  <2>10. CASE WriteCandidate \/ (FinishWrite /\ UNCHANGED host)
    BY <2>1, <2>2, <2>10, ProceedingStep DEF WriteCandidate
  <2>7. CASE Serve \/ ServeRaises
    BY <2>1, <2>2, <2>7, ServerStep
  <2>8. CASE (Decline \/ SpoilReply(Malformed)) /\ UNCHANGED host
    BY <2>1, <2>2, <2>8, FaultyReplyStep
  <2>9. CASE (ChildMoves \/ ReaderMoves) /\ UNCHANGED host
    BY <2>1, <2>2, <2>9, QuietStep
  <2> QED
    BY <1>2, <2>3, <2>4, <2>5, <2>6, <2>7, <2>8, <2>9, <2>10
    DEF Next, Caller
<1> QED
  BY <1>1, <1>2

\* Before the first call the server's host is a fresh one.
LEMMA HostStart == Init => HostInv
<1> SUFFICES ASSUME Init PROVE HostInv
  OBVIOUS
<1>1. SerialInv
  BY SerialStarts DEF Init
<1>2. host = FreshHost /\ call = None /\ outcomes = <<>> /\ ~Awaiting
  BY DEF Init, ChannelInit, Awaiting
<1>3. Replay = ReplayStart
  BY <1>2, ReplayEmpty DEF Replay
<1>4. Replay.agrees /\ Replay.host = host
  BY <1>2, <1>3 DEF ReplayStart
<1>5. IsReplay(Replay.host)
  BY <1>4 DEF IsReplay, Like
<1> QED
  BY <1>1, <1>2, <1>4, <1>5 DEF HostInv

(* The caller and the server have a pipe, a reader thread and a process     *)
(* between them, any of which may fail or bring an old reply: still every   *)
(* answer is the one that a host in the caller's own process would have     *)
(* given to the answered calls, and between calls the server is where that  *)
(* host would be, for every registry and every number of calls and faults.  *)
THEOREM GatewayLooksLocal ==
  ASSUME NoneIsNoCall
  PROVE  Spec => []LooksLocal
<1>1. Init => ChannelInv /\ HostInv
  BY ChannelStarts, HostStart DEF Init
<1>2. ChannelInv /\ HostInv /\ [Next]_vars => (ChannelInv /\ HostInv)'
  BY GatewayStep, ChannelStep, HostStep DEF vars
<1>3. HostInv => LooksLocal
  <2>1. AtRest => Sound /\ ~Awaiting /\ Unbroken
    BY DEF AtRest, Unbroken, Sound, Awaiting
  <2> QED
    BY <2>1 DEF HostInv, IsReplay, LooksLocal
<1> QED
  BY <1>1, <1>2, <1>3, PTL DEF Spec

-----------------------------------------------------------------------------
(* The endpoint. *)

\* What the endpoint and its worker do are steps of a channel.
LEMMA EndpointStep == EndpointNext => ChannelNext \/ UNCHANGED channelVars
<1> SUFFICES ASSUME EndpointNext PROVE ChannelNext \/ UNCHANGED channelVars
  OBVIOUS
<1> USE DEF ChannelNext, ClientStep, ChildStep
<1>1. CASE BeginStart \/ BeginTurn \/ BeginClose \/ BeginPing \/ EndpointShutdown \/ RequestUnmade
  BY <1>1 DEF BeginStart, BeginTurn, BeginClose, BeginPing, EndpointShutdown, RequestUnmade
<1>2. CASE RequestProceeds \/ RequestTooLong \/ WriteRequest \/ FinishWrite \/ RequestFails
  BY <1>2 DEF RequestProceeds, RequestTooLong, WriteRequest, RequestFails
<1>3. CASE ResultTaken \/ ResultRefused
  BY <1>3 DEF ResultTaken, ResultRefused
<1>4. CASE Worker
  BY <1>4 DEF Worker, WorkerAnswers, WorkerStarts, WorkerDecides, WorkerCloses,
     WorkerShutsDown, WorkerFails
<1>5. CASE SpoilResult
  BY <1>5 DEF SpoilResult
<1>6. CASE ChildMoves \/ ReaderMoves
  BY <1>6 DEF ChildMoves, ReaderMoves
<1> QED
  BY <1>1, <1>2, <1>3, <1>4, <1>5, <1>6 DEF EndpointNext, Controller

(* After a timeout, a broken or foreign reply, a reported error or the end *)
(* of the process, no call of the endpoint is answered again: a worker     *)
(* that may have acted on a lost request is never asked for a later turn.  *)
THEOREM EndpointFailStop == EndpointSpec => []FailStop
<1>1. EndpointInit => ChannelInv
  BY ChannelStarts DEF EndpointInit
<1>2. ChannelInv /\ [EndpointNext]_endpointVars => ChannelInv'
  BY EndpointStep, ChannelStep DEF endpointVars
<1>3. ChannelInv => FailStop
  BY DEF ChannelInv
<1> QED
  BY <1>1, <1>2, <1>3, PTL DEF EndpointSpec
-----------------------------------------------------------------------------
(* The turns of a session. *)

\* There are finitely many.
LEMMA FewTurns ==
  ASSUME NEW h, NEW n \in Nat, NEW s
  PROVE  /\ Cardinality(TurnsUpTo(h, n, s)) \in Nat
         /\ Cardinality(TurnsUpTo(h, n, s) \cup {n + 1}) = Cardinality(TurnsUpTo(h, n, s)) + 1
<1>1. IsFiniteSet(1 .. n)
  BY FS_Interval
<1>2. TurnsUpTo(h, n, s) \subseteq 1 .. n
  BY DEF TurnsUpTo
<1>3. IsFiniteSet(TurnsUpTo(h, n, s))
  BY <1>1, <1>2, FS_Subset
<1>4. n + 1 \notin TurnsUpTo(h, n, s)
  BY <1>2
<1> QED
  BY <1>3, <1>4, FS_CardinalityType, FS_AddElement

\* What one more outcome adds to the turns of a session.
LEMMA TurnsCounted ==
  ASSUME NEW h, IsSeq(h), NEW o, NEW s
  PROVE  /\ \A i \in 0 .. Len(h) : TurnsUpTo(Append(h, o), i, s) = TurnsUpTo(h, i, s)
         /\ TurnsSoFar(Append(h, o), s) =
               TurnsSoFar(h, s) \cup (IF IsTurn(o) /\ o.arg.session = s THEN {Len(h) + 1} ELSE {})
<1> DEFINE g == Append(h, o)
           n == Len(h)
<1>1. /\ n \in Nat /\ Len(g) = n + 1 /\ g[n + 1] = o /\ \A i \in 1 .. n : g[i] = h[i]
  BY Appended
<1> HIDE DEF g, n
<1>2. ASSUME NEW i \in 0 .. n PROVE TurnsUpTo(g, i, s) = TurnsUpTo(h, i, s)
  <2>1. \A j \in 1 .. i : g[j] = h[j]
    BY <1>1
  <2> QED
    BY <2>1 DEF TurnsUpTo
<1>3. 1 .. (n + 1) = (1 .. n) \cup {n + 1}
  BY <1>1
<1>4. TurnsUpTo(g, n + 1, s) =
         TurnsUpTo(h, n, s) \cup (IF IsTurn(o) /\ o.arg.session = s THEN {n + 1} ELSE {})
  BY <1>1, <1>3 DEF TurnsUpTo
<1> QED
  BY <1>1, <1>2, <1>4 DEF TurnsSoFar, g, n

\* An outcome that is no turn changes no count.
LEMMA OtherOutcome ==
  ASSUME NEW h, IsSeq(h), NEW o, ~IsTurn(o)
  PROVE  /\ InOrder(h) => InOrder(Append(h, o))
         /\ \A s : TurnsSoFar(Append(h, o), s) = TurnsSoFar(h, s)
         /\ \A i \in DOMAIN Append(h, o) : IsTurn(Append(h, o)[i]) =>
                i \in DOMAIN h /\ Append(h, o)[i] = h[i]
<1> DEFINE g == Append(h, o)
           n == Len(h)
<1>1. /\ n \in Nat /\ DOMAIN h = 1 .. n /\ DOMAIN g = 1 .. (n + 1)
      /\ g[n + 1] = o /\ \A i \in 1 .. n : g[i] = h[i]
  BY Appended
<1>2. ASSUME NEW s
      PROVE  /\ \A i \in 0 .. n : TurnsUpTo(g, i, s) = TurnsUpTo(h, i, s)
             /\ TurnsSoFar(g, s) = TurnsSoFar(h, s)
  <2>1. /\ \A i \in 0 .. n : TurnsUpTo(g, i, s) = TurnsUpTo(h, i, s)
        /\ TurnsSoFar(g, s) =
              TurnsSoFar(h, s) \cup (IF IsTurn(o) /\ o.arg.session = s THEN {n + 1} ELSE {})
    BY TurnsCounted
  <2> QED
    BY <2>1
<1> HIDE DEF g, n
<1>3. ASSUME NEW i \in DOMAIN g, IsTurn(g[i])
      PROVE  i \in 0 .. n /\ i \in DOMAIN h /\ g[i] = h[i]
  <2>1. i # n + 1
    BY <1>1, <1>3
  <2> QED
    BY <1>1, <2>1
<1>4. InOrder(h) => InOrder(g)
  BY <1>2, <1>3 DEF InOrder
<1> QED
  BY <1>2, <1>3, <1>4 DEF g

\* The answer of the turn that is due is the next of its session.
LEMMA DueTurn ==
  ASSUME NEW h, IsSeq(h), NEW o, InOrder(h), IsTurn(o),
         o.body = <<o.op, o.arg.session, Cardinality(TurnsSoFar(h, o.arg.session)) + 1>>
  PROVE  /\ InOrder(Append(h, o))
         /\ Cardinality(TurnsSoFar(Append(h, o), o.arg.session))
              = Cardinality(TurnsSoFar(h, o.arg.session)) + 1
         /\ \A s : s # o.arg.session => TurnsSoFar(Append(h, o), s) = TurnsSoFar(h, s)
<1> DEFINE g == Append(h, o)
           n == Len(h)
           due == o.arg.session
<1>1. /\ n \in Nat /\ DOMAIN h = 1 .. n /\ DOMAIN g = 1 .. (n + 1) /\ Len(g) = n + 1
      /\ g[n + 1] = o /\ \A i \in 1 .. n : g[i] = h[i]
  BY Appended
<1>2. /\ \A i \in 0 .. n : \A s : TurnsUpTo(g, i, s) = TurnsUpTo(h, i, s)
      /\ \A s : TurnsSoFar(g, s) = TurnsSoFar(h, s) \cup (IF due = s THEN {n + 1} ELSE {})
  BY TurnsCounted
<1>3. Cardinality(TurnsSoFar(h, due) \cup {n + 1}) = Cardinality(TurnsSoFar(h, due)) + 1
  BY <1>1, FewTurns DEF TurnsSoFar
<1> HIDE DEF g, n, due
<1>4. Cardinality(TurnsSoFar(g, due)) = Cardinality(TurnsSoFar(h, due)) + 1
  BY <1>2, <1>3
<1>5. ASSUME NEW i \in DOMAIN g, IsTurn(g[i])
      PROVE  LET s == g[i].arg.session
             IN  g[i].body = <<g[i].op, s, Cardinality(TurnsUpTo(g, i, s))>>
  <2>1. CASE i = n + 1
    BY <1>1, <1>4, <2>1 DEF TurnsSoFar, due
  <2>2. CASE i # n + 1
    <3>1. i \in 0 .. n /\ i \in DOMAIN h /\ g[i] = h[i]
      BY <1>1, <2>2
    <3>2. TurnsUpTo(g, i, g[i].arg.session) = TurnsUpTo(h, i, h[i].arg.session)
      BY <1>2, <3>1
    <3> QED
      BY <1>5, <3>1, <3>2 DEF InOrder
  <2> QED
    BY <2>1, <2>2
<1>6. InOrder(g)
  BY <1>5 DEF InOrder
<1>7. \A s : s # due => TurnsSoFar(g, s) = TurnsSoFar(h, s)
  BY <1>2
<1> QED
  BY <1>4, <1>6, <1>7 DEF g, due
-----------------------------------------------------------------------------
(* What each step leaves of the invariant. *)

\* The outcomes grow by none that is a turn.
NoTurnAdded ==
    \/ outcomes' = outcomes
    \/ \E o : ~IsTurn(o) /\ outcomes' = Append(outcomes, o)

\* Such outcomes leave every count, and the numbers used, as they were.
LEMMA NothingCounted ==
  ASSUME ChannelInv, NoTurnAdded
  PROVE  /\ InOrder(outcomes) => InOrder(outcomes')
         /\ \A s : TurnsSoFar(outcomes', s) = TurnsSoFar(outcomes, s)
         /\ \A i \in DOMAIN outcomes' : IsTurn(outcomes'[i]) =>
                i \in DOMAIN outcomes /\ outcomes'[i] = outcomes[i]
<1>1. CASE outcomes' = outcomes
  BY <1>1
<1>2. ASSUME NEW o, ~IsTurn(o), outcomes' = Append(outcomes, o)
      PROVE  /\ InOrder(outcomes) => InOrder(Append(outcomes, o))
             /\ \A s : TurnsSoFar(Append(outcomes, o), s) = TurnsSoFar(outcomes, s)
             /\ \A i \in DOMAIN Append(outcomes, o) : IsTurn(Append(outcomes, o)[i]) =>
                    i \in DOMAIN outcomes /\ Append(outcomes, o)[i] = outcomes[i]
  BY <1>2, OtherOutcome DEF ChannelInv
<1> QED
  BY <1>1, <1>2 DEF NoTurnAdded

\* Where no turn is answered, the counts and the numbers stand.
LEMMA CountsStand ==
  ASSUME ChannelInv, NoTurnAdded, InOrder(outcomes), CountInv, NumberedInv,
         turns' = turns, opened \in Nat, opened' \in {opened, opened + 1}
  PROVE  InOrder(outcomes)' /\ CountInv' /\ NumberedInv'
<1>1. /\ InOrder(outcomes')
      /\ \A s : TurnsSoFar(outcomes', s) = TurnsSoFar(outcomes, s)
      /\ \A i \in DOMAIN outcomes' : IsTurn(outcomes'[i]) =>
             i \in DOMAIN outcomes /\ outcomes'[i] = outcomes[i]
  BY NothingCounted
<1>2. InOrder(outcomes)'
  BY <1>1 DEF InOrder, IsTurn, TurnsUpTo
<1>3. CountInv'
  <2>1. \A s \in DOMAIN turns : turns[s] = Cardinality(TurnsSoFar(outcomes', s)) + 1
    BY <1>1 DEF CountInv
  <2> QED
    BY <2>1 DEF CountInv, TurnsSoFar, TurnsUpTo, IsTurn
<1>4. NumberedInv'
  <2>1. 1 .. opened \subseteq 1 .. opened'
    OBVIOUS
  <2>2. ASSUME NEW i \in DOMAIN outcomes', IsTurn(outcomes'[i])
        PROVE  outcomes'[i].arg.session \in 1 .. opened'
    BY <1>1, <2>1, <2>2 DEF NumberedInv
  <2> QED
    BY <2>1, <2>2 DEF NumberedInv, IsTurn
<1> QED
  BY <1>2, <1>3, <1>4

\* A step after which nothing is awaited: either both ends agree, as they did,
\* or the channel is of no further use.
LEMMA NothingAwaited ==
  ASSUME ChannelInv, TurnsInv, NoTurnAdded, SerialInv', Sound' => Sound,
         AskedInv', opened' = opened,
         Sound' => /\ turns' = turns /\ workers' = workers /\ workers = turns
                   /\ ~Awaiting'
  PROVE  TurnsInv'
<1>1. InOrder(outcomes)'
  BY NothingCounted DEF TurnsInv, InOrder, IsTurn, TurnsUpTo
<1>2. ASSUME Sound' PROVE AgreementInv' /\ CountInv' /\ NumberedInv'
  <2>1. AgreementInv'
    BY <1>2 DEF AgreementInv
  <2>2. InOrder(outcomes) /\ CountInv /\ NumberedInv /\ opened \in Nat
    BY <1>2 DEF TurnsInv
  <2> QED
    BY <1>2, <2>1, <2>2, CountsStand
<1> QED
  BY <1>1, <1>2 DEF TurnsInv

\* A reply settles what it settled while neither end moves.
LEMMA StillSettles ==
  ASSUME UNCHANGED <<turns, workers, opened, outcomes>>,
         call'.op = call.op, call'.arg = call.arg, call'.asking = call.asking,
         NEW reply, Settles(reply)
  PROVE  Settles(reply)'
BY DEF Settles, Accepted, TurnsAfter, FirstTurn, Drop, TurnsSoFar, TurnsUpTo, IsTurn, TurnOps

\* A call under way goes on asking for the same.
LEMMA StillAsked ==
  ASSUME AskedInv, turns' = turns,
         \/ call' = None
         \/ call' = call
         \/ call # None /\ call'.op = call.op /\ call'.arg = call.arg
  PROVE  AskedInv'
BY DEF AskedInv, TurnOps

\* A step within a call, of either end, that keeps what they agree on.
LEMMA CallGoesOn ==
  ASSUME ChannelInv, TurnsInv, SerialInv', Sound' => Sound, AskedInv',
         UNCHANGED <<turns, outcomes>>, opened' \in {opened, opened + 1},
         Sound' => AgreementInv'
  PROVE  TurnsInv'
<1>1. NoTurnAdded /\ opened \in Nat /\ opened' \in Nat
  BY DEF NoTurnAdded, TurnsInv
<1>2. InOrder(outcomes)'
  BY DEF TurnsInv, InOrder, IsTurn, TurnsUpTo
<1>3. Sound' => CountInv' /\ NumberedInv'
  BY <1>1, CountsStand DEF TurnsInv
<1> QED
  BY <1>1, <1>2, <1>3 DEF TurnsInv

\* The child's process and the reader thread bring no reply that the endpoint
\* might not have had before.
LEMMA EndpointQuiet ==
  ASSUME NoneIsNoCall, ChannelInv, TurnsInv, SerialInv', Sound' => Sound,
         ChildMoves \/ ReaderMoves, UNCHANGED sessionVars
  PROVE  TurnsInv'
<1>1. /\ UNCHANGED <<stdin, clientVars>> /\ serving' \in {serving, None}
      /\ ChannelNext
  BY DEF ChildMoves, ReaderMoves, Respond, Die, Exit, WriteNoise, ForgetReply, CloseStdout,
     Fault, ReadLine, ReadEof, childVars, ChannelNext, ChildStep
<1>2. UNCHANGED <<stdin, counter, closed, call, outcomes, turns, workers, opened>>
  BY <1>1 DEF clientVars, sessionVars
<1>3. AskedInv'
  BY <1>2, StillAsked DEF TurnsInv
<1>4. ASSUME Sound' PROVE AgreementInv'
  <2>1. AgreementInv /\ OneRequest
    BY <1>4 DEF TurnsInv, SerialInv
  <2>2. Awaiting' = Awaiting
    BY <1>2 DEF Awaiting
  <2>3. \A frame \in Fresh' : frame \in Replied
    BY <1>1, <1>2, <2>1, FreshStep
  <2>4. \A frame \in Replied' : frame \in Replied
    BY <1>1, <2>3 DEF Replied
  <2>5. ASSUME NEW reply, Settles(reply) PROVE Settles(reply)'
    BY <1>2, <2>5, StillSettles
  <2> QED
    BY <1>2, <2>1, <2>2, <2>4, <2>5 DEF AgreementInv
<1> QED
  BY <1>2, <1>3, <1>4, CallGoesOn

\* A call begins, or ends at once.
LEMMA EndpointBegins ==
  ASSUME NoneIsNoCall, ChannelInv, TurnsInv, SerialInv', Sound' => Sound,
         BeginStart \/ BeginTurn \/ BeginClose \/ BeginPing \/ EndpointShutdown \/ RequestUnmade
  PROVE  TurnsInv'
<1>1. call = None /\ opened' = opened
  BY DEF BeginStart, BeginTurn, BeginClose, BeginPing, EndpointShutdown, RequestUnmade, Begin,
     BeginShutdown, ShutdownAtOnce, Refused, SpawnFails, Misused, MayCall, sessionVars
<1>2. Sound => workers = turns
  BY <1>1 DEF TurnsInv, AgreementInv, Awaiting
<1>3. ASSUME NEW op, NEW arg, Begin(op, arg), UNCHANGED sessionVars,
             op \in {"START", "CLOSE", "PING"} \cup TurnOps,
             op \in TurnOps => arg.session \in DOMAIN turns /\ arg.turn = turns[arg.session]
      PROVE  TurnsInv'
  <2>1. call'.op = op /\ call'.arg = arg /\ call'.phase = "send"
    BY <1>3 DEF Begin
  <2>2. AskedInv' /\ ~Awaiting'
    BY <1>3, <2>1 DEF AskedInv, Awaiting, sessionVars
  <2>3. NoTurnAdded
    BY <1>3 DEF Begin, NoTurnAdded
  <2> QED
    BY <1>1, <1>2, <1>3, <2>2, <2>3, NothingAwaited DEF sessionVars
<1>4. CASE BeginStart \/ BeginClose \/ BeginPing
  BY <1>3, <1>4 DEF BeginStart, BeginClose, BeginPing, TurnOps
<1>5. CASE BeginTurn
  <2>1. PICK op \in TurnOps, s \in DOMAIN turns :
            Begin(op, [session |-> s, turn |-> turns[s]]) /\ UNCHANGED sessionVars
    BY <1>5 DEF BeginTurn
  <2> QED
    BY <1>3, <2>1
<1>6. CASE BeginShutdown /\ UNCHANGED sessionVars
  <2>1. call'.op = "SHUTDOWN" /\ call'.phase = "send" /\ outcomes' = outcomes
    BY <1>6 DEF BeginShutdown
  <2>2. AskedInv' /\ ~Awaiting' /\ NoTurnAdded
    BY <2>1 DEF AskedInv, Awaiting, NoTurnAdded, TurnOps
  <2> QED
    BY <1>1, <1>2, <1>6, <2>2, NothingAwaited DEF sessionVars
<1>7. CASE ShutdownAtOnce
  <2>1. outcomes' = Append(outcomes, Unanswered("shutdown")) /\ call' = None /\ ~Sound'
    BY <1>1, <1>7 DEF ShutdownAtOnce, Sound
  <2>2. NoTurnAdded
    BY <2>1 DEF NoTurnAdded, IsTurn, Unanswered, Outcome
  <2> QED
    BY <1>1, <2>1, <2>2, NothingAwaited DEF AskedInv
<1>8. CASE RequestUnmade
  <2>1. /\ \E r \in {"failed", "refused"} : outcomes' = Append(outcomes, Unanswered(r))
        /\ call' = None /\ UNCHANGED sessionVars
    BY <1>1, <1>8 DEF RequestUnmade, Refused, SpawnFails, Misused
  <2>2. NoTurnAdded
    BY <2>1 DEF NoTurnAdded, IsTurn, Unanswered, Outcome
  <2> QED
    BY <1>1, <1>2, <2>1, <2>2, NothingAwaited DEF AskedInv, Awaiting, sessionVars
<1> QED
  BY <1>4, <1>5, <1>6, <1>7, <1>8 DEF EndpointShutdown

\* The request is sent, its greeting answered, the time is up.
LEMMA EndpointProceeds ==
  ASSUME NoneIsNoCall, ChannelInv, TurnsInv, SerialInv', Sound' => Sound,
         RequestProceeds \/ WriteRequest \/ (FinishWrite /\ UNCHANGED sessionVars)
  PROVE  TurnsInv'
<1>1. UNCHANGED <<turns, workers, opened, closed, outcomes>> /\ call # None /\ CallShaped
  BY DEF RequestProceeds, WriteRequest, sessionVars, Send, Sending, BeginWrite, FinishWrite,
     Writing, Greeted, Status, Arrived, Expire, TurnsInv, SerialInv
<1>2. call'.op = call.op /\ call'.arg = call.arg
  <2>1. \/ \E phase : call' = [call EXCEPT !.id = counter + 1, !.phase = phase]
        \/ call' = [call EXCEPT !.asking = call.op, !.phase = "send"]
        \/ \E phase : call' = [call EXCEPT !.phase = phase]
    BY DEF RequestProceeds, WriteRequest, Send, BeginWrite, FinishWrite, Greeted, Expire
  <2> QED
    BY <1>1, <2>1 DEF CallShaped
<1>3. AskedInv'
  BY <1>1, <1>2, StillAsked DEF TurnsInv
<1>4. ASSUME Sound' PROVE AgreementInv'
  <2>1. AgreementInv /\ OneRequest /\ OneRequest'
    BY <1>4 DEF TurnsInv, SerialInv
  <2>5. CASE BeginWrite
    <3>1. ~Awaiting
      BY <2>5 DEF BeginWrite, Sending, Awaiting
    <3>2. call'.phase = "write"
      BY <1>1, <2>5 DEF BeginWrite, CallShaped
    <3> QED
      BY <1>1, <2>1, <3>1, <3>2 DEF AgreementInv, Awaiting
  <2>2. CASE Send \/ FinishWrite
    <3>1. stdin' # <<>>
      BY <2>2 DEF Send, FinishWrite
    <3>2. workers' = turns'
      BY <1>1, <2>1, <2>2 DEF AgreementInv, Awaiting, Send, Sending, FinishWrite, Writing
    <3>3. Replied' = {}
      BY <2>1, <3>1 DEF OneRequest, Replied
    <3> QED
      BY <3>2, <3>3 DEF AgreementInv
  <2>3. CASE Greeted
    <3>1. /\ Head(queue) \in Replied /\ Head(queue).status = "ok" /\ Awaiting
      BY <2>1, <2>3, TakenIsFresh DEF Greeted, Status
    <3>2. workers = turns
      BY <2>1, <2>3, <3>1 DEF AgreementInv, Settles, Greeted
    <3>3. call'.phase = "send"
      BY <1>1, <2>3 DEF Greeted, CallShaped
    <3> QED
      BY <1>1, <3>2, <3>3 DEF AgreementInv, Awaiting
  <2>4. CASE Expire
    <3>1. /\ Awaiting /\ call'.asking = call.asking
          /\ UNCHANGED <<stdin, serving, sent, stdout, queue, counter>>
      BY <1>1, <2>4 DEF Expire, Awaiting, CallShaped, childVars, readerVars
    <3>2. Replied' = Replied
      BY <3>1 DEF Replied, Fresh, IsFresh, Written
    <3>3. ASSUME NEW reply, Settles(reply) PROVE Settles(reply)'
      BY <1>1, <1>2, <3>1, <3>3, StillSettles
    <3>4. Awaiting'
      <4>1. call' = [op |-> call.op, arg |-> call.arg, id |-> call.id,
                     phase |-> "expired", asking |-> call.asking]
        BY <1>1, <2>4 DEF Expire, CallShaped
      <4> QED
        BY <4>1 DEF NoneIsNoCall, Awaiting
    <3> QED
      BY <1>1, <2>1, <3>1, <3>2, <3>3, <3>4 DEF AgreementInv
  <2> QED
    BY <2>2, <2>3, <2>4, <2>5 DEF RequestProceeds, WriteRequest
<1> QED
  BY <1>1, <1>3, <1>4, CallGoesOn

\* A call ends without an answer.
LEMMA EndpointUnanswered ==
  ASSUME NoneIsNoCall, ChannelInv, TurnsInv, SerialInv', Sound' => Sound,
         RequestTooLong \/ RequestFails \/ ResultRefused
  PROVE  TurnsInv'
<1>1. CASE RequestTooLong
  <2>1. /\ UNCHANGED <<turns, workers, opened>> /\ call' = None /\ ~Awaiting
        /\ outcomes' = Append(outcomes, Unanswered("refused"))
    BY <1>1 DEF RequestTooLong, FrameTooLong, EndCall, sessionVars, Sending, Awaiting
  <2>2. NoTurnAdded
    BY <2>1 DEF NoTurnAdded, IsTurn, Unanswered, Outcome
  <2>3. Sound => workers = turns
    BY <2>1 DEF TurnsInv, AgreementInv
  <2> QED
    BY <2>1, <2>2, <2>3, NothingAwaited DEF AskedInv, Awaiting
<1>2. CASE RequestFails \/ ResultRefused
  <2>1. opened' = opened /\ \E stop : Fail(stop)
    BY <1>2 DEF RequestFails, ResultRefused, SendFails, TakeEof, TakeBroken, TimedOut,
       TakeMalformed
  <2>2. ~Sound'
    BY <2>1, FailUnsound
  <2>3. call' = None /\ \E r \in {"failed", "shutdown"} : outcomes' = Append(outcomes, Unanswered(r))
    BY <2>1 DEF Fail, CloseDown, EndCall
  <2>4. NoTurnAdded
    BY <2>3 DEF NoTurnAdded, IsTurn, Unanswered, Outcome
  <2> QED
    BY <2>1, <2>2, <2>3, <2>4, NothingAwaited DEF AskedInv
<1> QED
  BY <1>1, <1>2

\* The worker acts on the request: what it keeps is what the endpoint will keep,
\* if it accepts the reply.
LEMMA WorkerStep ==
  ASSUME NoneIsNoCall, ChannelInv, TurnsInv, SerialInv', Sound' => Sound, Worker
  PROVE  TurnsInv'
<1>1. /\ \E status, body : Execute(status, body)
      /\ turns' = turns /\ opened' \in {opened, opened + 1}
  BY DEF Worker, WorkerAnswers, WorkerStarts, WorkerDecides, WorkerCloses, WorkerShutsDown,
     WorkerFails, sessionVars
<1>2. UNCHANGED <<sent, stdout, queue, counter, closed, call, outcomes>>
  BY <1>1 DEF Execute, readerVars, clientVars
<1>3. AskedInv'
  BY <1>1, <1>2, StillAsked DEF TurnsInv
<1>4. ASSUME Sound' PROVE AgreementInv'
  <2> DEFINE r == Request(counter, call.asking, call.arg)
  <2>1. /\ AgreementInv /\ NumberedInv /\ opened \in Nat /\ OneRequest /\ OneRequest'
        /\ AskedInv /\ CallShaped /\ stdin # <<>>
    BY <1>1, <1>4 DEF TurnsInv, SerialInv, Execute
  <2>2. workers = turns /\ Awaiting /\ call # None
    BY <2>1 DEF AgreementInv, OneRequest, Awaiting
  <2>3. Head(stdin) = r /\ r.op = call.asking /\ r.arg = call.arg
    BY <2>1, <2>2 DEF OneRequest, Request
  <2>4. Awaiting' /\ call' # None /\ call.asking \in {"HELLO", call.op}
    BY <1>2, <2>1, <2>2 DEF Awaiting, CallShaped
  <2>5. stdin' = <<>>
    BY <1>1, <2>1, <2>2 DEF OneRequest, Execute
  <2>6. \A reply \in Replied' : reply = serving'
    <3>1. Fresh = {} /\ Fresh' = Fresh
      BY <1>2, <2>1 DEF OneRequest, Fresh, IsFresh, Written
    <3> QED
      BY <3>1 DEF Replied
  <2>7. ASSUME serving'.status = "ok" PROVE Settles(serving)'
    <3>1. CASE WorkerAnswers
      <4>1. call.asking \in {"HELLO", "PING"} /\ workers' = workers
        BY <2>3, <3>1 DEF WorkerAnswers, Serves, sessionVars
      <4> QED
        BY <1>1, <1>2, <2>2, <2>4, <4>1 DEF Settles, TurnsAfter, TurnOps
    <3>2. CASE WorkerStarts
      <4>1. /\ call.asking = "START" /\ opened' = opened + 1
            /\ workers' = FirstTurn(workers, opened + 1)
            /\ serving'.body = <<"session", opened + 1, call.arg>>
        BY <2>3, <3>2 DEF WorkerStarts, Serves, Execute, Reply
      <4>2. call.op = "START" /\ serving'.body[2] = opened + 1
        BY <2>4, <4>1
      <4>3. workers' = TurnsAfter(call.op, call.arg, serving'.body)
        BY <2>2, <4>1, <4>2 DEF TurnsAfter, TurnOps
      <4>4. serving'.body[2] \in 1 .. opened'
        BY <2>1, <4>1, <4>2
      <4>5. TurnsSoFar(outcomes, opened + 1) = {}
        BY <2>1 DEF NumberedInv, TurnsSoFar, TurnsUpTo
      <4> QED
        BY <1>1, <1>2, <2>4, <4>1, <4>2, <4>3, <4>4, <4>5
        DEF Settles, TurnOps, TurnsAfter, TurnsSoFar, TurnsUpTo, IsTurn
    <3>3. CASE WorkerDecides
      <4>1. /\ call.asking \in TurnOps /\ call.op = call.asking
            /\ workers' = [workers EXCEPT ![call.arg.session] = @ + 1]
            /\ serving'.body = <<call.op, call.arg.session, call.arg.turn>>
        BY <2>3, <2>4, <3>3 DEF WorkerDecides, Serves, Execute, Reply, TurnOps
      <4>2. call.arg.turn = turns[call.arg.session]
        BY <2>1, <2>2, <4>1 DEF AskedInv
      <4>3. workers' = TurnsAfter(call.op, call.arg, serving'.body)
        BY <2>2, <4>1, <4>2 DEF TurnsAfter, TurnOps
      <4> QED
        BY <1>1, <1>2, <4>1, <4>3 DEF Settles, TurnOps, TurnsAfter
    <3>4. CASE WorkerCloses
      <4>1. call.asking = "CLOSE" /\ call.op = "CLOSE" /\ workers' = Drop(workers, call.arg)
        BY <2>3, <2>4, <3>4 DEF WorkerCloses, Serves
      <4> QED
        BY <1>1, <1>2, <2>2, <4>1 DEF Settles, TurnOps, TurnsAfter, Drop
    <3>5. CASE WorkerShutsDown
      <4>1. call'.asking = "SHUTDOWN"
        BY <1>2, <2>3, <3>5 DEF WorkerShutsDown, Serves
      <4> QED
        BY <4>1 DEF Settles, TurnOps
    <3>6. CASE WorkerFails
      BY <2>7, <3>6 DEF WorkerFails, Execute, Reply
    <3> QED
      BY <3>1, <3>2, <3>3, <3>4, <3>5, <3>6 DEF Worker
  <2>8. ASSUME NEW reply \in Replied', reply.status = "ok" PROVE Settles(reply)'
    BY <2>6, <2>7, <2>8
  <2> QED
    BY <2>4, <2>5, <2>8 DEF AgreementInv
<1> QED
  BY <1>1, <1>2, <1>3, <1>4, CallGoesOn

\* A spoiled result is one that the endpoint refuses, or settles no more than
\* the right one.
LEMMA SpoilStep ==
  ASSUME NoneIsNoCall, ChannelInv, TurnsInv, SerialInv', Sound' => Sound, SpoilResult
  PROVE  TurnsInv'
<1>1. PICK body \in Spoiled : SpoilReply(body) /\ UNCHANGED sessionVars
  BY DEF SpoilResult
<1>2. /\ UNCHANGED <<stdin, sent, stdout, queue, counter, closed, call, outcomes>>
      /\ UNCHANGED <<turns, workers, opened>>
      /\ serving # None /\ serving.status = "ok"
  BY <1>1 DEF SpoilReply, Fault, clientVars, sessionVars
<1>3. serving'.body = body /\ serving'.op = serving.op
  <2>1. serving = Reply(serving.id, serving.op, serving.status, serving.body)
    BY <1>2 DEF TurnsInv, SerialInv, ServingShaped
  <2>2. serving' = [serving EXCEPT !.body = body]
    BY <1>1 DEF SpoilReply
  <2> QED
    BY <2>1, <2>2 DEF Reply
<1>4. AskedInv'
  BY <1>2, StillAsked DEF TurnsInv
<1>5. ASSUME Sound' PROVE AgreementInv'
  <2>1. AgreementInv /\ OneRequest /\ OneRequest' /\ CallShaped
    BY <1>5 DEF TurnsInv, SerialInv
  <2>2. /\ Awaiting /\ call # None /\ stdin = <<>> /\ serving \in Replied
        /\ serving.op = call.asking
    BY <1>2, <2>1 DEF OneRequest, Awaiting, Replied
  <2>3. Settles(serving)
    BY <1>2, <2>1, <2>2 DEF AgreementInv
  <2>4. Awaiting'
    BY <1>2, <2>2 DEF Awaiting
  <2>5. \A reply \in Replied' : reply = serving'
    <3>1. Fresh = {} /\ Fresh' = Fresh
      BY <1>2, <2>1 DEF OneRequest, Fresh, IsFresh, Written
    <3> QED
      BY <3>1 DEF Replied
  <2>6. Settles(serving)'
    <3>1. ASSUME call.asking = "HELLO" PROVE workers = turns
      BY <2>3, <3>1 DEF Settles
    <3>2. ASSUME call.asking \in TurnOps
          PROVE  /\ workers = TurnsAfter(call.op, call.arg, body)
                 /\ body # Malformed /\ Accepted(call.op, call.arg, body) =>
                       body = <<call.op, call.arg.session, call.arg.turn>>
      <4>1. call.op \in TurnOps /\ call.op = call.asking
        BY <2>1, <2>2, <3>2 DEF CallShaped, TurnOps
      <4>2. workers = TurnsAfter(call.op, call.arg, body)
        BY <2>3, <3>2, <4>1 DEF Settles, TurnsAfter, TurnOps
      <4>3. body = Malformed \/ \E s, n : body = <<call.op, s, n>>
        BY <1>1, <2>2, <4>1 DEF Spoiled, TurnOps
      <4>4. ASSUME NEW s, NEW n, body = <<call.op, s, n>>, Accepted(call.op, call.arg, body)
            PROVE  s = call.arg.session /\ n = call.arg.turn
        BY <4>1, <4>4 DEF Accepted, TurnOps
      <4> QED
        BY <4>2, <4>3, <4>4
    <3>3. ASSUME call.asking = "START", body # Malformed
          PROVE  ~Accepted(call.op, call.arg, body)
      <4>1. call.op = "START" /\ \E s \in DOMAIN turns : body[2] = s
        BY <1>1, <2>1, <2>2, <3>3 DEF CallShaped, Spoiled
      <4> QED
        BY <4>1 DEF Accepted, TurnOps
    <3>4. ASSUME call.asking \in {"CLOSE", "PING"} PROVE body = Malformed
      BY <1>1, <2>2, <3>4 DEF Spoiled, TurnOps
    <3> QED
      BY <1>2, <1>3, <3>1, <3>2, <3>3, <3>4 DEF Settles, TurnsAfter, Accepted, TurnOps
  <2> QED
    BY <1>2, <2>2, <2>4, <2>5, <2>6 DEF AgreementInv
<1> QED
  BY <1>2, <1>4, <1>5, CallGoesOn

\* The endpoint accepts the answer: it knows what the worker knows, and the
\* answer of a turn is the next of its session.
LEMMA AcceptedStep ==
  ASSUME NoneIsNoCall, ChannelInv, TurnsInv, SerialInv', Sound' => Sound, ResultTaken
  PROVE  TurnsInv'
<1> DEFINE reply == Head(queue)
           o == Outcome(call.op, call.arg, "ok", reply.body)
<1>1. /\ Status("ok") /\ call.asking = call.op /\ reply.status = "ok" /\ call # None
      /\ turns' = TurnsAfter(call.op, call.arg, reply.body)
      /\ UNCHANGED <<workers, opened, stdin>>
      /\ reply.body # Malformed /\ Accepted(call.op, call.arg, reply.body)
  BY DEF ResultTaken, Answered, Status, Arrived, ResultAccepted, Receive, childVars
<1>2. Sound
  <2>1. Arrived
    BY <1>1 DEF Status
  <2>2. ~closed /\ ~HasFailed
    BY <2>1, DeadSilence DEF ChannelInv, Dead
  <2> QED
    BY <2>2 DEF Sound, HasFailed
<1>3. /\ AgreementInv /\ CountInv /\ NumberedInv /\ InOrder(outcomes) /\ AskedInv
      /\ opened \in Nat /\ OneRequest /\ IsSeq(outcomes)
  BY <1>2 DEF TurnsInv, SerialInv, ChannelInv
<1>4. Awaiting /\ Settles(reply)
  BY <1>1, <1>3, TakenIsFresh DEF AgreementInv
<1>5. /\ outcomes' = IF call.op = "SHUTDOWN"
                       THEN Append(outcomes, Unanswered("shutdown"))
                       ELSE Append(outcomes, o)
      /\ call' = None
      /\ call.op = "SHUTDOWN" => ~Sound'
  BY DEF ResultTaken, Answered, CloseDown, EndCall, Sound
<1>6. AskedInv' /\ ~Awaiting'
  BY <1>5 DEF AskedInv, Awaiting
<1>7. IsTurn(o) <=> call.op \in TurnOps
  BY DEF IsTurn, Outcome
<1>8. o.op = call.op /\ o.arg = call.arg /\ o.body = reply.body
  BY DEF Outcome
<1> HIDE DEF reply, o
<1>9. ASSUME call.op \notin TurnOps
      PROVE  NoTurnAdded
  BY <1>5, <1>7, <1>9 DEF NoTurnAdded, IsTurn, Unanswered, Outcome
<1>10. ASSUME call.op \notin TurnOps
       PROVE  /\ InOrder(outcomes')
              /\ \A s : TurnsSoFar(outcomes', s) = TurnsSoFar(outcomes, s)
              /\ \A i \in DOMAIN outcomes' : IsTurn(outcomes'[i]) =>
                     outcomes'[i].arg.session \in 1 .. opened
  BY <1>3, <1>9, <1>10, NothingCounted DEF NumberedInv
<1>11. CASE call.op = "SHUTDOWN"
  <2>1. InOrder(outcomes)'
    BY <1>10, <1>11 DEF TurnOps, InOrder, IsTurn, TurnsUpTo
  <2> QED
    BY <1>1, <1>3, <1>5, <1>6, <1>11, <2>1 DEF TurnsInv
<1>12. CASE call.op = "PING"
  <2>1. turns' = turns /\ workers = turns
    BY <1>1, <1>4, <1>12 DEF Settles, TurnsAfter, TurnOps
  <2> QED
    BY <1>1, <1>6, <1>9, <1>12, <2>1, NothingAwaited DEF TurnOps
<1>13. CASE call.op = "START"
  <2>1. /\ turns' = FirstTurn(turns, reply.body[2]) /\ workers' = turns'
        /\ reply.body[2] \notin DOMAIN turns /\ reply.body[2] \in 1 .. opened
        /\ TurnsSoFar(outcomes, reply.body[2]) = {}
    BY <1>1, <1>4, <1>13 DEF Settles, TurnsAfter, Accepted, TurnOps
  <2>2. CountInv'
    <3>1. ASSUME NEW s \in DOMAIN turns'
          PROVE  turns'[s] = Cardinality(TurnsSoFar(outcomes', s)) + 1
      <4>1. TurnsSoFar(outcomes', s) = TurnsSoFar(outcomes, s)
        BY <1>10, <1>13 DEF TurnOps
      <4>2. CASE s = reply.body[2]
        BY <2>1, <4>1, <4>2, FS_EmptySet DEF FirstTurn
      <4>3. CASE s # reply.body[2]
        BY <1>3, <2>1, <4>1, <4>3 DEF FirstTurn, CountInv
      <4> QED
        BY <4>2, <4>3
    <3> QED
      BY <3>1 DEF CountInv, TurnsSoFar, TurnsUpTo, IsTurn
  <2>3. NumberedInv'
    <3>1. DOMAIN turns' \subseteq 1 .. opened
      BY <1>3, <2>1 DEF FirstTurn, NumberedInv
    <3> QED
      BY <1>1, <1>10, <1>13, <3>1 DEF NumberedInv, TurnOps, IsTurn
  <2>4. InOrder(outcomes)'
    BY <1>10, <1>13 DEF TurnOps, InOrder, IsTurn, TurnsUpTo
  <2> QED
    BY <1>1, <1>3, <1>6, <2>1, <2>2, <2>3, <2>4 DEF TurnsInv, AgreementInv
<1>14. CASE call.op = "CLOSE"
  <2>1. turns' = Drop(turns, call.arg) /\ workers' = turns'
    BY <1>1, <1>4, <1>14 DEF Settles, TurnsAfter, TurnOps
  <2>2. CountInv'
    <3>1. ASSUME NEW s \in DOMAIN turns'
          PROVE  turns'[s] = Cardinality(TurnsSoFar(outcomes', s)) + 1
      BY <1>3, <1>10, <1>14, <2>1 DEF Drop, CountInv, TurnOps
    <3> QED
      BY <3>1 DEF CountInv, TurnsSoFar, TurnsUpTo, IsTurn
  <2>3. NumberedInv'
    <3>1. DOMAIN turns' \subseteq 1 .. opened
      BY <1>3, <2>1 DEF Drop, NumberedInv
    <3> QED
      BY <1>1, <1>10, <1>14, <3>1 DEF NumberedInv, TurnOps, IsTurn
  <2>4. InOrder(outcomes)'
    BY <1>10, <1>14 DEF TurnOps, InOrder, IsTurn, TurnsUpTo
  <2> QED
    BY <1>1, <1>3, <1>6, <2>1, <2>2, <2>3, <2>4 DEF TurnsInv, AgreementInv
<1>15. CASE call.op \in TurnOps
  <2> DEFINE due == call.arg.session
  <2>1. /\ due \in DOMAIN turns /\ call.arg.turn = turns[due]
        /\ turns[due] = Cardinality(TurnsSoFar(outcomes, due)) + 1
    BY <1>1, <1>3, <1>15 DEF AskedInv, CountInv
  <2>2. /\ turns' = [turns EXCEPT ![due] = call.arg.turn + 1] /\ workers' = turns'
        /\ reply.body = <<call.op, due, call.arg.turn>>
    BY <1>1, <1>4, <1>15 DEF Settles, TurnsAfter, TurnOps
  <2>3. outcomes' = Append(outcomes, o) /\ IsTurn(o) /\ o.arg.session = due
    BY <1>5, <1>7, <1>8, <1>15 DEF TurnOps
  <2>4. /\ InOrder(outcomes')
        /\ Cardinality(TurnsSoFar(outcomes', due)) = Cardinality(TurnsSoFar(outcomes, due)) + 1
        /\ \A s : s # due => TurnsSoFar(outcomes', s) = TurnsSoFar(outcomes, s)
    BY <1>3, <1>8, <2>1, <2>2, <2>3, DueTurn
  <2>5. CountInv'
    <3>1. ASSUME NEW s \in DOMAIN turns'
          PROVE  turns'[s] = Cardinality(TurnsSoFar(outcomes', s)) + 1
      BY <1>3, <2>1, <2>2, <2>4 DEF CountInv
    <3> QED
      BY <3>1 DEF CountInv, TurnsSoFar, TurnsUpTo, IsTurn
  <2>6. NumberedInv'
    <3>1. /\ DOMAIN outcomes' = 1 .. (Len(outcomes) + 1) /\ DOMAIN outcomes = 1 .. Len(outcomes)
          /\ Len(outcomes) \in Nat /\ outcomes'[Len(outcomes) + 1] = o
          /\ \A i \in 1 .. Len(outcomes) : outcomes'[i] = outcomes[i]
      BY <1>3, <2>3, Appended
    <3>2. ASSUME NEW i \in DOMAIN outcomes', IsTurn(outcomes'[i])
          PROVE  outcomes'[i].arg.session \in 1 .. opened
      <4>1. CASE i = Len(outcomes) + 1
        BY <1>3, <2>1, <2>3, <3>1, <4>1 DEF NumberedInv
      <4>2. CASE i # Len(outcomes) + 1
        BY <1>3, <3>1, <3>2, <4>2 DEF NumberedInv
      <4> QED
        BY <4>1, <4>2
    <3>3. DOMAIN turns' \subseteq 1 .. opened
      BY <1>3, <2>2 DEF NumberedInv
    <3> QED
      BY <1>1, <3>2, <3>3 DEF NumberedInv, IsTurn
  <2>7. InOrder(outcomes)'
    BY <2>4 DEF InOrder, IsTurn, TurnsUpTo
  <2> QED
    BY <1>1, <1>3, <1>6, <2>2, <2>5, <2>6, <2>7 DEF TurnsInv, AgreementInv
<1> QED
  BY <1>1, <1>3, <1>11, <1>12, <1>13, <1>14, <1>15 DEF AskedInv

\* Between them the two ends keep the invariant.
LEMMA TurnsStep ==
  ASSUME NoneIsNoCall, ChannelInv, TurnsInv, [EndpointNext]_endpointVars
  PROVE  TurnsInv'
<1>1. CASE UNCHANGED endpointVars
  <2>1. UNCHANGED <<turns, workers, opened, outcomes, call, stdin, serving, sent, stdout,
                    queue, counter, closed>>
    BY <1>1 DEF endpointVars, channelVars, sessionVars, childVars, readerVars, clientVars
  <2>2. SerialInv'
    BY <1>1, SerialStep DEF endpointVars, TurnsInv
  <2>3. AskedInv' /\ (Sound' => Sound)
    BY <2>1 DEF AskedInv, Sound, TurnsInv
  <2>4. Sound => AgreementInv
    BY DEF TurnsInv
  <2>5. ASSUME NEW r, Settles(r) PROVE Settles(r)'
    BY <2>1, <2>5, StillSettles
  <2>6. Awaiting' = Awaiting /\ Replied' = Replied
    BY <2>1 DEF Awaiting, Replied, Fresh, IsFresh, Written
  <2>7. Sound' => AgreementInv'
    BY <2>1, <2>3, <2>4, <2>5, <2>6 DEF AgreementInv
  <2> QED
    BY <2>1, <2>2, <2>3, <2>7, CallGoesOn
<1>2. CASE EndpointNext
  <2>1. SerialInv'
    BY <1>2, EndpointStep, SerialStep DEF TurnsInv
  <2>2. Sound' => Sound
    <3>1. CASE ChannelNext
      BY <3>1, SoundBefore
    <3>2. CASE UNCHANGED channelVars
      BY <3>2 DEF channelVars, clientVars, Sound
    <3> QED
      BY <1>2, <3>1, <3>2, EndpointStep
  <2> QED
    BY <1>2, <2>1, <2>2, EndpointBegins, EndpointProceeds, EndpointUnanswered, AcceptedStep,
       WorkerStep, SpoilStep, EndpointQuiet DEF EndpointNext, Controller
<1> QED
  BY <1>1, <1>2

\* Before the first call nothing is known on either end.
LEMMA TurnsStart == EndpointInit => TurnsInv
<1> SUFFICES ASSUME EndpointInit PROVE TurnsInv
  OBVIOUS
<1>1. SerialInv
  BY SerialStarts DEF EndpointInit
<1>2. /\ turns = <<>> /\ workers = <<>> /\ opened = 0 /\ call = None
      /\ DOMAIN turns = {} /\ DOMAIN outcomes = {}
  BY DEF EndpointInit, ChannelInit
<1> QED
  BY <1>1, <1>2 DEF TurnsInv, AskedInv, InOrder, AgreementInv, Awaiting, CountInv, NumberedInv

(* The two ends of a channel number the turns of a session for themselves,  *)
(* and the replies of earlier requests may come late or twice: still the    *)
(* answers a controller gets in a session are those of its turns 1, 2, 3,   *)
(* ... and between calls both ends know the same sessions at the same turns. *)
THEOREM TurnsAgree ==
  ASSUME NoneIsNoCall
  PROVE  EndpointSpec => []TurnsInOrder
<1>1. EndpointInit => ChannelInv /\ TurnsInv
  BY ChannelStarts, TurnsStart DEF EndpointInit
<1>2. ChannelInv /\ TurnsInv /\ [EndpointNext]_endpointVars => (ChannelInv /\ TurnsInv)'
  BY EndpointStep, ChannelStep, TurnsStep DEF endpointVars
<1>3. TurnsInv => TurnsInOrder
  <2>1. AtRest => Sound /\ ~Awaiting
    BY DEF AtRest, Unbroken, Sound, Awaiting
  <2> QED
    BY <2>1 DEF TurnsInv, AgreementInv, TurnsInOrder
<1> QED
  BY <1>1, <1>2, <1>3, PTL DEF EndpointSpec
================================================================================
