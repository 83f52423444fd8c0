---------------------------- MODULE AgentChannel ----------------------------
(***************************************************************************)
(* SubprocessAgentEndpoint and the reference agent worker: sessions with   *)
(* turns over a LineChannel.  Each end numbers the turns of a session for  *)
(* itself: the worker when it has acted on a request, the endpoint when it *)
(* has the answer.                                                         *)
(*                                                                         *)
(* What the policy and the generator compute is left out: an answer is     *)
(* known by its session and its turn.                                      *)
(***************************************************************************)
EXTENDS LineChannel

VARIABLES
    turns,        \* _turns of the endpoint: the next turn of each open session
    workers,      \* _sessions of the worker: the same, by its own count
    opened        \* _counter of the worker

sessionVars == <<turns, workers, opened>>
endpointVars == <<channelVars, sessionVars>>

TurnOps == {"DECIDE", "GENERATE"}
FirstTurn(f, s) == [x \in DOMAIN f \cup {s} |-> IF x = s THEN 1 ELSE f[x]]

(***************************************************************************)
(* The worker.                                                             *)
(***************************************************************************)
Serves(ops) == stdin # <<>> /\ Head(stdin).op \in ops

\* HELLO and PING change nothing.
WorkerAnswers ==
    /\ Serves({"HELLO", "PING"})
    /\ Execute("ok", IF Head(stdin).op = "HELLO" THEN Greeting ELSE <<"pong">>)
    /\ UNCHANGED sessionVars

WorkerStarts ==
    /\ Serves({"START"})
    /\ Execute("ok", <<"session", opened + 1, Head(stdin).arg>>)
    /\ opened' = opened + 1
    /\ workers' = FirstTurn(workers, opened + 1)
    /\ UNCHANGED turns

\* _require_turn
TurnIsDue(session, turn) == session \in DOMAIN workers /\ turn = workers[session]

\* The worker's turn advances before the answer is on its way.
WorkerDecides ==
    /\ Serves(TurnOps)
    /\ LET arg == Head(stdin).arg
       IN  /\ TurnIsDue(arg.session, arg.turn)
           /\ Execute("ok", <<Head(stdin).op, arg.session, arg.turn>>)
           /\ workers' = [workers EXCEPT ![arg.session] = @ + 1]
    /\ UNCHANGED <<turns, opened>>

WorkerCloses ==
    /\ Serves({"CLOSE"})
    /\ Head(stdin).arg \in DOMAIN workers
    /\ Execute("ok", <<"closed", Head(stdin).arg>>)
    /\ workers' = Drop(workers, Head(stdin).arg)
    /\ UNCHANGED <<turns, opened>>

WorkerShutsDown ==
    /\ Serves({"SHUTDOWN"})
    /\ Execute("ok", <<"shutdown">>)
    /\ workers' = <<>>
    /\ UNCHANGED <<turns, opened>>

\* An unknown session, a turn that is not due, or the policy or the generator
\* raises: nothing has changed, and a turn that was due still is.
WorkerFails ==
    /\ Serves(TurnOps \cup {"CLOSE"})
    /\ Head(stdin).op = "CLOSE" => Head(stdin).arg \notin DOMAIN workers
    /\ Execute("error", None)
    /\ UNCHANGED sessionVars

Worker ==
    \/ WorkerAnswers \/ WorkerStarts \/ WorkerDecides \/ WorkerCloses \/ WorkerShutsDown
    \/ WorkerFails

\* Results a faulty worker may put in the place of the right one: another
\* session, another turn, a session that is in use.
Spoiled ==
    {Malformed}
        \cup IF serving.op = "START"
             THEN {<<"session", s, serving.body[3]>> : s \in DOMAIN turns}
             ELSE IF serving.op \in TurnOps
             THEN {<<serving.op, s, n>> : s \in Sessions, n \in 1..MaxCalls}
             ELSE {}

SpoilResult ==
    /\ serving # None /\ serving.status = "ok" /\ serving.body # Malformed
    /\ \E body \in Spoiled \ {serving.body} : SpoilReply(body)
    /\ UNCHANGED sessionVars

(***************************************************************************)
(* The endpoint.                                                           *)
(***************************************************************************)
BeginStart ==
    /\ \E task \in Tasks : Begin("START", task)
    /\ UNCHANGED sessionVars

\* The turn is read when the call begins.
BeginTurn ==
    /\ \E op \in TurnOps, s \in DOMAIN turns :
           Begin(op, [session |-> s, turn |-> turns[s]])
    /\ UNCHANGED sessionVars

BeginClose ==
    /\ \E s \in DOMAIN turns : Begin("CLOSE", s)
    /\ UNCHANGED sessionVars

BeginPing ==
    /\ Begin("PING", None)
    /\ UNCHANGED sessionVars

\* Also where no turn is known of the session, or the attempt is no number.
RequestUnmade ==
    /\ Refused \/ SpawnFails \/ Misused
    /\ UNCHANGED sessionVars

\* shutdown forgets the turns, however it ends.
TurnsLeft == IF call # None /\ call.op = "SHUTDOWN" THEN <<>> ELSE turns

EndpointShutdown ==
    \/ /\ BeginShutdown
       /\ UNCHANGED sessionVars
    \/ /\ ShutdownAtOnce
       /\ turns' = <<>>
       /\ UNCHANGED <<workers, opened>>

\* Only a task or observations make a frame too long.
RequestTooLong ==
    /\ FrameTooLong
    /\ call.asking \in TurnOps \cup {"START"}
    /\ UNCHANGED sessionVars

\* Or longer than the pipe.
WriteRequest ==
    /\ BeginWrite
    /\ call.asking \in TurnOps \cup {"START"}
    /\ UNCHANGED sessionVars

\* A variant: the turn in the answer is not compared.
AcceptedAnyTurn(op, arg, body) ==
    CASE op = "START"   -> body[2] \notin DOMAIN turns /\ body[3] = arg
      [] op \in TurnOps -> body[2] = arg.session
      [] op = "CLOSE"   -> body[2] = arg
      [] OTHER          -> TRUE

\* What start, decide, generate, close and ping require of a result.
Accepted(op, arg, body) ==
    CASE op = "START"   -> body[2] \notin DOMAIN turns /\ body[3] = arg
      [] op \in TurnOps -> body[2] = arg.session /\ body[3] = arg.turn
      [] op = "CLOSE"   -> body[2] = arg
      [] OTHER          -> TRUE

ResultAccepted ==
    /\ Head(queue).body # Malformed
    /\ Accepted(call.op, call.arg, Head(queue).body)

\* What the endpoint keeps of an accepted result.
TurnsAfter(op, arg, body) ==
    CASE op = "START"    -> FirstTurn(turns, body[2])
      [] op \in TurnOps  -> [turns EXCEPT ![arg.session] = arg.turn + 1]
      [] op = "CLOSE"    -> Drop(turns, arg)
      [] op = "SHUTDOWN" -> <<>>
      [] op = "PING"     -> turns

ResultTaken ==
    /\ Answered
    /\ ResultAccepted
    /\ turns' = TurnsAfter(call.op, call.arg, Head(queue).body)
    /\ UNCHANGED <<workers, opened>>

ResultRefused ==
    /\ TakeMalformed
    /\ IF call.asking = call.op THEN ~ResultAccepted ELSE Head(queue).body # Greeting
    /\ turns' = TurnsLeft
    /\ UNCHANGED <<workers, opened>>

\* A request that is not sent, is not answered in time, or is answered wrongly.
RequestFails ==
    /\ SendFails \/ TakeEof \/ TakeBroken \/ TimedOut
    /\ turns' = TurnsLeft
    /\ UNCHANGED <<workers, opened>>

RequestProceeds ==
    /\ Send \/ Greeted \/ Expire
    /\ UNCHANGED sessionVars

-----------------------------------------------------------------------------
EndpointInit ==
    /\ ChannelInit
    /\ turns = <<>> /\ workers = <<>> /\ opened = 0

\* What the controller's thread does within a call, of itself.
Controller ==
    \/ RequestProceeds \/ RequestTooLong \/ WriteRequest \/ RequestFails
    \/ ResultTaken \/ ResultRefused

EndpointNext ==
    \/ BeginStart \/ BeginTurn \/ BeginClose \/ BeginPing \/ EndpointShutdown
    \/ RequestUnmade
    \/ Controller
    \/ Worker \/ SpoilResult
    \/ (ChildMoves \/ ReaderMoves \/ FinishWrite) /\ UNCHANGED sessionVars

EndpointSpec == EndpointInit /\ [][EndpointNext]_endpointVars

-----------------------------------------------------------------------------
\* A call that was answered with a turn, and, in a history of outcomes, those
\* of session s up to the i-th.
IsTurn(outcome) == outcome.op \in TurnOps /\ outcome.result = "ok"
TurnsUpTo(history, i, s) ==
    {j \in 1 .. i : IsTurn(history[j]) /\ history[j].arg.session = s}

\* The answer to the n-th turn of a session is that turn's.
InOrder(history) ==
    \A i \in DOMAIN history : IsTurn(history[i]) =>
        LET s == history[i].arg.session
        IN  history[i].body = <<history[i].op, s, Cardinality(TurnsUpTo(history, i, s))>>

\* The answers a controller gets in one session are those of its turns 1, 2,
\* 3, ...: none repeated, skipped, or of another session; and between calls, as
\* long as none failed, both ends know the same sessions at the same turns,
\* although each counts for itself and at a different moment.
TurnsInOrder ==
    /\ AtRest => turns = workers
    /\ InOrder(outcomes)

-----------------------------------------------------------------------------
(* The inductive invariant behind TurnsInOrder. *)

TurnsSoFar(history, s) == TurnsUpTo(history, Len(history), s)

\* What the endpoint asks is about sessions it knows, at the turns it knows.
AskedInv ==
    call # None =>
        /\ call.op \in {"START", "CLOSE", "PING", "SHUTDOWN"} \cup TurnOps
        /\ call.op \in TurnOps =>
              call.arg.session \in DOMAIN turns /\ call.arg.turn = turns[call.arg.session]

\* The endpoint, if it accepts this reply, knows what the worker knows.
Settles(reply) ==
    LET accepted == reply.body # Malformed /\ Accepted(call.op, call.arg, reply.body)
        settled  == workers = TurnsAfter(call.op, call.arg, reply.body)
    IN  /\ call.asking = "HELLO" => workers = turns
        /\ call.asking \in TurnOps =>
              /\ settled
              /\ accepted => reply.body = <<call.op, call.arg.session, call.arg.turn>>
        /\ call.asking = "START" /\ accepted =>
              /\ settled
              /\ reply.body[2] \in 1 .. opened
              /\ TurnsSoFar(outcomes, reply.body[2]) = {}
        /\ call.asking \in {"CLOSE", "PING"} /\ accepted => settled

\* Both ends agree but for what a reply on its way will settle.
AgreementInv ==
    /\ ~Awaiting \/ stdin # <<>> => workers = turns
    /\ Awaiting => \A reply \in Replied : reply.status = "ok" => Settles(reply)

\* Turns are counted by their answers.
CountInv == \A s \in DOMAIN turns : turns[s] = Cardinality(TurnsSoFar(outcomes, s)) + 1

\* Session numbers are not used again.
NumberedInv ==
    /\ DOMAIN turns \subseteq 1 .. opened
    /\ \A i \in DOMAIN outcomes : IsTurn(outcomes[i]) => outcomes[i].arg.session \in 1 .. opened

TurnsInv ==
    /\ SerialInv /\ AskedInv /\ InOrder(outcomes)
    /\ opened \in Nat
    /\ Sound => AgreementInv /\ CountInv /\ NumberedInv

==============================================================================
