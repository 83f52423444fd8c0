---------------------------- MODULE ExternalAgent ----------------------------
(***************************************************************************)
(* ExternalAgentEndpoint (gym/external_agent.py) over a TCP connection to  *)
(* an agent service it did not start, and the service's handler with the   *)
(* worker it makes for the connection (gym/agent_socket_server.py).  The   *)
(* endpoint reads an answer byte by byte, each byte with a timeout of its  *)
(* own, and never connects twice: whatever goes wrong on the connection    *)
(* poisons the endpoint for good.                                          *)
(*                                                                         *)
(* The controller is one thread.  The service is the reference server,     *)
(* which may drop the connection or stall at any moment and, MaxFaults     *)
(* times, answer what no reference worker would.                           *)
(***************************************************************************)
EXTENDS Naturals, SequencesExt

CONSTANTS
    None,
    Malformed,     \* a result that no method accepts, or no envelope at all
    Tasks,         \* task views a session is opened with
    MaxMessage,    \* max_message_bytes, in pieces of a line
    MaxCalls,      \* bound: calls the controller makes
    MaxSessions,   \* bound: session numbers a faulty service may name
    MaxFaults      \* bound: answers that are not the worker's

ASSUME BoundsAssumption ==
    MaxMessage \in Nat \ {0} /\ MaxCalls \in Nat /\ MaxSessions \in Nat /\ MaxFaults \in Nat

VARIABLES
    socket,        \* _socket: "none" or "open"
    handshake, closed, poisoned,
    counter,       \* _request_counter
    turns,         \* _turns: the next turn of each open session
    call,          \* the call under way, None between calls
    got,           \* pieces of the answer read so far
    outcomes,      \* how each call ended
    handler,       \* the connection's handler: "none", "serving" or "gone"
    request,       \* the line on its way to the service
    reply,         \* the line the handler writes: the pieces left of it, and
                   \* whether the next one has arrived
    workers,       \* _sessions of the connection's worker
    opened,        \* _counter of the worker
    faults

client == <<socket, handshake, closed, poisoned, counter, turns, call, got, outcomes>>
service == <<handler, request, reply, workers, opened, faults>>
vars == <<client, service>>

TurnOps == {"DECIDE", "GENERATE"}
Greeting == <<"greeting">>
Opened(f, s) == [x \in DOMAIN f \cup {s} |-> IF x = s THEN 1 ELSE f[x]]
Drop(f, s) == [x \in DOMAIN f \ {s} |-> f[x]]

Init ==
    /\ socket = "none" /\ handshake = FALSE /\ closed = FALSE /\ poisoned = FALSE
    /\ counter = 0 /\ turns = <<>>
    /\ call = None /\ got = 0 /\ outcomes = <<>>
    /\ handler = "none" /\ request = None /\ reply = None
    /\ workers = <<>> /\ opened = 0 /\ faults = 0

-----------------------------------------------------------------------------
(* The end of a call *)

EndCall(result, body) ==
    /\ call' = None
    /\ got' = 0
    /\ outcomes' = Append(outcomes, [op |-> call.asking, arg |-> call.arg,
                                     result |-> result, body |-> body])

\* _poison.  Faulty: only the connection is dropped.
PoisonUnmarked ==
    /\ socket' = "none"
    /\ handshake' = FALSE
    /\ turns' = <<>>
    /\ UNCHANGED poisoned

Poison ==
    /\ poisoned' = TRUE
    /\ socket' = "none"
    /\ handshake' = FALSE
    /\ turns' = <<>>

Fails ==
    /\ Poison
    /\ EndCall("failed", None)
    /\ UNCHANGED <<closed, counter, service>>

-----------------------------------------------------------------------------
(* The beginning of a call *)

MayCall == call = None /\ Len(outcomes) < MaxCalls

Asked(op, arg) == [asking |-> op, arg |-> arg, op |-> op, id |-> 0, stage |-> "connect"]

Begin(op, arg) ==
    /\ MayCall
    /\ call' = Asked(op, arg)
    /\ UNCHANGED <<socket, handshake, closed, poisoned, counter, turns, got, outcomes, service>>

BeginStart == \E task \in Tasks : Begin("START", task)

BeginTurn ==
    \E op \in TurnOps, s \in DOMAIN turns : Begin(op, [session |-> s, turn |-> turns[s]])

BeginClose == \E s \in DOMAIN turns : Begin("CLOSE", s)

\* connected_peer needs the connection and no more; the others ask for something.
BeginOther == \E op \in {"PING", "PEER"} : Begin(op, None)

\* decide and generate of an unknown session raise, close returns: nothing is
\* asked, whatever the state of the endpoint.
CallsUnknown ==
    /\ MayCall
    /\ outcomes' = Append(outcomes, [op |-> None, arg |-> None, result |-> "refused", body |-> None])
    /\ UNCHANGED <<socket, handshake, closed, poisoned, counter, turns, call, got, service>>

\* disconnect never asks the service to shut down.
Disconnect ==
    /\ MayCall
    /\ outcomes' = Append(outcomes, [op |-> None, arg |-> None, result |-> "bye", body |-> None])
    /\ socket' = "none"
    /\ handshake' = FALSE
    /\ closed' = TRUE
    /\ turns' = <<>>
    /\ UNCHANGED <<poisoned, counter, call, got, service>>

-----------------------------------------------------------------------------
(* _ensure_connected and _handshake *)

Connecting == call # None /\ call.stage = "connect"

\* A closed or poisoned endpoint never connects again.
Unavailable ==
    /\ Connecting
    /\ closed \/ poisoned
    /\ EndCall("failed", None)
    /\ UNCHANGED <<socket, handshake, closed, poisoned, counter, turns, service>>

\* Refused, or timed out.
ConnectFails ==
    /\ Connecting
    /\ ~closed /\ ~poisoned /\ socket = "none"
    /\ Fails

\* The connection has a handler and a worker of its own.
Connect ==
    /\ Connecting
    /\ ~closed /\ ~poisoned /\ socket = "none"
    /\ socket' = "open"
    /\ handler' = "serving"
    /\ request' = None /\ reply' = None /\ workers' = <<>> /\ opened' = 0
    /\ call' = [call EXCEPT !.op = "HELLO", !.stage = "send"]
    /\ UNCHANGED <<handshake, closed, poisoned, counter, turns, got, outcomes, faults>>

\* connected_peer asks the socket, which does not know a peer that has reset the
\* connection: an OSError, and the endpoint is as it was.
Connected ==
    /\ Connecting
    /\ ~closed /\ ~poisoned /\ socket = "open" /\ handshake
    /\ IF call.asking = "PEER"
       THEN EndCall("ok", None) \/ (handler # "serving" /\ EndCall("refused", None))
       ELSE call' = [call EXCEPT !.stage = "send"] /\ UNCHANGED <<got, outcomes>>
    /\ UNCHANGED <<socket, handshake, closed, poisoned, counter, turns, service>>

-----------------------------------------------------------------------------
(* _request *)

Sending == call # None /\ call.stage = "send"

\* encode_message raises after the counter moved: the connection is as it was.
FrameTooLong ==
    /\ Sending
    /\ call.op \in TurnOps \cup {"START"}
    /\ counter' = counter + 1
    /\ EndCall("refused", None)
    /\ UNCHANGED <<socket, handshake, closed, poisoned, turns, service>>

Send ==
    /\ Sending
    /\ counter' = counter + 1
    /\ call' = [call EXCEPT !.id = counter + 1, !.stage = "wait"]
    /\ request' = IF handler = "serving"
                  THEN [id |-> counter + 1, op |-> call.op, arg |-> call.arg] ELSE None
    /\ UNCHANGED <<socket, handshake, closed, poisoned, turns, got, outcomes, handler, reply,
                   workers, opened, faults>>

SendFails == Sending /\ Fails

Waiting == call # None /\ call.stage = "wait"

\* recv(1) has waited for request_timeout.  Faulty: it waits only for the first piece.
TimesOutAtFirst == Waiting /\ got = 0 /\ Fails

TimesOut == Waiting /\ Fails

ConnectionLost ==
    /\ Waiting
    /\ handler = "gone"
    /\ reply # None => ~reply.here
    /\ Fails

\* One more piece of the line, which is not its last.
ReadPiece ==
    /\ Waiting
    /\ reply # None /\ reply.here /\ reply.left > 1
    /\ got <= MaxMessage
    /\ got' = got + 1
    /\ reply' = [reply EXCEPT !.left = @ - 1, !.here = FALSE]
    /\ UNCHANGED <<socket, handshake, closed, poisoned, counter, turns, call, outcomes,
                   handler, request, workers, opened, faults>>

Oversized ==
    /\ Waiting
    /\ got > MaxMessage
    /\ Fails

\* The last piece is there, and the line is not too long to be decoded.
Line == Waiting /\ reply # None /\ reply.here /\ reply.left = 1 /\ got < MaxMessage

Taken == reply' = None /\ UNCHANGED <<handler, request, workers, opened, faults>>

\* Faulty: the turn in the answer is not compared.
AcceptedAnyTurn(op, arg, body) ==
    CASE op = "HELLO"   -> body = Greeting
      [] op = "START"   -> body[2] \notin DOMAIN turns /\ body[3] = arg
      [] op \in TurnOps -> body[2] = arg.session
      [] OTHER          -> body[2] = arg

\* What _handshake, start, decide, generate, close and ping require of a result.
Accepted(op, arg, body) ==
    CASE op = "HELLO"   -> body = Greeting
      [] op = "START"   -> body[2] \notin DOMAIN turns /\ body[3] = arg
      [] op \in TurnOps -> body[2] = arg.session /\ body[3] = arg.turn
      [] OTHER          -> body[2] = arg

ResultAccepted ==
    /\ reply.id = call.id
    /\ reply.ok
    /\ reply.body # Malformed
    /\ Accepted(call.op, call.arg, reply.body)

TurnsAfter(op, arg, body) ==
    CASE op = "START"   -> Opened(turns, body[2])
      [] op \in TurnOps -> [turns EXCEPT ![arg.session] = arg.turn + 1]
      [] op = "CLOSE"   -> Drop(turns, arg)
      [] OTHER          -> turns

\* The handshake is followed by what was asked for.
Greeted ==
    /\ Line
    /\ call.op = "HELLO"
    /\ ResultAccepted
    /\ handshake' = TRUE
    /\ call' = [call EXCEPT !.op = call.asking, !.stage = "connect"]
    /\ got' = 0
    /\ Taken
    /\ UNCHANGED <<socket, closed, poisoned, counter, turns, outcomes>>

Answered ==
    /\ Line
    /\ call.op # "HELLO"
    /\ ResultAccepted
    /\ turns' = TurnsAfter(call.op, call.arg, reply.body)
    /\ EndCall("ok", reply.body)
    /\ Taken
    /\ UNCHANGED <<socket, handshake, closed, poisoned, counter>>

\* An error reply, another request's reply, or one that is not accepted.
AnswerRejected ==
    /\ Line
    /\ ~ResultAccepted
    /\ Poison
    /\ EndCall("failed", None)
    /\ Taken
    /\ UNCHANGED <<closed, counter>>

-----------------------------------------------------------------------------
(* The service *)

\* A line of one piece or of two.
Replies(ok, body) ==
    /\ handler = "serving" /\ request # None /\ reply = None
    /\ request' = None
    /\ \E pieces \in {1, 2} :
        reply' = [id |-> request.id, ok |-> ok, body |-> body, left |-> pieces, here |-> FALSE]
    /\ UNCHANGED <<client, handler, faults>>

\* The next piece of the line arrives, sooner or later or never.
PieceArrives ==
    /\ handler = "serving" /\ reply # None /\ ~reply.here
    /\ reply' = [reply EXCEPT !.here = TRUE]
    /\ UNCHANGED <<client, handler, request, workers, opened, faults>>

Asks(ops) == request # None /\ request.op \in ops

WorkerAnswers ==
    /\ Asks({"HELLO", "PING"})
    /\ Replies(TRUE, IF request.op = "HELLO" THEN Greeting ELSE <<"pong", None>>)
    /\ UNCHANGED <<workers, opened>>

WorkerStarts ==
    /\ Asks({"START"})
    /\ Replies(TRUE, <<"session", opened + 1, request.arg>>)
    /\ opened' = opened + 1
    /\ workers' = Opened(workers, opened + 1)

WorkerDecides ==
    /\ Asks(TurnOps)
    /\ LET arg == request.arg IN
        /\ arg.session \in DOMAIN workers /\ workers[arg.session] = arg.turn
        /\ Replies(TRUE, <<request.op, arg.session, arg.turn>>)
        /\ workers' = [workers EXCEPT ![arg.session] = @ + 1]
    /\ UNCHANGED opened

WorkerCloses ==
    /\ Asks({"CLOSE"})
    /\ request.arg \in DOMAIN workers
    /\ Replies(TRUE, <<"closed", request.arg>>)
    /\ workers' = Drop(workers, request.arg)
    /\ UNCHANGED opened

\* The worker refuses, or its policy or generator raises.
WorkerFails ==
    /\ Asks(TurnOps \cup {"CLOSE"})
    /\ Asks({"CLOSE"}) => request.arg \notin DOMAIN workers
    /\ Replies(FALSE, None)
    /\ UNCHANGED <<workers, opened>>

\* The endpoint has closed its end, or the service drops the connection: the
\* handler returns and its worker, which no other connection has, is gone.
HandlerReturns ==
    /\ handler = "serving"
    /\ handler' = "gone"
    /\ request' = None
    /\ workers' = <<>>
    /\ opened' = 0
    /\ UNCHANGED <<client, reply, faults>>

\* Results in the place of the right one: another session, another turn, a
\* session in use, another request's reply, a line without an end.
Spoiled ==
    {[reply EXCEPT !.body = Malformed], [reply EXCEPT !.id = @ - 1],
     [reply EXCEPT !.left = MaxMessage + 2]}
    \cup {[reply EXCEPT !.body = <<@[1], s, @[3]>>] :
            s \in {n \in 1 .. MaxSessions : Len(reply.body) = 3}}
    \cup {[reply EXCEPT !.body = <<@[1], @[2], n>>] :
            n \in {n \in 1 .. MaxCalls : reply.body[1] \in TurnOps}}

Spoil ==
    /\ faults < MaxFaults
    /\ reply # None /\ reply.ok /\ ~reply.here /\ got = 0
    /\ reply.body # Malformed
    /\ reply' \in Spoiled \ {reply}
    /\ faults' = faults + 1
    /\ UNCHANGED <<client, handler, request, workers, opened>>

-----------------------------------------------------------------------------
\* What the controller's thread does within a call.
Controller ==
    \/ Unavailable \/ ConnectFails \/ Connect \/ Connected
    \/ FrameTooLong \/ Send \/ SendFails
    \/ TimesOut \/ ConnectionLost \/ ReadPiece \/ Oversized
    \/ Greeted \/ Answered \/ AnswerRejected

Service ==
    \/ WorkerAnswers \/ WorkerStarts \/ WorkerDecides \/ WorkerCloses \/ WorkerFails
    \/ PieceArrives \/ HandlerReturns \/ Spoil

Next ==
    \/ BeginStart \/ BeginTurn \/ BeginClose \/ BeginOther
    \/ CallsUnknown \/ Disconnect
    \/ Controller
    \/ Service

Spec == Init /\ [][Next]_vars

\* The controller's thread runs, and a timeout that is due fires; nothing is
\* assumed of the service.
FairSpec == Spec /\ WF_vars(Controller)

-----------------------------------------------------------------------------
(* Properties *)

\* A call that was answered with a turn, and, in a history of outcomes, those
\* of session s up to the i-th.
IsTurn(outcome) == outcome.op \in TurnOps /\ outcome.result = "ok"
TurnsUpTo(history, i, s) ==
    {j \in 1 .. i : IsTurn(history[j]) /\ history[j].arg.session = s}

\* The answer to the n-th turn of a session is that turn's.
InOrder(history) ==
    \A i \in DOMAIN history : IsTurn(history[i]) =>
        LET s == history[i].arg.session
        IN  history[i].body = <<history[i].op, s, Cardinality(TurnsUpTo(history, i, s))>>

(* The answers a controller gets in one session are those of its turns 1,  *)
(* 2, 3, ...: none repeated, skipped, late or of another session, whatever *)
(* the service answers and whenever; and between calls, while the          *)
(* connection stands and nothing was spoiled, both ends know the same      *)
(* sessions at the same turns, also after a frame that was too long to     *)
(* send, the one failure that poisons nothing.                             *)
TurnsInOrder ==
    /\ call = None /\ socket = "open" /\ handler = "serving" /\ faults = 0 => turns = workers
    /\ InOrder(outcomes)

(* Once a call has failed, no later call is answered: a connection whose   *)
(* state is in doubt is never used again, nor is another one made.         *)
FailStop ==
    \A i, j \in DOMAIN outcomes :
        i < j /\ outcomes[i].result \in {"failed", "bye"} => outcomes[j].result # "ok"

(* Every call ends: an answer that trickles in restarts the timeout with   *)
(* every piece, but only until the line is longer than a message may be.   *)
CallsEnd == (call # None) ~> (call = None)

-----------------------------------------------------------------------------
(* The inductive invariant behind FailStop. *)

Ended == {i \in DOMAIN outcomes : outcomes[i].result \in {"failed", "bye"}}

FailStopInv ==
    /\ outcomes \in Seq(ToSet(outcomes))
    /\ closed \in BOOLEAN /\ poisoned \in BOOLEAN
    /\ Ended # {} => closed \/ poisoned
    /\ closed \/ poisoned => call = None \/ call.stage = "connect"
    /\ FailStop

-----------------------------------------------------------------------------
(* The inductive invariant behind TurnsInOrder. *)

TurnsSoFar(history, s) == TurnsUpTo(history, Len(history), s)

Usable == ~closed /\ ~poisoned

\* The worker has acted, and its answer is on the way.
Told == reply # None /\ reply.ok

\* None is neither a call nor an answer.
NoneIsNoRecord ==
    /\ \A asking, arg, op, id, stage :
          [asking |-> asking, arg |-> arg, op |-> op, id |-> id, stage |-> stage] # None
    /\ \A id, ok, body, left, here :
          [id |-> id, ok |-> ok, body |-> body, left |-> left, here |-> here] # None

\* What is asked is about a session the endpoint knows, at the turn it knows.
AskedInv ==
    call # None =>
        /\ call = [asking |-> call.asking, arg |-> call.arg, op |-> call.op,
                   id |-> call.id, stage |-> call.stage]
        /\ call.op \in {"HELLO", call.asking}
        /\ call.asking \in {"START", "CLOSE", "PING", "PEER"} \cup TurnOps
        /\ call.asking \in TurnOps =>
              call.arg.session \in DOMAIN turns /\ call.arg.turn = turns[call.arg.session]

\* Request and answer belong to the call that waits; there is one of them.
LineInv ==
    /\ request # None \/ reply # None => Waiting
    /\ request # None =>
          /\ handler = "serving" /\ reply = None
          /\ request.op = call.op /\ request.arg = call.arg
    /\ reply # None =>
          reply = [id |-> reply.id, ok |-> reply.ok, body |-> reply.body,
                   left |-> reply.left, here |-> reply.here]
    /\ Sending \/ Waiting => socket = "open"

\* The answer to a turn, if it is accepted, is the next of its session.
DueInv ==
    Told /\ call.op \in TurnOps =>
        /\ reply.body # Malformed => reply.body = <<call.op, reply.body[2], reply.body[3]>>
        /\ call.arg.turn = Cardinality(TurnsSoFar(outcomes, call.arg.session)) + 1
        /\ handler = "serving" => call.arg.session \in DOMAIN workers

\* The worker counts the answers, the one on its way included.
CountInv ==
    \A s \in DOMAIN workers :
        workers[s] = Cardinality(TurnsSoFar(outcomes, s)) + 1
                        + (IF Told /\ call.op \in TurnOps /\ s = call.arg.session THEN 1 ELSE 0)

\* The worker does not use session numbers again.
NumberedInv ==
    handler = "serving" =>
        /\ DOMAIN workers \subseteq 1 .. opened
        /\ \A i \in DOMAIN outcomes : IsTurn(outcomes[i]) => outcomes[i].arg.session \in 1 .. opened

\* The endpoint knows what the worker knows, or will by the answer on its way.
AgreementInv ==
    handler = "serving" /\ faults = 0 =>
        /\ reply = None => workers = turns
        /\ Told => workers = TurnsAfter(call.op, call.arg, reply.body)

\* A usable endpoint without a connection has not had one.
UnconnectedInv == turns = <<>> /\ \A i \in DOMAIN outcomes : ~IsTurn(outcomes[i])

TurnsInv ==
    /\ AskedInv /\ InOrder(outcomes)
    /\ opened \in Nat /\ faults \in Nat
    /\ socket \in {"none", "open"}
    /\ socket = "open" => Usable
    /\ Usable => /\ LineInv
                 /\ IF socket = "none" THEN UnconnectedInv
                    ELSE DueInv /\ CountInv /\ NumberedInv /\ AgreementInv
=============================================================================
