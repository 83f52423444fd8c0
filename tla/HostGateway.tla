----------------------------- MODULE HostGateway -----------------------------
(***************************************************************************)
(* SubprocessHostGateway and the reference private host server: the        *)
(* HostGateway operations over a LineChannel.  The server keeps a          *)
(* LocalReferenceHost, so that what a caller is told should be what a       *)
(* LocalReferenceHost in its own process would have told it.               *)
(*                                                                         *)
(* An environment is deterministic: what it answers to a step and what it  *)
(* says of its state are functions of the steps it took, and their number  *)
(* stands for both.                                                        *)
(***************************************************************************)
EXTENDS LineChannel

CONSTANT UnknownTask  \* a task that is not in the registry, or has another commitment

VARIABLE host     \* the server's LocalReferenceHost

vars == <<channelVars, host>>

\* Steps taken in each open session, and the number of sessions opened.
Host(open, count) == [open |-> open, count |-> count]
FreshHost == Host(<<>>, 0)

Actions == {"allowed", "forbidden"}

(***************************************************************************)
(* The server: what a request does to the host, and the reply.             *)
(***************************************************************************)
Effect(h, status, body) == [host |-> h, status |-> status, body |-> body]

Opened(f, s) == [x \in DOMAIN f \cup {s} |-> IF x = s THEN 0 ELSE f[x]]

Start(h, task) ==
    IF task \in Tasks
    THEN Effect(Host(Opened(h.open, h.count + 1), h.count + 1),
                "ok", <<"session", h.count + 1, task>>)
    ELSE Effect(h, "error", None)

Step(h, session, action) ==
    IF session \notin DOMAIN h.open THEN Effect(h, "error", None)
    ELSE IF action = "forbidden" THEN Effect(h, "rejected", None)
    ELSE Effect(Host([h.open EXCEPT ![session] = @ + 1], h.count),
                "ok", <<"outcome", h.open[session] + 1>>)

Verdict(h, session) ==
    IF session \in DOMAIN h.open
    THEN Effect(h, "ok", <<"verdict", h.open[session]>>)
    ELSE Effect(h, "error", None)

\* Closing a session that is not open is no error.
Close(h, session) == Effect(Host(Drop(h.open, session), h.count), "ok", <<"closed">>)

Dispatch(h, op, arg) ==
    CASE op = "START"    -> Start(h, arg)
      [] op = "STEP"     -> Step(h, arg.session, arg.action)
      [] op = "VERDICT"  -> Verdict(h, arg)
      [] op = "CLOSE"    -> Close(h, arg)
      [] op = "PING"     -> Effect(h, "ok", <<"pong">>)
      [] op = "HELLO"    -> Effect(h, "ok", Greeting)
      [] op = "SHUTDOWN" -> Effect(Host(<<>>, h.count), "ok", <<"shutdown">>)

Serve ==
    /\ stdin # <<>>
    /\ LET effect == Dispatch(host, Head(stdin).op, Head(stdin).arg)
       IN  Execute(effect.status, effect.body) /\ host' = effect.host

\* The environment raises (HOST_INTERNAL), before or after it has acted.
ServeRaises ==
    /\ stdin # <<>> /\ Head(stdin).op \notin {"HELLO", "PING"}
    /\ Execute("error", None)
    /\ host' \in {host, Dispatch(host, Head(stdin).op, Head(stdin).arg).host}

(***************************************************************************)
(* The client.                                                             *)
(***************************************************************************)
\* The calls a caller may make.
Requests ==
    [op : {"START"}, arg : Tasks \cup {UnknownTask}]
        \cup [op : {"STEP"}, arg : [session : Sessions, action : Actions]]
        \cup [op : {"VERDICT", "CLOSE"}, arg : Sessions]
        \cup [op : {"PING"}, arg : {None}]

BeginCall ==
    /\ \E r \in Requests : Begin(r.op, r.arg)
    /\ UNCHANGED host

\* Only a candidate makes a frame too long.
CandidateTooLong ==
    /\ FrameTooLong
    /\ call.asking = "STEP"
    /\ UNCHANGED host

\* Or longer than the pipe.
WriteCandidate ==
    /\ BeginWrite
    /\ call.asking = "STEP"
    /\ UNCHANGED host

AnswerAccepted ==
    /\ Answered
    /\ Head(queue).body # Malformed
    /\ UNCHANGED host

AnswerMalformed ==
    /\ TakeMalformed
    /\ Head(queue).body = Malformed
    /\ UNCHANGED host

ActionRejected ==
    /\ Rejected
    /\ UNCHANGED host

Shutdown ==
    /\ BeginShutdown \/ ShutdownAtOnce
    /\ UNCHANGED host

\* A candidate may come with no action but CALL_GENERATIVE.
CallFails ==
    /\ Refused \/ SpawnFails \/ Misused
    /\ UNCHANGED host

-----------------------------------------------------------------------------
Init == ChannelInit /\ host = FreshHost

\* What the caller's thread does within a call, of itself.
Caller ==
    \/ CandidateTooLong \/ WriteCandidate \/ AnswerAccepted \/ AnswerMalformed \/ ActionRejected
    \/ ClientMoves /\ UNCHANGED host

Next ==
    \/ BeginCall \/ CallFails \/ Shutdown
    \/ Caller
    \/ Serve \/ ServeRaises
    \/ FinishWrite /\ UNCHANGED host
    \/ (ChildMoves \/ Decline \/ SpoilReply(Malformed) \/ ReaderMoves) /\ UNCHANGED host

Spec == Init /\ [][Next]_vars

\* The caller's thread runs; nothing is assumed of the child, which may leave a
\* long frame unread, or of the reader.
FairSpec == Spec /\ WF_vars(Caller)

-----------------------------------------------------------------------------

\* The calls that were answered, applied one after another to a fresh host.
ReplayStart == [host |-> FreshHost, agrees |-> TRUE]

ReplayCall(seen, o) ==
    IF o.result \in {"ok", "rejected"}
    THEN LET effect == Dispatch(seen.host, o.op, o.arg)
         IN  [host |-> effect.host,
              agrees |-> seen.agrees /\ effect.status = o.result /\ effect.body = o.body]
    ELSE seen

ReplayOf(history) == FoldLeft(ReplayCall, ReplayStart, history)
Replay == ReplayOf(outcomes)

\* To its caller the gateway is a LocalReferenceHost: every answer is the one a
\* fresh local host gives to the answered calls alone, and between calls, as
\* long as none failed, the server's sessions are those of that host.
LooksLocal ==
    /\ Replay.agrees
    /\ AtRest => host = Replay.host

-----------------------------------------------------------------------------
(* The inductive invariant behind LooksLocal. *)

\* A host has no session that the other has not, at another step.  (A shutdown
\* that is declined has closed the server's sessions.)
Like(h, r) ==
    /\ h.count = r.count
    /\ DOMAIN h.open \subseteq DOMAIN r.open
    /\ \A s \in DOMAIN h.open : h.open[s] = r.open[s]

\* The server's host is the replayed one, or what a declined shutdown left of it.
IsReplay(r) == Like(host, r) /\ (Unbroken => host = r)

\* What a reply to the request under way tells of the server's host.
Tells(reply) ==
    LET effect == Dispatch(Replay.host, call.op, call.arg)
    IN  CASE call.asking = "HELLO"    -> IsReplay(Replay.host)
          [] call.asking = "SHUTDOWN" -> Like(host, Replay.host)
          [] OTHER ->
                \/ reply.status = "error"
                \/ reply.status = "ok" /\ reply.body = Malformed
                \/ /\ reply.status \in {"ok", "rejected"}
                   /\ reply.status = "rejected" => reply.body = None
                   /\ effect.status = reply.status /\ effect.body = reply.body
                   /\ IsReplay(effect.host)

HostInv ==
    /\ SerialInv
    /\ call # None => call.op \in {"START", "STEP", "VERDICT", "CLOSE", "PING", "SHUTDOWN"}
    /\ Replay.agrees
    /\ Sound =>
          /\ ~Awaiting \/ stdin # <<>> => IsReplay(Replay.host)
          /\ Awaiting => \A reply \in Replied : Tells(reply)

==============================================================================
