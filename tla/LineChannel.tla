----------------------------- MODULE LineChannel -----------------------------
(***************************************************************************)
(* The channel that SubprocessHostGateway and SubprocessAgentEndpoint both *)
(* have to their child process: requests and replies are JSON lines, a     *)
(* reader thread moves lines from the child's stdout to a queue, and a call *)
(* waits on the queue for a bounded time.  The two classes are copies of   *)
(* each other; this module has their common actions, in terms of the       *)
(* gateway's names, and the modules HostGateway and AgentChannel add the   *)
(* operations, with their state on both ends.                              *)
(*                                                                         *)
(* The caller is one thread, as in the repository: at most one call is     *)
(* under way.  The child is the reference server, which may also die at    *)
(* any moment and, MaxFaults times, misbehave in ways the client has code  *)
(* for.                                                                    *)
(***************************************************************************)
EXTENDS Naturals, Sequences, SequencesExt

CONSTANTS
    None,         \* Python's None
    Tasks,        \* what a session is opened with: tasks, or views of them
    Malformed,    \* a result that the client's method does not accept
    MaxCalls,     \* calls the caller makes
    MaxSessions,  \* the caller uses session numbers up to this one
    MaxFaults     \* faults of the child, other than dying

VARIABLES
    child,      \* the process: not spawned or closed, serving, mute (stdout
                \* closed), dying (both pipes closed, not reaped), exited
    stdin,      \* requests in the child's input pipe
    serving,    \* the reply the child has computed and not yet written
    sent,       \* every reply the child ever wrote
    faults,     \* faults so far
    stdout,     \* lines in the child's output pipe
    reader,     \* the reader thread
    queue,      \* _stdout_queue
    counter,    \* _request_counter
    handshake,  \* _handshake_complete
    closed,     \* _closed
    call,       \* the call under way
    outcomes    \* how each call ended so far

childVars  == <<stdin, serving, sent, faults>>
readerVars == <<stdout, reader, queue>>
clientVars == <<counter, handshake, closed, call, outcomes>>
channelVars == <<child, childVars, readerVars, clientVars>>

ASSUME BoundsAssumption == MaxCalls \in Nat /\ MaxFaults \in Nat

Request(id, op, arg) == [id |-> id, op |-> op, arg |-> arg]
Reply(id, op, status, body) ==
    [kind |-> "reply", id |-> id, op |-> op, status |-> status, body |-> body]
Line(kind) == [kind |-> kind]
EOF == Line("eof")
Greeting == <<"greeting">>    \* the result the handshake requires

\* Sessions are numbered, and either end keeps something for each open one.
Sessions == 1..MaxSessions
Drop(f, s) == [x \in DOMAIN f \ {s} |-> f[x]]

\* process.poll() is None
Alive == child \in {"serving", "mute", "dying"}

ChannelInit ==
    /\ child = "none" /\ reader = "none"
    /\ stdin = <<>> /\ stdout = <<>> /\ queue = <<>>
    /\ serving = None /\ sent = <<>> /\ faults = 0
    /\ counter = 0 /\ handshake = FALSE /\ closed = FALSE
    /\ call = None /\ outcomes = <<>>

(***************************************************************************)
(* How a call ends.                                                        *)
(***************************************************************************)
Outcome(op, arg, result, body) ==
    [op |-> op, arg |-> arg, result |-> result, body |-> body]

\* The end of a call without an answer of the child's.
Unanswered(result) == Outcome(None, None, result, None)

EndCall(outcome) ==
    /\ call' = None
    /\ outcomes' = Append(outcomes, outcome)

\* The end of shutdown: _close_process waits for the child or terminates it.
CloseDown ==
    /\ EndCall(Unanswered("shutdown"))
    /\ child' = "none"
    /\ handshake' = FALSE
    /\ closed' = TRUE

\* A protocol error is raised, after _terminate_process when stop says so.
\* shutdown swallows it, terminates the process and closes.
Fail(stop) ==
    IF call.op = "SHUTDOWN"
    THEN CloseDown
    ELSE /\ EndCall(Unanswered("failed"))
         /\ child' = IF stop THEN "exited" ELSE child
         /\ UNCHANGED <<handshake, closed>>

(***************************************************************************)
(* The beginning of a call.                                                *)
(***************************************************************************)
MayCall == call = None /\ Len(outcomes) < MaxCalls

\* The gateway is closed, or its process has exited: it is never respawned.
Refused ==
    /\ MayCall
    /\ closed \/ child = "exited"
    /\ outcomes' = Append(outcomes, Unanswered("failed"))
    /\ UNCHANGED <<child, childVars, readerVars, counter, handshake, closed, call>>

\* The method refuses its arguments before it asks for anything.
Misused ==
    /\ MayCall
    /\ outcomes' = Append(outcomes, Unanswered("refused"))
    /\ UNCHANGED <<child, childVars, readerVars, counter, handshake, closed, call>>

\* Popen raises: the gateway is as before.
SpawnFails ==
    /\ MayCall
    /\ ~closed /\ child = "none"
    /\ outcomes' = Append(outcomes, Unanswered("refused"))
    /\ UNCHANGED <<child, childVars, readerVars, counter, handshake, closed, call>>

\* _ensure_started: the process is spawned if there is none, with its reader
\* thread, and greeted first if it has not been.
Begin(op, arg) ==
    /\ MayCall
    /\ ~closed /\ child # "exited"
    /\ call' = [op |-> op, arg |-> arg, id |-> 0, phase |-> "send",
                asking |-> IF handshake THEN op ELSE "HELLO"]
    /\ IF child = "none"
       THEN child' = "serving" /\ reader' = "reading"
       ELSE UNCHANGED <<child, reader>>
    /\ UNCHANGED <<childVars, stdout, queue, counter, handshake, closed, outcomes>>

\* shutdown, of a process that runs: it is asked, without a greeting.
BeginShutdown ==
    /\ MayCall
    /\ ~closed /\ Alive
    /\ call' = [op |-> "SHUTDOWN", arg |-> None, id |-> 0, phase |-> "send",
                asking |-> "SHUTDOWN"]
    /\ UNCHANGED <<child, childVars, readerVars, counter, handshake, closed, outcomes>>

\* shutdown, where nothing runs.
ShutdownAtOnce ==
    /\ MayCall
    /\ ~closed /\ ~Alive
    /\ child' = "none" /\ handshake' = FALSE /\ closed' = TRUE
    /\ outcomes' = Append(outcomes, Unanswered("shutdown"))
    /\ UNCHANGED <<childVars, readerVars, counter, call>>

(***************************************************************************)
(* Sending the request.                                                    *)
(***************************************************************************)
Sending == call # None /\ call.phase = "send"
Writing == call # None /\ call.phase = "write"

\* The process may take what is written.
Taking == child \in {"serving", "mute"}

\* A frame that fits the pipe is written at once.
Send ==
    /\ Sending
    /\ Taking
    /\ counter' = counter + 1
    /\ stdin' = Append(stdin, Request(counter + 1, call.asking, call.arg))
    /\ call' = [call EXCEPT !.id = counter + 1, !.phase = "wait"]
    /\ UNCHANGED <<child, serving, sent, faults, readerVars, handshake, closed, outcomes>>

\* The write of a longer one waits, for however long, until the process has
\* read enough of it: there is no timeout.
BeginWrite ==
    /\ Sending
    /\ Taking
    /\ counter' = counter + 1
    /\ call' = [call EXCEPT !.id = counter + 1, !.phase = "write"]
    /\ UNCHANGED <<child, childVars, readerVars, handshake, closed, outcomes>>

FinishWrite ==
    /\ Writing
    /\ Taking
    /\ stdin' = Append(stdin, Request(call.id, call.asking, call.arg))
    /\ call' = [call EXCEPT !.phase = "wait"]
    /\ UNCHANGED <<child, serving, sent, faults, readerVars, counter, handshake, closed, outcomes>>

\* The process has exited since, or the write meets a broken pipe.
SendFails ==
    /\ Sending \/ Writing
    /\ child \in {"dying", "exited"}
    /\ counter' = IF Sending /\ child = "dying" THEN counter + 1 ELSE counter
    /\ Fail(FALSE)
    /\ UNCHANGED <<childVars, readerVars>>

\* encode_message finds the frame too long: it has a number and is not sent.
FrameTooLong ==
    /\ Sending
    /\ Alive
    /\ counter' = counter + 1
    /\ EndCall(Unanswered("refused"))
    /\ UNCHANGED <<child, childVars, readerVars, handshake, closed>>

(***************************************************************************)
(* Waiting for the reply.                                                  *)
(***************************************************************************)
Arrived == call # None /\ call.phase = "wait" /\ queue # <<>>

Receive ==
    /\ Arrived
    /\ queue' = Tail(queue)
    /\ UNCHANGED <<childVars, stdout, reader, counter>>

\* A variant: any reply will do.
BoundToAny(frame) == frame.kind = "reply"

\* The frame is a reply to this request.
Bound(frame) == frame.kind = "reply" /\ frame.id = call.id

\* The frame at the head of the queue is bound to the request and has this status.
Status(status) ==
    /\ Arrived
    /\ Bound(Head(queue)) /\ Head(queue).status = status

\* End of file: the process is not terminated.
TakeEof ==
    /\ Receive
    /\ Head(queue) = EOF
    /\ Fail(FALSE)

\* A frame that does not decode, is too long, answers another request, or
\* reports an error.
TakeBroken ==
    /\ Receive
    /\ Head(queue) # EOF
    /\ Bound(Head(queue)) => Head(queue).status = "error"
    /\ Fail(TRUE)

\* A reply whose result the operation rejects.
TakeMalformed ==
    /\ Status("ok")
    /\ Receive
    /\ Fail(TRUE)

\* The greeting is answered: the request itself is next.
Greeted ==
    /\ Status("ok") /\ call.asking = "HELLO" /\ Head(queue).body = Greeting
    /\ Receive
    /\ handshake' = TRUE
    /\ call' = [call EXCEPT !.asking = call.op, !.phase = "send"]
    /\ UNCHANGED <<child, closed, outcomes>>

\* The operation's own reply.
Answered ==
    /\ Status("ok") /\ call.asking = call.op
    /\ Receive
    /\ IF call.op = "SHUTDOWN"
       THEN CloseDown
       ELSE /\ EndCall(Outcome(call.op, call.arg, "ok", Head(queue).body))
            /\ UNCHANGED <<child, handshake, closed>>

\* ACTION_REJECTED, which only the gateway takes for an answer: the process goes
\* on.  Of a greeting or a shutdown it ends the call with that exception.
Rejected ==
    /\ Status("rejected")
    /\ Receive
    /\ EndCall(IF call.asking = call.op /\ call.op # "SHUTDOWN"
               THEN Outcome(call.op, call.arg, "rejected", None)
               ELSE Unanswered("declined"))
    /\ UNCHANGED <<child, handshake, closed>>

\* The queue stays empty for request_timeout; then the process is polled, and
\* terminated if it runs.  A late reply may come between the two.
Expire ==
    /\ call # None /\ call.phase = "wait" /\ queue = <<>>
    /\ call' = [call EXCEPT !.phase = "expired"]
    /\ UNCHANGED <<child, childVars, readerVars, counter, handshake, closed, outcomes>>

\* Variants: the timeout leaves the process alone, or waits again.
TimedOutOnly ==
    /\ call # None /\ call.phase = "expired"
    /\ Fail(FALSE)
    /\ UNCHANGED <<childVars, readerVars, counter>>

TimedOutAgain ==
    /\ call # None /\ call.phase = "expired"
    /\ call' = [call EXCEPT !.phase = "wait"]
    /\ UNCHANGED <<child, childVars, readerVars, counter, handshake, closed, outcomes>>

TimedOut ==
    /\ call # None /\ call.phase = "expired"
    /\ Fail(child # "exited")
    /\ UNCHANGED <<childVars, readerVars, counter>>

(***************************************************************************)
(* The reader thread: it stops at end of file and after a line too long.   *)
(***************************************************************************)
ReadLine ==
    /\ reader = "reading" /\ stdout # <<>>
    /\ queue' = Append(queue, Head(stdout))
    /\ stdout' = Tail(stdout)
    /\ reader' = IF Head(stdout) = Line("oversized") THEN "ending" ELSE "reading"
    /\ UNCHANGED <<child, childVars, clientVars>>

ReadEof ==
    /\ \/ reader = "ending"
       \/ reader = "reading" /\ stdout = <<>> /\ child # "serving"
    /\ queue' = Append(queue, EOF)
    /\ reader' = "done"
    /\ UNCHANGED <<child, childVars, stdout, clientVars>>

(***************************************************************************)
(* The child: it reads a request, acts on it, writes the reply.            *)
(***************************************************************************)
Execute(status, body) ==
    /\ child \in {"serving", "mute"} /\ serving = None
    /\ stdin # <<>>
    /\ stdin' = Tail(stdin)
    /\ serving' = Reply(Head(stdin).id, Head(stdin).op, status, body)
    /\ UNCHANGED <<child, sent, faults, readerVars, clientVars>>

\* The loop ends after SHUTDOWN; a write to a closed stdout ends the process.
Respond ==
    /\ child \in {"serving", "mute"} /\ serving # None
    /\ serving' = None
    /\ IF child = "serving"
       THEN stdout' = Append(stdout, serving) /\ sent' = Append(sent, serving)
       ELSE UNCHANGED <<stdout, sent>>
    /\ child' = IF child = "mute" \/ (serving.op = "SHUTDOWN" /\ serving.status = "ok")
                THEN "dying" ELSE child
    /\ UNCHANGED <<stdin, faults, reader, queue, clientVars>>

\* The process dies, also because its reply would be too long.
Die ==
    /\ child \in {"serving", "mute"}
    /\ child' = "dying" /\ serving' = None
    /\ UNCHANGED <<stdin, sent, faults, readerVars, clientVars>>

Exit ==
    /\ child = "dying"
    /\ child' = "exited"
    /\ UNCHANGED <<childVars, readerVars, clientVars>>

(***************************************************************************)
(* The child's faults.                                                     *)
(***************************************************************************)
Fault ==
    /\ faults < MaxFaults
    /\ faults' = faults + 1
    /\ UNCHANGED <<stdin, sent, reader, queue, clientVars>>

\* An earlier reply once more, or a line that is no message.
WriteNoise ==
    /\ Fault
    /\ child = "serving"
    /\ \E line \in ToSet(sent) \cup {Line("garbage"), Line("oversized")} :
           stdout' = Append(stdout, line)
    /\ UNCHANGED <<child, serving>>

\* The reply never comes, while the process goes on.
ForgetReply ==
    /\ Fault
    /\ child = "serving" /\ serving # None
    /\ serving' = None
    /\ UNCHANGED <<child, stdout>>

\* The result is replaced by another.
SpoilReply(body) ==
    /\ Fault
    /\ child = "serving" /\ serving # None /\ serving.status = "ok"
    /\ serving' = [serving EXCEPT !.body = body]
    /\ UNCHANGED <<child, stdout>>

\* The greeting or the shutdown is declined.
Decline ==
    /\ Fault
    /\ child = "serving" /\ serving # None
    /\ serving.op \in {"HELLO", "SHUTDOWN"}
    /\ serving' = [serving EXCEPT !.status = "rejected", !.body = None]
    /\ UNCHANGED <<child, stdout>>

CloseStdout ==
    /\ Fault
    /\ child = "serving"
    /\ child' = "mute"
    /\ UNCHANGED <<serving, stdout>>

ChildMoves ==
    \/ Respond \/ Die \/ Exit
    \/ WriteNoise \/ ForgetReply \/ CloseStdout

ReaderMoves == ReadLine \/ ReadEof

\* The client's steps that every operation has in common.
ClientMoves == Send \/ SendFails \/ TakeEof \/ TakeBroken \/ Greeted \/ Expire \/ TimedOut

(***************************************************************************)
(* Properties of every channel.                                            *)
(***************************************************************************)
\* No call failed or was declined so far.
Unbroken == \A i \in DOMAIN outcomes : outcomes[i].result \notin {"failed", "declined"}

\* Between calls of a gateway whose process serves and has not failed.
AtRest == call = None /\ Unbroken /\ ~closed /\ child \in {"none", "serving"}

\* Once a call has failed, because of the transport, the protocol or the time
\* it took, no later call of the gateway is answered: a late, repeated or lost
\* reply can never be taken for the reply to another request.
FailStop ==
    \A i, j \in DOMAIN outcomes :
        i < j /\ outcomes[i].result = "failed"
            => outcomes[j].result \notin {"ok", "rejected", "declined"}

-----------------------------------------------------------------------------
(* One request at a time: the inductive invariant behind what the callers  *)
(* of a channel learn from it.                                             *)

\* The channel is open and no call has failed.
Sound == ~closed /\ \A i \in DOMAIN outcomes : outcomes[i].result # "failed"

Awaiting == call # None /\ call.phase \in {"wait", "expired"}

\* The lines that are somewhere between the child and the caller, or might be
\* once more.
Written == ToSet(sent) \cup ToSet(stdout) \cup ToSet(queue)

\* A reply that bears the number of the last request, and those written.
IsFresh(frame) == frame.kind = "reply" /\ frame.id = counter
Fresh == {frame \in Written : IsFresh(frame)}

\* The replies to the last request, one of them perhaps still to be written.
Replied == Fresh \cup ({serving} \ {None})

\* The last request is with the child, or being served, or its reply was
\* written or lost; it is the one the caller waits for.
OneRequest ==
    /\ Awaiting \/ Writing => call.id = counter
    /\ Writing => Fresh = {}
    /\ stdin # <<>> =>
          /\ Awaiting
          /\ stdin = <<Request(counter, call.asking, call.arg)>>
          /\ serving = None
          /\ Fresh = {}
    /\ serving # None => Awaiting /\ stdin = <<>> /\ Fresh = {} /\ IsFresh(serving)
    /\ \A frame \in Written : frame.kind = "reply" => frame.id \in 0 .. counter
    /\ Awaiting => \A frame \in Replied : frame.op = call.asking

\* None is not the record of a call.
NoneIsNoCall ==
    \A op, arg, id, phase, asking :
        [op |-> op, arg |-> arg, id |-> id, phase |-> phase, asking |-> asking] # None

CallShaped ==
    call # None =>
        /\ call = [op |-> call.op, arg |-> call.arg, id |-> call.id,
                   phase |-> call.phase, asking |-> call.asking]
        /\ call.asking \in {"HELLO", call.op}
        /\ call.phase \in {"send", "write", "wait", "expired"}

ServingShaped ==
    serving # None =>
        serving = Reply(serving.id, serving.op, serving.status, serving.body)

SerialInv ==
    /\ counter \in Nat
    /\ CallShaped
    /\ ServingShaped
    /\ Sound => OneRequest

\* The caller waits in a write that its process does not read, and runs on.
Blocked == Writing /\ Taking

\* Every call ends, whether the child answers, answers wrongly, forgets the reply
\* or dies, but for one: a request longer than the pipe, to a process that runs
\* and never reads it, keeps the caller waiting in its write for good.
CallsEnd == call # None ~> (call = None \/ []Blocked)

==============================================================================
