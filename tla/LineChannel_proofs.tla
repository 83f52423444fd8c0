-------------------------- MODULE LineChannel_proofs --------------------------
(***************************************************************************)
(* FailStop holds of every channel: whatever the operations are, and       *)
(* however many calls and faults there are; and so does SerialInv, that    *)
(* only the last request can be answered.  ChannelUsers_proofs             *)
(* applies both to the gateway and the endpoint.                           *)
(***************************************************************************)
EXTENDS LineChannel, TLAPS

\* The steps of a channel, with any operation, reply and result in them.
ClientStep ==
    \/ Refused \/ SpawnFails \/ Misused \/ BeginShutdown \/ ShutdownAtOnce
    \/ \E op, arg : Begin(op, arg)
    \/ Send \/ BeginWrite \/ FinishWrite \/ SendFails \/ FrameTooLong
    \/ TakeEof \/ TakeBroken \/ TakeMalformed
    \/ Greeted \/ Answered \/ Rejected
    \/ Expire \/ TimedOut

ChildStep ==
    \/ \E status, body : Execute(status, body)
    \/ Respond \/ Die \/ Exit
    \/ WriteNoise \/ ForgetReply \/ Decline \/ CloseStdout
    \/ \E body : SpoilReply(body)

ChannelNext == ClientStep \/ ChildStep \/ ReadLine \/ ReadEof

-----------------------------------------------------------------------------
IsSeq(s) == s \in Seq(ToSet(s))

LEMMA SeqOfItself ==
  ASSUME NEW T, NEW s \in Seq(T)
  PROVE  IsSeq(s)
<1>1. s \in [1 .. Len(s) -> T] /\ Len(s) \in Nat /\ DOMAIN s = 1 .. Len(s)
  OBVIOUS
<1>2. s \in [1 .. Len(s) -> ToSet(s)]
  BY <1>1 DEF ToSet
<1>3. s \in Seq(ToSet(s))
  BY <1>1, <1>2
<1> QED
  BY <1>3 DEF IsSeq

\* What Append does to a sequence of anything.
LEMMA Appended ==
  ASSUME NEW s, NEW e, IsSeq(s)
  PROVE  /\ IsSeq(Append(s, e))
         /\ Len(s) \in Nat
         /\ DOMAIN s = 1 .. Len(s)
         /\ DOMAIN Append(s, e) = 1 .. (Len(s) + 1)
         /\ \A i \in 1 .. Len(s) : Append(s, e)[i] = s[i]
         /\ Append(s, e)[Len(s) + 1] = e
         /\ Len(Append(s, e)) = Len(s) + 1
<1>1. s \in Seq(ToSet(s) \cup {e})
  BY DEF IsSeq
<1>2. /\ Append(s, e) \in Seq(ToSet(s) \cup {e})
      /\ Len(s) \in Nat
      /\ DOMAIN s = 1 .. Len(s)
      /\ Len(Append(s, e)) = Len(s) + 1
      /\ DOMAIN Append(s, e) = 1 .. (Len(s) + 1)
      /\ \A i \in 1 .. Len(s) : Append(s, e)[i] = s[i]
      /\ Append(s, e)[Len(s) + 1] = e
  BY <1>1
<1>3. IsSeq(Append(s, e))
  BY <1>2, SeqOfItself
<1> QED
  BY <1>2, <1>3

\* What Tail does to one.
LEMMA Shortened ==
  ASSUME NEW s, IsSeq(s), s # <<>>
  PROVE  /\ IsSeq(Tail(s))
         /\ Len(s) \in Nat \ {0}
         /\ Head(s) = s[1]
         /\ Len(Tail(s)) = Len(s) - 1
         /\ \A i \in 1 .. (Len(s) - 1) : Tail(s)[i] = s[i + 1]
<1>1. PICK T : s \in Seq(T)
  BY DEF IsSeq
<1>2. /\ Len(s) \in Nat \ {0}
      /\ Head(s) = s[1]
      /\ Tail(s) \in Seq(T)
      /\ Len(Tail(s)) = Len(s) - 1
      /\ \A i \in 1 .. (Len(s) - 1) : Tail(s)[i] = s[i + 1]
  BY <1>1
<1>3. IsSeq(Tail(s))
  BY <1>2, SeqOfItself
<1> QED
  BY <1>2, <1>3

-----------------------------------------------------------------------------
\* EOF is the last thing in the queue, put there by a reader that has stopped,
\* and the child never writes it.
QueueInv ==
    /\ IsSeq(queue)
    /\ \A i \in 1 .. Len(queue) : queue[i] = EOF => i = Len(queue) /\ reader = "done"

LinesInv ==
    /\ IsSeq(stdout) /\ \A i \in 1 .. Len(stdout) : stdout[i].kind # "eof"
    /\ IsSeq(sent) /\ \A i \in 1 .. Len(sent) : sent[i].kind # "eof"
    /\ serving # None => "kind" \in DOMAIN serving /\ serving.kind = "reply"

\* A call has a phase; a closed gateway has none, one that was never used
\* has no reader.
CallInv ==
    /\ call # None => "phase" \in DOMAIN call
    /\ closed => call = None
    /\ child = "none" => closed \/ reader = "none"

HasFailed == \E i \in DOMAIN outcomes : outcomes[i].result = "failed"

\* No reply can arrive any more: the gateway is closed, or nothing is sent to
\* a process that is gone, or nothing will come into the queue again.
Dead ==
    \/ closed
    \/ child \in {"dying", "exited"} /\ (call = None \/ call.phase = "send")
    \/ reader = "done" /\ queue = <<>>

ChannelInv ==
    /\ QueueInv /\ LinesInv /\ CallInv
    /\ IsSeq(outcomes)
    /\ HasFailed => Dead
    /\ FailStop

LEMMA EmptyIsSeq == IsSeq(<<>>)
<1>1. <<>> \in Seq({})
  OBVIOUS
<1> QED
  BY <1>1, SeqOfItself

LEMMA ChannelStarts == ChannelInit => ChannelInv
<1> SUFFICES ASSUME ChannelInit PROVE ChannelInv
  OBVIOUS
<1>1. DOMAIN outcomes = {} /\ Len(queue) = 0 /\ Len(stdout) = 0 /\ Len(sent) = 0
  BY DEF ChannelInit
<1>2. QueueInv /\ LinesInv /\ CallInv
  BY <1>1, EmptyIsSeq DEF ChannelInit, QueueInv, LinesInv, CallInv
<1>3. IsSeq(outcomes) /\ ~HasFailed /\ FailStop
  BY <1>1, EmptyIsSeq DEF ChannelInit, HasFailed, FailStop
<1> QED
  BY <1>2, <1>3 DEF ChannelInv

\* A dead channel receives nothing.
LEMMA DeadSilence ==
  ASSUME CallInv, Dead
  PROVE  ~Arrived
BY DEF CallInv, Dead, Arrived

LEMMA QueueStep ==
  ASSUME ChannelInv, ChannelNext
  PROVE  QueueInv'
<1> USE DEF ChannelInv
<1>1. CASE UNCHANGED <<queue, reader>>
  BY <1>1 DEF QueueInv, IsSeq
<1>2. CASE \E op, arg : Begin(op, arg)
  BY <1>2 DEF Begin, QueueInv, IsSeq, CallInv
<1>3. CASE Receive
  <2>1. queue # <<>> /\ queue' = Tail(queue) /\ reader' = reader
    BY <1>3 DEF Receive, Arrived
  <2>2. /\ IsSeq(queue')
        /\ Len(queue) \in Nat
        /\ Len(queue') = Len(queue) - 1
        /\ \A i \in 1 .. (Len(queue) - 1) : queue'[i] = queue[i + 1]
    BY <2>1, Shortened DEF QueueInv
  <2>3. ASSUME NEW i \in 1 .. Len(queue'), queue'[i] = EOF
        PROVE  i = Len(queue') /\ reader' = "done"
    <3>1. i + 1 \in 1 .. Len(queue) /\ queue[i + 1] = EOF
      BY <2>2, <2>3
    <3>2. i + 1 = Len(queue) /\ reader = "done"
      BY <3>1 DEF QueueInv
    <3>3. i \in Nat
      BY <2>2, <2>3
    <3>4. i = Len(queue')
      BY <2>2, <3>2, <3>3
    <3> QED
      BY <2>1, <3>2, <3>4
  <2> QED
    BY <2>2, <2>3 DEF QueueInv
<1>4. CASE ReadLine
  <2>1. /\ queue' = Append(queue, Head(stdout)) /\ reader = "reading"
        /\ Head(stdout) # EOF
    BY <1>4, Shortened DEF ReadLine, LinesInv, EOF, Line
  <2>2. /\ IsSeq(queue')
        /\ Len(queue) \in Nat
        /\ Len(queue') = Len(queue) + 1
        /\ \A i \in 1 .. Len(queue) : queue'[i] = queue[i]
        /\ queue'[Len(queue) + 1] = Head(stdout)
    BY <2>1, Appended DEF QueueInv
  <2> QED
    BY <2>1, <2>2 DEF QueueInv
<1>5. CASE ReadEof
  <2>1. queue' = Append(queue, EOF) /\ reader # "done" /\ reader' = "done"
    BY <1>5 DEF ReadEof
  <2>2. /\ IsSeq(queue')
        /\ Len(queue) \in Nat
        /\ Len(queue') = Len(queue) + 1
        /\ \A i \in 1 .. Len(queue) : queue'[i] = queue[i]
    BY <2>1, Appended DEF QueueInv
  <2> QED
    BY <2>1, <2>2 DEF QueueInv
<1>6. ClientStep => \/ UNCHANGED <<queue, reader>>
                    \/ \E op, arg : Begin(op, arg)
                    \/ Receive
  BY DEF ClientStep, Refused, SpawnFails, Misused, BeginShutdown, ShutdownAtOnce, Send,
     BeginWrite, FinishWrite, SendFails, FrameTooLong, TakeEof, TakeBroken, TakeMalformed,
     Greeted, Answered, Rejected, Expire, TimedOut, readerVars
<1>7. ChildStep => UNCHANGED <<queue, reader>>
  BY DEF ChildStep, Execute, Respond, Die, Exit, Fault, WriteNoise, ForgetReply, Decline,
     CloseStdout, SpoilReply, readerVars
<1> QED
  BY <1>1, <1>2, <1>3, <1>4, <1>5, <1>6, <1>7 DEF ChannelNext

LEMMA LinesStep ==
  ASSUME ChannelInv, ChannelNext
  PROVE  LinesInv'
<1> USE DEF ChannelInv
<1>1. CASE UNCHANGED <<stdout, sent, serving>>
  BY <1>1 DEF LinesInv, IsSeq
<1>2. CASE ReadLine
  <2>1. stdout # <<>> /\ stdout' = Tail(stdout) /\ sent' = sent /\ serving' = serving
    BY <1>2 DEF ReadLine, childVars
  <2>2. /\ IsSeq(stdout')
        /\ Len(stdout) \in Nat
        /\ Len(stdout') = Len(stdout) - 1
        /\ \A i \in 1 .. (Len(stdout) - 1) : stdout'[i] = stdout[i + 1]
    BY <2>1, Shortened DEF LinesInv
  <2>3. ASSUME NEW i \in 1 .. Len(stdout')
        PROVE  stdout'[i].kind # "eof"
    <3>1. i + 1 \in 1 .. Len(stdout) /\ stdout'[i] = stdout[i + 1]
      BY <2>2
    <3> QED
      BY <3>1 DEF LinesInv
  <2> QED
    BY <2>1, <2>2, <2>3 DEF LinesInv, IsSeq
<1>3. CASE \E status, body : Execute(status, body)
  BY <1>3 DEF Execute, LinesInv, IsSeq, Reply, readerVars
<1>4. CASE Respond
  <2>1. CASE child = "serving"
    <3>1. /\ stdout' = Append(stdout, serving) /\ sent' = Append(sent, serving)
          /\ serving' = None /\ serving.kind # "eof"
      BY <1>4, <2>1 DEF Respond, LinesInv, Reply
    <3>2. /\ IsSeq(stdout') /\ Len(stdout) \in Nat /\ Len(stdout') = Len(stdout) + 1
          /\ \A i \in 1 .. Len(stdout) : stdout'[i] = stdout[i]
          /\ stdout'[Len(stdout) + 1] = serving
      BY <3>1, Appended DEF LinesInv
    <3>3. /\ IsSeq(sent') /\ Len(sent) \in Nat /\ Len(sent') = Len(sent) + 1
          /\ \A i \in 1 .. Len(sent) : sent'[i] = sent[i]
          /\ sent'[Len(sent) + 1] = serving
      BY <3>1, Appended DEF LinesInv
    <3> QED
      BY <3>1, <3>2, <3>3 DEF LinesInv
  <2>2. CASE child # "serving"
    BY <1>4, <2>2 DEF Respond, LinesInv, IsSeq
  <2> QED
    BY <2>1, <2>2
<1>5. CASE Die \/ ForgetReply
  BY <1>5 DEF Die, ForgetReply, Fault, LinesInv, IsSeq, readerVars
<1>6. CASE WriteNoise
  <2>1. PICK line \in ToSet(sent) \cup {Line("garbage"), Line("oversized")} :
            stdout' = Append(stdout, line)
    BY <1>6 DEF WriteNoise
  <2>2. line.kind # "eof"
    <3>1. CASE line \in ToSet(sent)
      <4>1. PICK i \in DOMAIN sent : line = sent[i]
        BY <3>1 DEF ToSet
      <4> QED
        BY <4>1, Appended DEF LinesInv
    <3>2. CASE line \in {Line("garbage"), Line("oversized")}
      BY <3>2 DEF Line
    <3> QED
      BY <3>1, <3>2
  <2>3. /\ IsSeq(stdout') /\ Len(stdout) \in Nat /\ Len(stdout') = Len(stdout) + 1
        /\ \A i \in 1 .. Len(stdout) : stdout'[i] = stdout[i]
        /\ stdout'[Len(stdout) + 1] = line
    BY <2>1, Appended DEF LinesInv
  <2>4. sent' = sent /\ serving' = serving
    BY <1>6 DEF WriteNoise, Fault
  <2> QED
    BY <2>2, <2>3, <2>4 DEF LinesInv, IsSeq
<1>7. CASE Decline \/ \E body : SpoilReply(body)
  <2>1. stdout' = stdout /\ sent' = sent /\ serving # None
    BY <1>7 DEF Decline, SpoilReply, Fault
  <2>2. \/ serving' = [serving EXCEPT !.status = "rejected", !.body = None]
        \/ \E body : serving' = [serving EXCEPT !.body = body]
    BY <1>7 DEF Decline, SpoilReply
  <2>3. "kind" \in DOMAIN serving' /\ serving'.kind = "reply"
    BY <2>1, <2>2 DEF LinesInv
  <2> QED
    BY <2>1, <2>3 DEF LinesInv, IsSeq
<1>8. ClientStep => UNCHANGED <<stdout, sent, serving>>
  BY DEF ClientStep, Refused, SpawnFails, Misused, BeginShutdown, ShutdownAtOnce, Begin, Send,
     BeginWrite, FinishWrite, SendFails, FrameTooLong, TakeEof, TakeBroken, TakeMalformed,
     Greeted, Answered, Rejected, Receive, Expire, TimedOut, readerVars, childVars
<1>9. Exit \/ CloseStdout \/ ReadEof => UNCHANGED <<stdout, sent, serving>>
  BY DEF Exit, CloseStdout, Fault, ReadEof, readerVars, childVars
<1> QED
  BY <1>1, <1>2, <1>3, <1>4, <1>5, <1>6, <1>7, <1>8, <1>9 DEF ChannelNext, ChildStep

LEMMA CallStep ==
  ASSUME ChannelInv, ChannelNext
  PROVE  CallInv'
<1> USE DEF ChannelInv
<1>1. CASE \E op, arg : Begin(op, arg)
  BY <1>1 DEF Begin, CallInv
<1>2. CASE Refused \/ SpawnFails \/ Misused \/ BeginShutdown \/ ShutdownAtOnce
  BY <1>2 DEF Refused, SpawnFails, Misused, BeginShutdown, ShutdownAtOnce, MayCall, Alive,
     CallInv, readerVars
<1>3. CASE Send \/ BeginWrite \/ FinishWrite \/ Greeted \/ Expire
  <2>1. call # None /\ UNCHANGED <<child, reader, closed>>
    BY <1>3 DEF Send, BeginWrite, FinishWrite, Sending, Writing, Greeted, Receive, Arrived,
       Expire, readerVars
  <2>2. \/ call' = [call EXCEPT !.id = counter + 1, !.phase = "wait"]
        \/ call' = [call EXCEPT !.id = counter + 1, !.phase = "write"]
        \/ call' = [call EXCEPT !.phase = "wait"]
        \/ call' = [call EXCEPT !.asking = call.op, !.phase = "send"]
        \/ call' = [call EXCEPT !.phase = "expired"]
    BY <1>3 DEF Send, BeginWrite, FinishWrite, Greeted, Expire
  <2>3. "phase" \in DOMAIN call'
    BY <2>1, <2>2 DEF CallInv
  <2>4. ~closed
    BY <2>1 DEF CallInv
  <2> QED
    BY <2>1, <2>3, <2>4 DEF CallInv
<1>4. CASE SendFails \/ FrameTooLong
  BY <1>4 DEF SendFails, FrameTooLong, Sending, Writing, Fail, EndCall, CloseDown, CallInv,
     readerVars
<1>5. CASE TakeEof \/ TakeBroken \/ TakeMalformed \/ TimedOut
  BY <1>5 DEF TakeEof, TakeBroken, TakeMalformed, TimedOut, Receive, Arrived, Fail, EndCall,
     CloseDown, CallInv, readerVars
<1>6. CASE Answered \/ Rejected
  BY <1>6 DEF Answered, Rejected, Receive, Arrived, EndCall, CloseDown, CallInv
<1>7. CASE ChildStep
  BY <1>7 DEF ChildStep, Execute, Respond, Die, Exit, Fault, WriteNoise, ForgetReply, Decline,
     CloseStdout, SpoilReply, CallInv, readerVars, clientVars
<1>8. CASE ReadLine \/ ReadEof
  BY <1>8 DEF ReadLine, ReadEof, CallInv, clientVars
<1> QED
  BY <1>1, <1>2, <1>3, <1>4, <1>5, <1>6, <1>7, <1>8 DEF ChannelNext, ClientStep

Replies == {"ok", "rejected", "declined"}

Adds(o) ==
    /\ outcomes' = Append(outcomes, o)
    /\ o.result \in Replies => Arrived
    /\ o.result = "failed" => Dead'

\* What a step may add to the outcomes: an answer only if a reply arrived, a
\* failure only of a channel that is dead after it.
LEMMA OutcomeStep ==
  ASSUME ChannelInv, ChannelNext, outcomes' # outcomes
  PROVE  \E o : Adds(o)
<1> USE DEF ChannelInv, Replies, Adds
<1>1. CASE Refused
  BY <1>1 DEF Refused, MayCall, Unanswered, Outcome, Dead
<1>2. CASE SpawnFails \/ Misused \/ ShutdownAtOnce
  BY <1>2 DEF SpawnFails, Misused, ShutdownAtOnce, Unanswered, Outcome
<1>3. CASE SendFails
  <2>1. CASE call.op = "SHUTDOWN"
    BY <1>3, <2>1 DEF SendFails, Fail, CloseDown, EndCall, Unanswered, Outcome
  <2>2. CASE call.op # "SHUTDOWN"
    <3>1. outcomes' = Append(outcomes, Unanswered("failed")) /\ call' = None
      BY <1>3, <2>2 DEF SendFails, Fail, EndCall
    <3>2. child' \in {"dying", "exited"}
      BY <1>3, <2>2 DEF SendFails, Fail
    <3> QED
      BY <3>1, <3>2 DEF Dead, Unanswered, Outcome
  <2> QED
    BY <2>1, <2>2
<1>4. CASE FrameTooLong
  BY <1>4 DEF FrameTooLong, EndCall, Unanswered, Outcome
<1>5. CASE TakeEof
  <2>1. CASE call.op = "SHUTDOWN"
    BY <1>5, <2>1 DEF TakeEof, Fail, CloseDown, EndCall, Unanswered, Outcome
  <2>2. CASE call.op # "SHUTDOWN"
    <3>1. outcomes' = Append(outcomes, Unanswered("failed"))
      BY <1>5, <2>2 DEF TakeEof, Fail, EndCall
    <3>2. queue # <<>> /\ Head(queue) = EOF /\ queue' = Tail(queue) /\ reader' = reader
      BY <1>5 DEF TakeEof, Receive, Arrived
    <3>3. 1 \in 1 .. Len(queue) /\ queue[1] = EOF
      BY <3>2, Shortened DEF QueueInv
    <3>4. Len(queue) = 1 /\ reader = "done"
      BY <3>3 DEF QueueInv
    <3>5. queue' = <<>>
      <4>1. IsSeq(queue') /\ Len(queue') = 0
        BY <3>2, <3>4, Shortened DEF QueueInv
      <4> QED
        BY <4>1 DEF IsSeq
    <3> QED
      BY <3>1, <3>2, <3>4, <3>5 DEF Dead, Unanswered, Outcome
  <2> QED
    BY <2>1, <2>2
<1>6. CASE TakeBroken \/ TakeMalformed \/ TimedOut
  <2>1. CASE call.op = "SHUTDOWN"
    BY <1>6, <2>1 DEF TakeBroken, TakeMalformed, TimedOut, Fail, CloseDown, EndCall, Unanswered,
       Outcome
  <2>2. CASE call.op # "SHUTDOWN"
    <3>1. /\ outcomes' = Append(outcomes, Unanswered("failed"))
          /\ call' = None /\ child' = "exited"
      BY <1>6, <2>2 DEF TakeBroken, TakeMalformed, TimedOut, Fail, EndCall
    <3> QED
      BY <3>1 DEF Dead, Unanswered, Outcome
  <2> QED
    BY <2>1, <2>2
<1>7. CASE Answered \/ Rejected
  <2>1. Arrived /\ outcomes' # outcomes
    BY <1>7 DEF Answered, Rejected, Receive
  <2>2. \E o : outcomes' = Append(outcomes, o) /\ o.result # "failed"
    BY <1>7 DEF Answered, Rejected, CloseDown, EndCall, Unanswered, Outcome
  <2> QED
    BY <2>1, <2>2
<1>8. CASE BeginShutdown \/ (\E op, arg : Begin(op, arg)) \/ Send \/ BeginWrite
             \/ FinishWrite \/ Greeted \/ Expire
  BY <1>8 DEF BeginShutdown, Begin, Send, BeginWrite, FinishWrite, Greeted, Expire
<1>9. CASE ChildStep
  BY <1>9 DEF ChildStep, Execute, Respond, Die, Exit, Fault, WriteNoise, ForgetReply, Decline,
     CloseStdout, SpoilReply, clientVars
<1>10. CASE ReadLine \/ ReadEof
  BY <1>10 DEF ReadLine, ReadEof, clientVars
<1> QED
  BY <1>1, <1>2, <1>3, <1>4, <1>5, <1>6, <1>7, <1>8, <1>9, <1>10 DEF ChannelNext, ClientStep

\* A closed channel stays closed.
LEMMA ClosedStays ==
  ASSUME ChannelInv, ChannelNext, closed
  PROVE  closed'
<1>1. ~Arrived
  BY DeadSilence DEF ChannelInv, Dead
<1> QED
  BY <1>1 DEF ChannelNext, ClientStep, ChildStep, ChannelInv, CallInv, Refused, SpawnFails,
     Misused, BeginShutdown, ShutdownAtOnce, Begin, MayCall, Send, BeginWrite, FinishWrite,
     Sending, Writing, SendFails, FrameTooLong, TakeEof, TakeBroken, TakeMalformed, Greeted,
     Answered, Rejected, Receive, Arrived, Expire, TimedOut, Execute, Respond, Die, Exit, Fault,
     WriteNoise, ForgetReply, Decline, CloseStdout, SpoilReply, ReadLine, ReadEof, clientVars

\* A dead channel stays dead.
LEMMA DeadStep ==
  ASSUME ChannelInv, ChannelNext, Dead
  PROVE  Dead'
<1> USE DEF ChannelInv
<1>0. ~Arrived
  BY DeadSilence
<1>1. CASE closed
  BY <1>1, ClosedStays DEF Dead
<1>2. CASE ~closed /\ child \in {"dying", "exited"} /\ (call = None \/ call.phase = "send")
  <2>1. CASE \E op, arg : Begin(op, arg)
    BY <1>2, <2>1 DEF Begin, Dead
  <2>2. CASE Refused \/ SpawnFails \/ Misused \/ BeginShutdown \/ ShutdownAtOnce
    BY <1>2, <2>2 DEF Refused, SpawnFails, Misused, BeginShutdown, ShutdownAtOnce, Dead
  <2>3. CASE SendFails \/ FrameTooLong
    BY <1>2, <2>3 DEF SendFails, FrameTooLong, Fail, CloseDown, EndCall, Dead
  <2>4. ~(Send \/ BeginWrite \/ FinishWrite \/ Expire \/ TimedOut
            \/ TakeEof \/ TakeBroken \/ TakeMalformed
            \/ Greeted \/ Answered \/ Rejected)
    BY <1>0, <1>2 DEF Send, BeginWrite, FinishWrite, Taking, Writing, Expire, TimedOut, TakeEof,
       TakeBroken, TakeMalformed, Greeted, Answered, Rejected, Receive
  <2>5. CASE ChildStep \/ ReadLine \/ ReadEof
    BY <1>2, <2>5 DEF ChildStep, Execute, Respond, Die, Exit, Fault, WriteNoise, ForgetReply,
       Decline, CloseStdout, SpoilReply, ReadLine, ReadEof, clientVars, Dead
  <2> QED
    BY <2>1, <2>2, <2>3, <2>4, <2>5 DEF ChannelNext, ClientStep
<1>3. CASE ~closed /\ reader = "done" /\ queue = <<>>
  <2>1. CASE \E op, arg : Begin(op, arg)
    BY <1>3, <2>1 DEF Begin, CallInv, Dead
  <2>2. ~(TakeEof \/ TakeBroken \/ TakeMalformed \/ Greeted \/ Answered \/ Rejected
            \/ ReadLine \/ ReadEof)
    BY <1>0, <1>3 DEF TakeEof, TakeBroken, TakeMalformed, Greeted, Answered, Rejected, Receive,
       ReadLine, ReadEof
  <2>3. CASE Refused \/ SpawnFails \/ Misused \/ BeginShutdown \/ ShutdownAtOnce \/ Send
               \/ BeginWrite \/ FinishWrite
             \/ SendFails \/ FrameTooLong \/ Expire \/ TimedOut \/ ChildStep
    <3>1. UNCHANGED <<queue, reader>>
      BY <2>3 DEF Refused, SpawnFails, Misused, BeginShutdown, ShutdownAtOnce, Send, BeginWrite,
         FinishWrite, SendFails, FrameTooLong, Expire, TimedOut, ChildStep, Execute, Respond,
         Die, Exit, Fault, WriteNoise, ForgetReply, Decline, CloseStdout, SpoilReply, readerVars
    <3> QED
      BY <1>3, <3>1 DEF Dead
  <2> QED
    BY <2>1, <2>2, <2>3 DEF ChannelNext, ClientStep
<1> QED
  BY <1>1, <1>2, <1>3 DEF Dead

\* Every step of a channel preserves the invariant.
LEMMA ChannelStep ==
  ASSUME ChannelInv, [ChannelNext]_channelVars
  PROVE  ChannelInv'
<1>1. CASE UNCHANGED channelVars
  BY <1>1 DEF channelVars, childVars, readerVars, clientVars, ChannelInv, QueueInv, LinesInv,
     CallInv, IsSeq, HasFailed, Dead, FailStop
<1>2. CASE ChannelNext
  <2>1. QueueInv' /\ LinesInv' /\ CallInv'
    BY <1>2, QueueStep, LinesStep, CallStep
  <2>2. CASE outcomes' = outcomes
    <3>1. HasFailed' => Dead'
      BY <1>2, <2>2, DeadStep DEF ChannelInv, HasFailed
    <3> QED
      BY <2>1, <2>2, <3>1 DEF ChannelInv, IsSeq, FailStop
  <2>3. CASE outcomes' # outcomes
    <3>0. PICK o : Adds(o)
      BY <1>2, <2>3, OutcomeStep
    <3>1. /\ outcomes' = Append(outcomes, o)
          /\ o.result \in Replies => Arrived
          /\ o.result = "failed" => Dead'
      BY <3>0 DEF Adds
    <3>2. /\ IsSeq(outcomes') /\ Len(outcomes) \in Nat
          /\ DOMAIN outcomes = 1 .. Len(outcomes)
          /\ DOMAIN outcomes' = 1 .. (Len(outcomes) + 1)
          /\ \A i \in 1 .. Len(outcomes) : outcomes'[i] = outcomes[i]
          /\ outcomes'[Len(outcomes) + 1] = o
      BY <3>1, Appended DEF ChannelInv
    <3>3. HasFailed' => Dead'
      BY <1>2, <3>1, <3>2, DeadStep DEF ChannelInv, HasFailed
    <3>4. HasFailed => o.result \notin Replies
      BY <3>1, DeadSilence DEF ChannelInv
    <3>5. FailStop'
      <4> SUFFICES ASSUME NEW i \in DOMAIN outcomes', NEW j \in DOMAIN outcomes',
                          i < j, outcomes'[i].result = "failed"
                   PROVE  outcomes'[j].result \notin {"ok", "rejected", "declined"}
        BY DEF FailStop
      <4>1. i \in DOMAIN outcomes /\ outcomes'[i] = outcomes[i]
        BY <3>2
      <4>2. CASE j \in DOMAIN outcomes
        BY <3>2, <4>1, <4>2 DEF ChannelInv, FailStop
      <4>3. CASE j = Len(outcomes) + 1
        BY <3>2, <3>4, <4>1, <4>3 DEF HasFailed, Replies
      <4> QED
        BY <3>2, <4>2, <4>3
    <3> QED
      BY <2>1, <3>2, <3>3, <3>5 DEF ChannelInv
  <2> QED
    BY <2>2, <2>3
<1> QED
  BY <1>1, <1>2
-----------------------------------------------------------------------------
(* One request at a time.                                                  *)

LEMMA AppendedSet ==
  ASSUME NEW s, NEW e, IsSeq(s)
  PROVE  ToSet(Append(s, e)) = ToSet(s) \cup {e}
<1> DEFINE t == Append(s, e)
<1>1. /\ Len(s) \in Nat /\ DOMAIN s = 1 .. Len(s) /\ DOMAIN t = 1 .. (Len(s) + 1)
      /\ \A i \in 1 .. Len(s) : t[i] = s[i]
      /\ t[Len(s) + 1] = e
  BY Appended
<1> HIDE DEF t
<1>2. ToSet(t) = {t[i] : i \in 1 .. (Len(s) + 1)} /\ ToSet(s) = {s[i] : i \in 1 .. Len(s)}
  BY <1>1 DEF ToSet
<1>3. ToSet(t) \subseteq ToSet(s) \cup {e}
  BY <1>1, <1>2
<1>4. ToSet(s) \cup {e} \subseteq ToSet(t)
  <2>1. Len(s) + 1 \in 1 .. (Len(s) + 1) /\ 1 .. Len(s) \subseteq 1 .. (Len(s) + 1)
    BY <1>1
  <2> QED
    BY <1>1, <1>2, <2>1
<1>5. ToSet(t) = ToSet(s) \cup {e}
  BY <1>3, <1>4
<1> QED
  BY <1>5 DEF t

LEMMA ShortenedSet ==
  ASSUME NEW s, IsSeq(s), s # <<>>
  PROVE  ToSet(Tail(s)) \subseteq ToSet(s) /\ Head(s) \in ToSet(s)
<1> DEFINE t == Tail(s)
<1>1. /\ Len(s) \in Nat \ {0} /\ DOMAIN s = 1 .. Len(s) /\ Head(s) = s[1]
      /\ IsSeq(t) /\ Len(t) = Len(s) - 1
      /\ \A i \in 1 .. (Len(s) - 1) : t[i] = s[i + 1]
  BY Shortened DEF IsSeq
<1> HIDE DEF t
<1>2. DOMAIN t = 1 .. (Len(s) - 1)
  BY <1>1 DEF IsSeq
<1>3. ToSet(t) = {t[i] : i \in 1 .. (Len(s) - 1)} /\ ToSet(s) = {s[i] : i \in 1 .. Len(s)}
  BY <1>1, <1>2 DEF ToSet
<1>4. \A i \in 1 .. (Len(s) - 1) : i + 1 \in 1 .. Len(s)
  BY <1>1
<1>5. 1 \in 1 .. Len(s)
  BY <1>1
<1>6. ToSet(t) \subseteq ToSet(s)
  BY <1>1, <1>3, <1>4
<1>7. Head(s) \in ToSet(s)
  BY <1>1, <1>3, <1>5
<1> QED
  BY <1>6, <1>7 DEF t

\* A reply that is on its way after a step was before it, or was being served.
LEMMA Traffic ==
  ASSUME ChannelInv, ChannelNext, NEW frame \in Written', frame.kind = "reply"
  PROVE  frame \in Written \/ (frame = serving /\ serving # None /\ Respond)
<1> USE DEF ChannelInv
<1>1. CASE UNCHANGED <<sent, stdout, queue>>
  BY <1>1 DEF Written
<1>2. CASE Receive
  <2>1. ToSet(queue') \subseteq ToSet(queue) /\ stdout' = stdout /\ sent' = sent
    BY <1>2, ShortenedSet DEF Receive, Arrived, QueueInv, childVars
  <2> QED
    BY <2>1 DEF Written
<1>3. CASE ReadLine
  <2>1. /\ stdout # <<>> /\ stdout' = Tail(stdout) /\ sent' = sent
        /\ queue' = Append(queue, Head(stdout))
    BY <1>3 DEF ReadLine, childVars
  <2>2. ToSet(stdout') \subseteq ToSet(stdout) /\ Head(stdout) \in ToSet(stdout)
    BY <2>1, ShortenedSet DEF LinesInv
  <2>3. ToSet(queue') = ToSet(queue) \cup {Head(stdout)}
    BY <2>1, AppendedSet DEF QueueInv
  <2> QED
    BY <2>1, <2>2, <2>3 DEF Written
<1>4. CASE ReadEof
  <2>1. queue' = Append(queue, EOF) /\ stdout' = stdout /\ sent' = sent
    BY <1>4 DEF ReadEof, childVars
  <2>2. ToSet(queue') = ToSet(queue) \cup {EOF}
    BY <2>1, AppendedSet DEF QueueInv
  <2> QED
    BY <2>1, <2>2 DEF Written, EOF, Line
<1>5. CASE Respond
  <2>1. CASE child = "serving"
    <3>1. /\ stdout' = Append(stdout, serving) /\ sent' = Append(sent, serving)
          /\ queue' = queue /\ serving # None
      BY <1>5, <2>1 DEF Respond
    <3>2. ToSet(stdout') = ToSet(stdout) \cup {serving}
      BY <3>1, AppendedSet DEF LinesInv
    <3>3. ToSet(sent') = ToSet(sent) \cup {serving}
      BY <3>1, AppendedSet DEF LinesInv
    <3> QED
      BY <1>5, <3>1, <3>2, <3>3 DEF Written
  <2>2. CASE child # "serving"
    BY <1>1, <1>5, <2>2 DEF Respond
  <2> QED
    BY <2>1, <2>2
<1>6. CASE WriteNoise
  <2>1. PICK line \in ToSet(sent) \cup {Line("garbage"), Line("oversized")} :
            stdout' = Append(stdout, line)
    BY <1>6 DEF WriteNoise
  <2>2. ToSet(stdout') = ToSet(stdout) \cup {line} /\ sent' = sent /\ queue' = queue
    BY <1>6, <2>1, AppendedSet DEF LinesInv, WriteNoise, Fault
  <2> QED
    BY <2>1, <2>2 DEF Written, Line
<1>7. ClientStep => Receive \/ UNCHANGED <<sent, stdout, queue>>
  BY DEF ClientStep, Refused, SpawnFails, Misused, BeginShutdown, ShutdownAtOnce, Begin, Send,
     BeginWrite, FinishWrite, SendFails, FrameTooLong, TakeEof, TakeBroken, TakeMalformed,
     Greeted, Answered, Rejected, Expire, TimedOut, readerVars, childVars
<1>8. ASSUME NEW status, NEW body
      PROVE  Execute(status, body) \/ SpoilReply(body) => UNCHANGED <<sent, stdout, queue>>
  BY DEF Execute, Fault, SpoilReply, readerVars
<1>9. Die \/ Exit \/ ForgetReply \/ Decline \/ CloseStdout => UNCHANGED <<sent, stdout, queue>>
  BY DEF Die, Exit, Fault, ForgetReply, Decline, CloseStdout, childVars, readerVars
<1>10. ChildStep => Respond \/ WriteNoise \/ UNCHANGED <<sent, stdout, queue>>
  BY <1>8, <1>9 DEF ChildStep
<1> QED
  BY <1>1, <1>2, <1>3, <1>4, <1>5, <1>6, <1>7, <1>10 DEF ChannelNext

\* A channel that is sound after a step was sound before it.
LEMMA SoundBefore ==
  ASSUME ChannelInv, ChannelNext, Sound'
  PROVE  Sound
<1>1. ~closed
  BY ClosedStays DEF Sound
<1>2. CASE outcomes' = outcomes
  BY <1>1, <1>2 DEF Sound
<1>3. CASE outcomes' # outcomes
  <2>1. PICK o : outcomes' = Append(outcomes, o)
    BY <1>3, OutcomeStep DEF Adds
  <2>2. /\ DOMAIN outcomes = 1 .. Len(outcomes) /\ Len(outcomes) \in Nat
        /\ DOMAIN outcomes' = 1 .. (Len(outcomes) + 1)
        /\ \A i \in 1 .. Len(outcomes) : outcomes'[i] = outcomes[i]
    BY <2>1, Appended DEF ChannelInv
  <2> QED
    BY <1>1, <2>2 DEF Sound
<1> QED
  BY <1>2, <1>3

\* A call that fails leaves the channel unsound.
LEMMA FailUnsound ==
  ASSUME ChannelInv, NEW stop, Fail(stop)
  PROVE  ~Sound'
<1>1. CASE call.op = "SHUTDOWN"
  BY <1>1 DEF Fail, CloseDown, Sound
<1>2. CASE call.op # "SHUTDOWN"
  <2>1. outcomes' = Append(outcomes, Unanswered("failed"))
    BY <1>2 DEF Fail, EndCall
  <2>2. /\ DOMAIN outcomes' = 1 .. (Len(outcomes) + 1) /\ Len(outcomes) \in Nat
        /\ outcomes'[Len(outcomes) + 1] = Unanswered("failed")
    BY <2>1, Appended DEF ChannelInv
  <2>3. Len(outcomes) + 1 \in DOMAIN outcomes'
    BY <2>2
  <2> QED
    BY <2>2, <2>3 DEF Sound, Unanswered, Outcome
<1> QED
  BY <1>1, <1>2

\* What becomes of a call in a step.
LEMMA CallChanges ==
  ASSUME ChannelNext
  PROVE  \/ \E op, arg : Begin(op, arg)
         \/ BeginShutdown \/ Send \/ BeginWrite \/ FinishWrite \/ Greeted \/ Expire
         \/ call' = None \/ call' = call
<1>1. CASE ClientStep
  BY <1>1 DEF ClientStep, Refused, SpawnFails, Misused, ShutdownAtOnce, SendFails, FrameTooLong,
     TakeEof, TakeBroken, TakeMalformed, Answered, Rejected, TimedOut, Fail, CloseDown, EndCall
<1>2. CASE ChildStep \/ ReadLine \/ ReadEof
  BY <1>2 DEF ChildStep, Execute, Respond, Die, Exit, Fault, WriteNoise, ForgetReply, Decline,
     CloseStdout, SpoilReply, ReadLine, ReadEof, clientVars
<1> QED
  BY <1>1, <1>2 DEF ChannelNext

\* A call keeps its shape, and the requests are numbered.
LEMMA ShapeStep ==
  ASSUME SerialInv, ChannelNext
  PROVE  counter' \in Nat /\ CallShaped' /\ ServingShaped'
<1>1. counter' = counter \/ counter' = counter + 1
  <2>1. CASE ClientStep
    BY <2>1 DEF ClientStep, Refused, SpawnFails, Misused, BeginShutdown, ShutdownAtOnce, Begin,
       Send, BeginWrite, FinishWrite, SendFails, FrameTooLong, TakeEof, TakeBroken,
       TakeMalformed, Greeted, Answered, Rejected, Receive, Expire, TimedOut
  <2>2. CASE ChildStep \/ ReadLine \/ ReadEof
    BY <2>2 DEF ChildStep, Execute, Respond, Die, Exit, Fault, WriteNoise, ForgetReply, Decline,
       CloseStdout, SpoilReply, ReadLine, ReadEof, clientVars
  <2> QED
    BY <2>1, <2>2 DEF ChannelNext
<1>0. counter' \in Nat
  BY <1>1 DEF SerialInv
<1>8. ServingShaped'
  <2>1. CASE \E status, body : Execute(status, body)
    BY <2>1 DEF Execute, ServingShaped, Reply
  <2>2. CASE Decline \/ \E body : SpoilReply(body)
    <3>1. serving = Reply(serving.id, serving.op, serving.status, serving.body)
      BY <2>2 DEF Decline, SpoilReply, SerialInv, ServingShaped
    <3>2. \/ serving' = [serving EXCEPT !.status = "rejected", !.body = None]
          \/ \E body : serving' = [serving EXCEPT !.body = body]
      BY <2>2 DEF Decline, SpoilReply
    <3>3. CASE serving' = [serving EXCEPT !.status = "rejected", !.body = None]
      <4>0. ASSUME NEW i, NEW o, NEW t, NEW b, serving = Reply(i, o, t, b)
            PROVE  serving' = Reply(i, o, "rejected", None)
        BY <3>3, <4>0 DEF Reply
      <4>1. serving' = Reply(serving.id, serving.op, "rejected", None)
        BY <3>1, <4>0
      <4> QED
        BY <4>1 DEF ServingShaped, Reply
    <3>4. ASSUME NEW body, serving' = [serving EXCEPT !.body = body] PROVE ServingShaped'
      <4>1. serving' = Reply(serving.id, serving.op, serving.status, body)
        BY <3>1, <3>4 DEF Reply
      <4> QED
        BY <4>1 DEF ServingShaped, Reply
    <3> QED
      BY <3>2, <3>3, <3>4
  <2>3. serving' = serving \/ serving' = None => ServingShaped'
    BY DEF SerialInv, ServingShaped
  <2>4. CASE ClientStep \/ ReadLine \/ ReadEof
    BY <2>3, <2>4 DEF ClientStep, Refused, SpawnFails, Misused, BeginShutdown, ShutdownAtOnce,
       Begin, Send, BeginWrite, FinishWrite, SendFails, FrameTooLong, TakeEof, TakeBroken,
       TakeMalformed, Greeted, Answered, Rejected, Receive, Expire, TimedOut, ReadLine, ReadEof,
       childVars
  <2>5. CASE Respond \/ Die \/ Exit \/ WriteNoise \/ ForgetReply \/ CloseStdout
    BY <2>3, <2>5 DEF Respond, Die, Exit, WriteNoise, ForgetReply, CloseStdout, childVars
  <2> QED
    BY <2>1, <2>2, <2>4, <2>5 DEF ChannelNext, ChildStep
<1> SUFFICES CallShaped'
  BY <1>0, <1>8
<1>2. ASSUME NEW op, NEW arg, NEW asking, asking \in {"HELLO", op},
             call' = [op |-> op, arg |-> arg, id |-> 0, phase |-> "send", asking |-> asking]
      PROVE  CallShaped'
  <2>1. /\ call'.op = op /\ call'.arg = arg /\ call'.id = 0 /\ call'.phase = "send"
        /\ call'.asking = asking
    BY <1>2
  <2> QED
    BY <1>2, <2>1 DEF CallShaped
<1>3. CASE \E op, arg : Begin(op, arg)
  <2>1. PICK op, arg : Begin(op, arg)
    BY <1>3
  <2> DEFINE asking == IF handshake THEN op ELSE "HELLO"
  <2>2. call' = [op |-> op, arg |-> arg, id |-> 0, phase |-> "send", asking |-> asking]
    BY <2>1 DEF Begin
  <2>3. asking \in {"HELLO", op}
    OBVIOUS
  <2> HIDE DEF asking
  <2> QED
    BY <1>2, <2>2, <2>3
<1>4. CASE BeginShutdown
  BY <1>2, <1>4 DEF BeginShutdown
<1>5. CASE Send \/ BeginWrite \/ FinishWrite \/ Greeted \/ Expire
  <2>1. call # None
    BY <1>5 DEF Send, BeginWrite, FinishWrite, Sending, Writing, Greeted, Receive, Arrived,
       Expire
  <2>2. \/ call' = [call EXCEPT !.id = counter + 1, !.phase = "wait"]
        \/ call' = [call EXCEPT !.id = counter + 1, !.phase = "write"]
        \/ call' = [call EXCEPT !.phase = "wait"]
        \/ call' = [call EXCEPT !.asking = call.op, !.phase = "send"]
        \/ call' = [call EXCEPT !.phase = "expired"]
    BY <1>5 DEF Send, BeginWrite, FinishWrite, Greeted, Expire
  <2>3. call = [op |-> call.op, arg |-> call.arg, id |-> call.id,
                phase |-> call.phase, asking |-> call.asking]
    BY <2>1 DEF SerialInv, CallShaped
  <2>4. PICK id, phase, asking :
            /\ call' = [op |-> call.op, arg |-> call.arg, id |-> id,
                        phase |-> phase, asking |-> asking]
            /\ asking \in {call.asking, call.op}
            /\ phase \in {"send", "write", "wait", "expired"}
    BY <2>2, <2>3
  <2>5. /\ call'.op = call.op /\ call'.arg = call.arg /\ call'.id = id /\ call'.phase = phase
        /\ call'.asking = asking
    BY <2>4
  <2>6. call.asking \in {"HELLO", call.op}
    BY <2>1 DEF SerialInv, CallShaped
  <2> QED
    BY <2>4, <2>5, <2>6 DEF CallShaped
<1>6. call' = None \/ call' = call => CallShaped'
  BY DEF SerialInv, CallShaped
<1>7. \/ \E op, arg : Begin(op, arg)
      \/ BeginShutdown \/ Send \/ BeginWrite \/ FinishWrite \/ Greeted \/ Expire
      \/ call' = None \/ call' = call
  BY CallChanges
<1> QED
  BY <1>3, <1>4, <1>5, <1>6, <1>7

\* An answer taken is one to the last request.
LEMMA TakenIsFresh ==
  ASSUME ChannelInv, OneRequest, NEW status, Status(status)
  PROVE  /\ Awaiting /\ Head(queue) \in Fresh /\ Head(queue) \in Replied
         /\ stdin = <<>> /\ serving = None
<1>1. Awaiting /\ queue # <<>> /\ Head(queue).kind = "reply" /\ Head(queue).id = call.id
  BY DEF Status, Arrived, Bound, Awaiting
<1>2. Head(queue) \in Written
  BY <1>1, ShortenedSet DEF ChannelInv, QueueInv, Written
<1>3. Head(queue) \in Fresh
  BY <1>1, <1>2 DEF Fresh, IsFresh, OneRequest
<1> QED
  BY <1>1, <1>3 DEF OneRequest, Replied

\* The replies to the last request, after a step that is no request.
LEMMA FreshStep ==
  ASSUME ChannelInv, ChannelNext, OneRequest, counter' = counter
  PROVE  /\ \A frame \in Fresh' : frame \in Replied
         /\ ~Respond => Fresh' \subseteq Fresh
<1> SUFFICES ASSUME NEW frame \in Fresh'
             PROVE  frame \in Replied /\ (~Respond => frame \in Fresh)
  OBVIOUS
<1>1. frame \in Written' /\ frame.kind = "reply" /\ frame.id = counter
  BY DEF Fresh, IsFresh
<1>2. frame \in Written \/ (frame = serving /\ serving # None /\ Respond)
  BY <1>1, Traffic
<1> QED
  BY <1>1, <1>2 DEF Fresh, IsFresh, Replied
\* A request and a step of it leave the reply to be expected from the child.
LEMMA OneRequestStep ==
  ASSUME NoneIsNoCall, ChannelInv, SerialInv, ChannelNext, Sound, Sound'
  PROVE  OneRequest'
<1>0. OneRequest /\ counter \in Nat /\ CallShaped
  BY DEF SerialInv
<1>1. \A frame \in Written' : frame.kind = "reply" => frame.id \in 0 .. counter
  BY <1>0, Traffic DEF OneRequest, IsFresh
<1>2. ASSUME ~Awaiting, ~Awaiting', ~Writing', UNCHANGED <<stdin, serving>>,
             counter' \in {counter, counter + 1}
      PROVE  OneRequest'
  BY <1>0, <1>1, <1>2 DEF OneRequest
<1>3. ASSUME stdin = <<>>, serving = None, ~Awaiting', ~Writing',
             UNCHANGED <<stdin, serving, counter>>
      PROVE  OneRequest'
  BY <1>0, <1>1, <1>3 DEF OneRequest
<1>4. CASE Refused \/ SpawnFails \/ Misused \/ ShutdownAtOnce \/ BeginShutdown
             \/ \E op, arg : Begin(op, arg)
  <2>1. ~Awaiting /\ ~Awaiting' /\ ~Writing' /\ UNCHANGED <<stdin, serving, counter>>
    BY <1>4 DEF Refused, SpawnFails, Misused, ShutdownAtOnce, BeginShutdown, Begin, MayCall,
       Awaiting, Writing, childVars
  <2> QED
    BY <1>2, <2>1
<1>5. CASE FrameTooLong \/ SendFails
  <2>1. ~Awaiting /\ ~Awaiting' /\ ~Writing' /\ UNCHANGED <<stdin, serving>>
    BY <1>5 DEF FrameTooLong, SendFails, Sending, Writing, Fail, CloseDown, EndCall, Awaiting,
       childVars
  <2>2. counter' \in {counter, counter + 1}
    BY <1>5 DEF FrameTooLong, SendFails
  <2> QED
    BY <1>2, <2>1, <2>2
<1>6. CASE Send
  <2>1. ~Awaiting /\ call # None /\ stdin = <<>> /\ serving = None
    BY <1>0, <1>6 DEF Send, Sending, Awaiting, OneRequest
  <2>2. /\ counter' = counter + 1 /\ serving' = None
        /\ stdin' = <<Request(counter + 1, call.asking, call.arg)>>
    BY <1>6, <2>1 DEF Send
  <2>3. call' = [call EXCEPT !.id = counter + 1, !.phase = "wait"]
    BY <1>6 DEF Send
  <2>4. /\ Awaiting' /\ ~Writing' /\ call'.id = counter'
        /\ call'.asking = call.asking /\ call'.arg = call.arg
    <3>1. call' = [op |-> call.op, arg |-> call.arg, id |-> counter', phase |-> "wait",
                   asking |-> call.asking]
      BY <1>0, <2>1, <2>2, <2>3 DEF CallShaped
    <3>2. call' # None
      BY <3>1 DEF NoneIsNoCall
    <3> QED
      BY <3>1, <3>2 DEF Awaiting, Writing
  <2>5. Fresh' = {} /\ Replied' = {}
    BY <1>0, <1>1, <2>2 DEF Fresh, IsFresh, Replied
  <2>6. \A frame \in Written' : frame.kind = "reply" => frame.id \in 0 .. counter'
    BY <1>0, <1>1, <2>2
  <2> QED
    BY <2>2, <2>4, <2>5, <2>6 DEF OneRequest
<1>16. CASE BeginWrite
  <2>1. ~Awaiting /\ call # None /\ counter' = counter + 1 /\ UNCHANGED <<stdin, serving>>
    BY <1>16 DEF BeginWrite, Sending, Awaiting, childVars
  <2>2. call' = [call EXCEPT !.id = counter + 1, !.phase = "write"]
    BY <1>16 DEF BeginWrite
  <2>3. ~Awaiting' /\ call'.id = counter'
    BY <1>0, <2>1, <2>2 DEF CallShaped, Awaiting
  <2>4. Fresh' = {}
    BY <1>0, <1>1, <2>1 DEF Fresh, IsFresh
  <2>5. stdin' = <<>> /\ serving' = None
    BY <1>0, <2>1 DEF OneRequest
  <2>6. \A frame \in Written' : frame.kind = "reply" => frame.id \in 0 .. counter'
    BY <1>0, <1>1, <2>1
  <2> QED
    BY <2>3, <2>4, <2>5, <2>6 DEF OneRequest
<1>17. CASE FinishWrite
  <2>1. /\ Writing /\ ~Awaiting /\ call # None /\ call.id = counter /\ Fresh = {}
        /\ stdin = <<>> /\ serving = None
    BY <1>0, <1>17 DEF FinishWrite, Writing, Awaiting, OneRequest
  <2>2. /\ UNCHANGED <<counter, serving, sent, stdout, queue>>
        /\ stdin' = <<Request(counter, call.asking, call.arg)>>
        /\ call' = [call EXCEPT !.phase = "wait"]
    BY <1>17, <2>1 DEF FinishWrite, readerVars
  <2>3. /\ Awaiting' /\ ~Writing' /\ call'.id = counter'
        /\ call'.asking = call.asking /\ call'.arg = call.arg
    <3>1. call' = [op |-> call.op, arg |-> call.arg, id |-> call.id, phase |-> "wait",
                   asking |-> call.asking]
      BY <1>0, <2>1, <2>2 DEF CallShaped
    <3>2. call' # None
      BY <3>1 DEF NoneIsNoCall
    <3> QED
      BY <2>1, <2>2, <3>1, <3>2 DEF Awaiting, Writing
  <2>4. Fresh' = {} /\ Replied' = {}
    BY <2>1, <2>2 DEF Fresh, IsFresh, Written, Replied
  <2> QED
    BY <1>0, <1>1, <2>1, <2>2, <2>3, <2>4 DEF OneRequest
<1>7. CASE TakeEof \/ TakeBroken \/ TakeMalformed \/ TimedOut
  BY <1>7, FailUnsound DEF TakeEof, TakeBroken, TakeMalformed, TimedOut
<1>8. CASE Greeted \/ Answered \/ Rejected
  <2>1. Status("ok") \/ Status("rejected")
    BY <1>8 DEF Greeted, Answered, Rejected
  <2>2. stdin = <<>> /\ serving = None
    BY <1>0, <2>1, TakenIsFresh
  <2>3. UNCHANGED <<stdin, serving, counter>>
    BY <1>8 DEF Greeted, Answered, Rejected, Receive, childVars
  <2>4. ~Awaiting' /\ ~Writing'
    <3>1. CASE Greeted
      <4>1. call' = [call EXCEPT !.asking = call.op, !.phase = "send"] /\ call # None
        BY <3>1 DEF Greeted, Receive, Arrived
      <4> QED
        BY <1>0, <4>1 DEF Awaiting, Writing, CallShaped
    <3>2. CASE Answered \/ Rejected
      BY <3>2 DEF Answered, Rejected, CloseDown, EndCall, Awaiting, Writing
    <3> QED
      BY <1>8, <3>1, <3>2
  <2> QED
    BY <1>3, <2>2, <2>3, <2>4
<1>9. ASSUME counter' = counter, Awaiting = Awaiting', Awaiting' => call'.id = call.id,
             Awaiting' => call'.asking = call.asking /\ call'.arg = call.arg,
             Writing' => Writing /\ call'.id = call.id,
             stdin' = stdin, serving' \in {serving, None}, Fresh' \subseteq Fresh
      PROVE  OneRequest'
  <2>1. Replied' \subseteq Replied
    BY <1>9 DEF Replied
  <2> QED
    BY <1>0, <1>1, <1>9, <2>1 DEF OneRequest, IsFresh
<1>10. CASE Respond
  <2>1. /\ serving # None /\ serving' = None /\ UNCHANGED <<counter, call, stdin>>
    BY <1>10 DEF Respond, clientVars
  <2>2. Awaiting' = Awaiting /\ Awaiting /\ ~Writing' /\ stdin = <<>>
    BY <1>0, <2>1 DEF Awaiting, Writing, OneRequest
  <2>3. Replied' \subseteq Replied
    BY <1>0, <2>1, FreshStep DEF Replied
  <2> QED
    BY <1>0, <1>1, <2>1, <2>2, <2>3 DEF OneRequest
<1>11. CASE Expire
  <2>1. /\ call # None /\ call.phase = "wait" /\ call' = [call EXCEPT !.phase = "expired"]
        /\ UNCHANGED <<counter, stdin, serving, sent, stdout, queue>>
    BY <1>11 DEF Expire, childVars, readerVars
  <2>2. /\ Awaiting /\ Awaiting' /\ ~Writing' /\ call'.id = call.id
        /\ call'.asking = call.asking /\ call'.arg = call.arg
    <3>1. call' = [op |-> call.op, arg |-> call.arg, id |-> call.id, phase |-> "expired",
                   asking |-> call.asking]
      BY <1>0, <2>1 DEF CallShaped
    <3>2. call' # None
      BY <3>1 DEF NoneIsNoCall
    <3> QED
      BY <2>1, <3>1, <3>2 DEF Awaiting, Writing
  <2>3. Fresh' = Fresh
    BY <2>1 DEF Fresh, IsFresh, Written
  <2> QED
    BY <1>9, <2>1, <2>2, <2>3
<1>12. CASE ~Respond /\ (Die \/ Exit \/ WriteNoise \/ ForgetReply \/ CloseStdout
                           \/ ReadLine \/ ReadEof)
  <2>1. UNCHANGED <<counter, call, stdin>> /\ serving' \in {serving, None}
    BY <1>12 DEF Die, Exit, WriteNoise, ForgetReply, CloseStdout, ReadLine, ReadEof, Fault,
       clientVars, childVars
  <2>2. Awaiting' = Awaiting /\ Writing' = Writing
    BY <2>1 DEF Awaiting, Writing
  <2>3. Fresh' \subseteq Fresh
    BY <1>0, <1>12, <2>1, FreshStep
  <2> QED
    BY <1>9, <2>1, <2>2, <2>3
<1>13. ASSUME UNCHANGED <<counter, call, sent, stdout, queue>>, Awaiting, stdin' = <<>>,
Fresh = {},
              serving' = None \/ (IsFresh(serving') /\ serving'.op = call.asking)
       PROVE  OneRequest'
  <2>1. Awaiting' /\ ~Writing' /\ Fresh' = {} /\ Replied' = {serving'} \ {None}
    BY <1>13 DEF Awaiting, Writing, Fresh, IsFresh, Written, Replied
  <2>2. \A frame \in Replied' : frame.op = call'.asking
    BY <1>13, <2>1
  <2>3. serving' # None => IsFresh(serving)'
    BY <1>13 DEF IsFresh
  <2> QED
    BY <1>0, <1>1, <1>13, <2>1, <2>2, <2>3 DEF OneRequest
<1>14. CASE \E status, body : Execute(status, body)
  <2>1. PICK status, body : Execute(status, body)
    BY <1>14
  <2>2. /\ stdin # <<>> /\ stdin' = Tail(stdin)
        /\ serving' = Reply(Head(stdin).id, Head(stdin).op, status, body)
        /\ UNCHANGED <<counter, call, sent, stdout, queue>>
    BY <2>1 DEF Execute, readerVars, clientVars
  <2>3. Awaiting /\ Fresh = {} /\ stdin = <<Request(counter, call.asking, call.arg)>>
    BY <1>0, <2>2 DEF OneRequest
  <2>4. stdin' = <<>> /\ Head(stdin) = Request(counter, call.asking, call.arg)
    BY <2>2, <2>3
  <2>5. IsFresh(serving') /\ serving'.op = call.asking
    BY <2>2, <2>4 DEF IsFresh, Reply, Request
  <2> QED
    BY <1>13, <2>2, <2>3, <2>4, <2>5
<1>15. CASE Decline \/ \E body : SpoilReply(body)
  <2>1. serving # None /\ UNCHANGED <<counter, call, stdin, sent, stdout, queue>>
    BY <1>15 DEF Decline, SpoilReply, Fault, clientVars
  <2>2. Awaiting /\ stdin = <<>> /\ Fresh = {} /\ IsFresh(serving) /\ serving \in Replied
    BY <1>0, <2>1 DEF OneRequest, Replied
  <2>3. serving = Reply(serving.id, serving.op, serving.status, serving.body)
    BY <2>1 DEF SerialInv, ServingShaped
  <2>4. \/ serving' = [serving EXCEPT !.status = "rejected", !.body = None]
        \/ \E body : serving' = [serving EXCEPT !.body = body]
    BY <1>15 DEF Decline, SpoilReply
  <2>5. serving'.kind = serving.kind /\ serving'.id = serving.id /\ serving'.op = serving.op
    BY <2>3, <2>4 DEF Reply
  <2>6. IsFresh(serving') /\ serving'.op = call.asking
    BY <1>0, <2>2, <2>5 DEF IsFresh, OneRequest
  <2> QED
    BY <1>13, <2>1, <2>2, <2>6
<1> QED
  BY <1>4, <1>5, <1>6, <1>7, <1>8, <1>10, <1>11, <1>12, <1>14, <1>15, <1>16, <1>17
  DEF ChannelNext, ClientStep, ChildStep

\* Every step of a channel keeps its requests apart.
LEMMA SerialStep ==
  ASSUME NoneIsNoCall, ChannelInv, SerialInv, [ChannelNext]_channelVars
  PROVE  SerialInv'
<1>1. CASE UNCHANGED channelVars
  BY <1>1 DEF channelVars, childVars, readerVars, clientVars, SerialInv, CallShaped,
     ServingShaped, Sound, OneRequest, Awaiting, Writing, Fresh, IsFresh, Written, Replied
<1>2. CASE ChannelNext
  BY <1>2, ShapeStep, SoundBefore, OneRequestStep DEF SerialInv
<1> QED
  BY <1>1, <1>2

LEMMA SerialStarts == ChannelInit => SerialInv
<1> SUFFICES ASSUME ChannelInit PROVE SerialInv
  OBVIOUS
<1>1. Written = {}
  BY DEF ChannelInit, Written, ToSet
<1> QED
  BY <1>1 DEF ChannelInit, SerialInv, CallShaped, ServingShaped, OneRequest, Awaiting, Writing
===============================================================================
