------------------------ MODULE ReceiverSessionProofs ------------------------
(***************************************************************************)
(* Proofs about a receiver session, for any operations, values, channel    *)
(* capacities and any number of reconnects, failures and rechecks.         *)
(***************************************************************************)
EXTENDS ReceiverSession, TLAPS

\* What an appended element changes in a sequence.
LEMMA AppendFacts ==
  ASSUME NEW S, NEW s \in Seq(S), NEW e \in S
  PROVE  /\ Append(s, e) \in Seq(S)
         /\ Len(Append(s, e)) = Len(s) + 1
         /\ \A i \in 1..Len(s) : Append(s, e)[i] = s[i]
         /\ Append(s, e)[Len(s) + 1] = e
OBVIOUS

\* What is left of a sequence when its first element is taken.
LEMMA TailFacts ==
  ASSUME NEW S, NEW s \in Seq(S), s # <<>>
  PROVE  /\ Tail(s) \in Seq(S)
         /\ Head(s) = s[1] /\ 1 \in 1..Len(s)
         /\ Len(Tail(s)) = Len(s) - 1
         /\ \A i \in 1..Len(Tail(s)) : Tail(s)[i] = s[i + 1] /\ i + 1 \in 1..Len(s)
OBVIOUS

\* What stands once in a queue stands once in the rest of it.
LEMMA TailDistinct ==
  ASSUME NEW S, NEW T, NEW s \in Seq(S), s # <<>>,
         \A i, j \in 1..Len(s) : s[i] \in T /\ s[i] = s[j] => i = j
  PROVE  \A i, j \in 1..Len(Tail(s)) :
            Tail(s)[i] \in T /\ Tail(s)[i] = Tail(s)[j] => i = j
<1> SUFFICES ASSUME NEW i \in 1..Len(Tail(s)), NEW j \in 1..Len(Tail(s)),
                    Tail(s)[i] \in T, Tail(s)[i] = Tail(s)[j]
             PROVE  i = j
  OBVIOUS
<1>1. /\ Tail(s)[i] = s[i + 1] /\ i + 1 \in 1..Len(s)
      /\ Tail(s)[j] = s[j + 1] /\ j + 1 \in 1..Len(s)
  BY TailFacts
<1>2. i + 1 = j + 1
  BY <1>1
<1>3. QED
  BY <1>2

-----------------------------------------------------------------------------
(* The write of an operation: where its request is, and what its caller    *)
(* can have been told.                                                     *)

\* What an operation is doing while it runs.
OpSteps == {"preflight", "dispatch", "ambiguous", "confirm"}

\* The answers of a running session: Admissions, and these.
Told == {"already", "rejected", "cancelled"}

\* The values of what the writes depend on.
SessionType ==
  /\ tpc \in {"connected", "idle", "write", "read", "lost", "reconnect",
              "reconnected", "stopped"}
  /\ generation \in Nat
  /\ apc \in {"ask", "wait", "loop", "pause", "stopped"}
  /\ why \in {"none", "sync"} \cup OpSteps
  /\ commands \in Seq(Ops \cup {"close"})
  /\ calls \in [Ops -> Denials \cup Admissions \cup {"idle", "queued", "running"}]
  /\ sends \in [Ops -> Seq(Nat)]

\* The actor waits for one request at a time, which is in the channel, with the
\* transport, or answered; only a write under way is a dispatch.
Asked == IF why = "dispatch" THEN Dispatch(aop) ELSE Query

RequestInv ==
  /\ tpc \in {"write", "read"} <=> treq # NoReq
  /\ tpc = "read" => treq = Query
  /\ IF apc = "wait"
     THEN \/ req = Asked /\ treq = NoReq /\ answer = NoAnswer
          \/ req = NoReq /\ treq = Asked /\ answer = NoAnswer
          \/ req = NoReq /\ treq = NoReq /\ answer # NoAnswer
     ELSE req = NoReq /\ treq = NoReq /\ answer = NoAnswer

\* The actor runs one operation, through the steps that follow its preflight.
ActorInv ==
  /\ apc \in {"loop", "stopped"} => why = "none"
  /\ apc = "ask" => why \notin {"none", "dispatch"}
  /\ apc = "wait" => why # "none"
  /\ apc = "pause" => why = "confirm"
  /\ why \in OpSteps => aop \in Ops /\ calls[aop] = "running"
  /\ \A o \in Ops : calls[o] = "running" => why \in OpSteps /\ aop = o

\* A call waits in the channel once, and only until it is received.
QueueInv ==
  /\ \A i \in 1..Len(commands) : commands[i] \in Ops => calls[commands[i]] = "queued"
  /\ \A i, j \in 1..Len(commands) :
       commands[i] \in Ops /\ commands[i] = commands[j] => i = j

\* The command is written when the write was requested and answered.
Wrote(o) ==
  \/ calls[o] \in Admissions
  \/ calls[o] = "running" /\ why \in {"ambiguous", "confirm"}
  \/ calls[o] = "running" /\ why = "dispatch" /\ answer # NoAnswer

SendInv ==
  \A o \in Ops : /\ Wrote(o) => Len(sends[o]) = 1
                 /\ ~Wrote(o) /\ ~Aborted(o) => sends[o] = <<>>
                 /\ Aborted(o) => Len(sends[o]) <= 1

SessionInv == SessionType /\ RequestInv /\ ActorInv /\ QueueInv /\ SendInv

\* Whatever was written of an operation was written once.
LEMMA AtMostOnce ==
  ASSUME SendInv, NEW o \in Ops
  PROVE  Len(sends[o]) <= 1
<1>1. CASE Aborted(o)
  BY <1>1 DEF SendInv
<1>2. CASE ~Aborted(o) /\ Wrote(o)
  <2>1. Len(sends[o]) = 1
    BY <1>2 DEF SendInv
  <2>2. QED  BY <2>1
<1>3. CASE ~Aborted(o) /\ ~Wrote(o)
  <2>1. sends[o] = <<>>
    BY <1>3 DEF SendInv
  <2>2. QED  BY <2>1
<1>4. QED  BY <1>1, <1>2, <1>3

\* The forms of requests and answers are told apart by their kind.
LEMMA Kinds ==
  /\ Query # NoReq /\ \A o : Dispatch(o) # NoReq /\ Dispatch(o) # Query
  /\ Failed # NoAnswer /\ Written # NoAnswer /\ Written # Failed
  /\ \A v, g, r : [kind |-> "line", value |-> v, gen |-> g, reply |-> r]
                    \notin {NoAnswer, Failed}
  /\ Query.kind = "query" /\ \A o : Dispatch(o).kind = "dispatch" /\ Dispatch(o).op = o
BY DEF Query, Dispatch, NoReq, NoAnswer, Failed, Written

\* It holds of a session just opened.
LEMMA SessionInvInit == Init => SessionInv
BY DEF Init, SessionInv, SessionType, RequestInv, ActorInv, QueueInv, SendInv, Wrote,
   OpSteps, Told, Admissions

\* A step of the transport keeps it: the transport takes the request, writes it
\* at most once and then answers.
LEMMA SessionInvTransport ==
  ASSUME SessionInv, Transport
  PROVE  SessionInv'
<1> USE DEF SessionInv, SessionType, RequestInv, ActorInv, QueueInv, SendInv, Wrote,
            Aborted, transportVars, channelVars, stateVars, actorVars, clientVars, netVars
<1>1. CASE /\ UNCHANGED <<treq, generation, req, answer, sends, apc, why, aop,
                          commands, calls>>
           /\ tpc \notin {"write", "read"}
           /\ tpc' \in {"idle", "lost", "reconnect"}
  BY <1>1 DEF Asked
<1>2. CASE PublishConnected \/ ReadFails \/ PublishDisconnected \/ ConnectFails
           \/ PublishReconnected
  BY <1>1, <1>2 DEF PublishConnected, ReadFails, PublishDisconnected, ConnectFails,
     PublishReconnected
<1>3. CASE TakeRequest
  BY <1>3, Kinds DEF TakeRequest, Asked
<1>4. CASE ReadLine
  BY <1>4 DEF ReadLine, Asked
<1>5. CASE ConnectSucceeds
  BY <1>5 DEF ConnectSucceeds, Asked
<1>6. ASSUME tpc = "write", Sent(treq), treq.kind = "dispatch", treq' = NoReq,
             answer' \in {Written, Failed}, tpc' \in {"idle", "lost"},
             UNCHANGED <<generation, req, apc, why, aop, commands, calls>>
      PROVE  SessionInv'
  <2>1. /\ treq = Dispatch(aop) /\ why = "dispatch" /\ apc = "wait"
        /\ req = NoReq /\ answer = NoAnswer /\ aop \in Ops /\ calls[aop] = "running"
    BY <1>6, Kinds DEF Asked, OpSteps
  <2>2. sends[aop] = <<>>
    BY <2>1 DEF Admissions, OpSteps
  <2>3. sends' = [sends EXCEPT ![aop] = Append(<<>>, generation)]
    BY <1>6, <2>1, <2>2, Kinds DEF Sent
  <2>4. Append(<<>>, generation) \in Seq(Nat) /\ Len(Append(<<>>, generation)) = 1
    OBVIOUS
  <2>5. sends' \in [Ops -> Seq(Nat)] /\ Len(sends'[aop]) = 1
    BY <2>1, <2>3, <2>4
  <2>6. \A o \in Ops \ {aop} : sends'[o] = sends[o] /\ calls[o] # "running"
    BY <2>1, <2>3
  <2>7. SendInv'
    <3>1. Wrote(aop)'
      BY <1>6, <2>1, Kinds
    <3>2. \A o \in Ops \ {aop} : Wrote(o)' <=> Wrote(o)
      BY <1>6, <2>6
    <3>3. QED
      BY <1>6, <2>1, <2>5, <2>6, <3>1, <3>2
  <2>8. QED
    BY <1>6, <2>1, <2>5, <2>7, Kinds
<1>7. CASE WriteCompletes
  <2>1. CASE treq.kind = "dispatch"
    BY <1>6, <1>7, <2>1 DEF WriteCompletes
  <2>2. CASE treq.kind # "dispatch"
    <3>1. treq = Query
      BY <1>7, <2>2, Kinds DEF WriteCompletes, Asked
    <3>2. QED
      BY <1>7, <2>2, <3>1, Kinds DEF WriteCompletes, Sent, Asked
  <2>3. QED  BY <2>1, <2>2
<1>8. ASSUME treq = Query, tpc \in {"write", "read"}, UNCHANGED sends, treq' = NoReq,
             answer' # NoAnswer, tpc' \in {"idle", "lost"},
             UNCHANGED <<generation, req, apc, why, aop, commands, calls>>
      PROVE  SessionInv'
  <2>1. apc = "wait" /\ why # "dispatch" /\ req = NoReq
    BY <1>8, Kinds DEF Asked
  <2>2. QED
    BY <1>8, <2>1, Kinds DEF Asked
<1>9. CASE WriteFails
  <2>1. CASE treq.kind = "dispatch"
    BY <1>6, <1>9, <2>1 DEF WriteFails, TellFailure
  <2>2. CASE treq.kind # "dispatch"
    <3>1. treq = Query
      BY <1>9, <2>2, Kinds DEF WriteFails, Asked
    <3>2. QED
      BY <1>8, <1>9, <2>2, <3>1, Kinds DEF WriteFails, TellFailure, Sent
  <2>3. QED  BY <2>1, <2>2
<1>10. CASE ReadResponse
  BY <1>8, <1>10, Kinds DEF ReadResponse
<1>11. CASE ResponseFails
  BY <1>8, <1>11, Kinds DEF ResponseFails, TellFailure
<1>12. QED
  BY <1>2, <1>3, <1>4, <1>5, <1>7, <1>9, <1>10, <1>11 DEF Transport

\* The end of an operation: its caller is told of a write exactly when there
\* was one.
LEMMA ReplyKeeps ==
  ASSUME SessionInv, NEW outcome, Reply(aop, outcome), why \in OpSteps,
         apc = "wait", answer # NoAnswer, answer' = NoAnswer,
         Wrote(aop) => outcome \in Admissions, ~Wrote(aop) => outcome \in Told,
         UNCHANGED <<tpc, treq, generation, req, commands, sends>>
  PROVE  SessionInv'
<1> USE DEF SessionInv, SessionType, RequestInv, ActorInv, QueueInv, SendInv, Aborted
<1>1. /\ aop \in Ops /\ calls[aop] = "running"
      /\ calls' = [calls EXCEPT ![aop] = outcome]
      /\ apc' = "loop" /\ why' = "none"
      /\ outcome \in Told \cup Admissions
  BY DEF Reply
<1>2. \A o \in Ops \ {aop} : calls'[o] = calls[o] /\ calls[o] # "running"
  BY <1>1
<1>3. \A i \in 1..Len(commands) : commands[i] # aop
  BY <1>1
<1>4. RequestInv' /\ ActorInv' /\ QueueInv'
  BY <1>1, <1>2, <1>3 DEF Told, Admissions, OpSteps
<1>5. SendInv'
  <2>1. \A o \in Ops \ {aop} : Wrote(o)' <=> Wrote(o)
    BY <1>1, <1>2 DEF Wrote
  <2>2. Wrote(aop) => calls'[aop] \in Admissions
    BY <1>1
  <2>3. ~Wrote(aop) => calls'[aop] \in Told
    BY <1>1
  <2>4. SUFFICES ASSUME NEW o \in Ops
                 PROVE  /\ Wrote(o)' => Len(sends[o]) = 1
                        /\ ~Wrote(o)' /\ ~Aborted(o)' => sends[o] = <<>>
                        /\ Aborted(o)' => Len(sends[o]) <= 1
    OBVIOUS
  <2>5. CASE o = aop
    <3>1. Wrote(o)' <=> calls'[o] \in Admissions
      BY <1>1, <2>5 DEF Wrote
    <3>2. QED
      BY <1>1, <2>2, <2>3, <2>5, <3>1 DEF Told, Admissions
  <2>6. CASE o # aop
    BY <1>1, <1>2, <2>1, <2>6
  <2>7. QED  BY <2>5, <2>6
<1>6. QED
  BY <1>1, <1>4, <1>5 DEF Told, Denials

\* A step of the actor keeps it.
LEMMA SessionInvActor ==
  ASSUME SessionInv, Actor
  PROVE  SessionInv'
<1> USE DEF SessionInv, SessionType, RequestInv, ActorInv, QueueInv, SendInv,
            Aborted, transportVars, channelVars, stateVars, actorVars, clientVars, netVars,
            Received, Continue
<1>1. CASE Ask
  BY <1>1, Kinds DEF Ask, Asked, Wrote
<1>2. CASE Recheck
  BY <1>2 DEF Recheck, Wrote, OpSteps
<1>3. CASE SyncAnswered
  BY <1>3 DEF SyncAnswered, Wrote, OpSteps
<1>4. CASE PreflightAnswered
  <2>1. ~Wrote(aop) /\ aop \in Ops /\ why = "preflight" /\ why \in OpSteps
    BY <1>4 DEF PreflightAnswered, Wrote, Admissions, OpSteps
  <2>2. \/ \E r \in Told : Reply(aop, r) /\ UNCHANGED req
        \/ req' = Dispatch(aop) /\ why' = "dispatch" /\ UNCHANGED <<apc, aop, rechecks, calls>>
    BY <1>4 DEF PreflightAnswered, Told
  <2>3. CASE \E r \in Told : Reply(aop, r) /\ UNCHANGED req
    BY <1>4, <2>1, <2>3, ReplyKeeps DEF PreflightAnswered
  <2>4. CASE req' = Dispatch(aop) /\ why' = "dispatch" /\ UNCHANGED <<apc, aop, rechecks, calls>>
    BY <1>4, <2>1, <2>4, Kinds DEF PreflightAnswered, Asked, Wrote, OpSteps
  <2>5. QED  BY <2>2, <2>3, <2>4
<1>5. CASE DispatchAnswered
  BY <1>5 DEF DispatchAnswered, AfterFailedWrite, Wrote, OpSteps
<1>6. CASE AmbiguousAnswered
  <2>1. Wrote(aop) /\ why \in OpSteps
    BY <1>6 DEF AmbiguousAnswered, Wrote, OpSteps
  <2>2. \E r \in Admissions : Reply(aop, r)
    BY <1>6 DEF AmbiguousAnswered, Admissions
  <2>3. QED
    BY <1>6, <2>1, <2>2, ReplyKeeps DEF AmbiguousAnswered
<1>7. CASE ConfirmAnswered
  <2>1. Wrote(aop) /\ why \in OpSteps
    BY <1>7 DEF ConfirmAnswered, Wrote, OpSteps
  <2>2. CASE \E r \in Admissions : Reply(aop, r)
    BY <1>7, <2>1, <2>2, ReplyKeeps DEF ConfirmAnswered
  <2>3. CASE apc' = "pause" /\ UNCHANGED <<why, aop, calls>>
    BY <1>7, <2>3 DEF ConfirmAnswered, Wrote
  <2>4. QED
    BY <1>7, <2>2, <2>3 DEF ConfirmAnswered, Admissions
<1>8. QED
  BY <1>1, <1>2, <1>3, <1>4, <1>5, <1>6, <1>7 DEF Actor

\* So does a command received: a call leaves the channel for good.
LEMMA SessionInvOperate ==
  ASSUME SessionInv, Operate
  PROVE  SessionInv'
<1> USE DEF SessionInv, SessionType, RequestInv, ActorInv, QueueInv, SendInv,
            Aborted, transportVars, channelVars, netVars
<1> DEFINE o == Head(commands)
<1>1. /\ Tail(commands) \in Seq(Ops \cup {"close"})
      /\ o = commands[1] /\ 1 \in 1..Len(commands)
      /\ \A i \in 1..Len(Tail(commands)) : /\ Tail(commands)[i] = commands[i + 1]
                                           /\ i + 1 \in 1..Len(commands) /\ i + 1 # 1
  BY TailFacts DEF Operate
<1>2. /\ apc = "loop" /\ o \in Ops /\ calls[o] = "queued"
      /\ commands' = Tail(commands)
      /\ UNCHANGED <<tpc, treq, generation, req, answer, sends>>
  BY <1>1 DEF Operate
<1>3. \A i \in 1..Len(Tail(commands)) : Tail(commands)[i] # o
  BY <1>1, <1>2
<1>4. /\ why = "none" /\ sends[o] = <<>>
      /\ \A p \in Ops : calls[p] # "running"
  BY <1>2 DEF Wrote, OpSteps, Admissions
<1>5. \/ /\ \E r \in Told : calls' = [calls EXCEPT ![o] = r]
         /\ apc' = "loop" /\ why' = "none"
      \/ /\ calls' = [calls EXCEPT ![o] = "running"]
         /\ apc' = "ask" /\ why' = "preflight" /\ aop' = o
  BY <1>2 DEF Operate, Reply, Continue, Told
<1>6. /\ calls' \in [Ops -> Denials \cup Admissions \cup {"idle", "queued", "running"}]
      /\ \A p \in Ops \ {o} : calls'[p] = calls[p]
      /\ calls'[o] \in Told \cup {"running"}
  <2>1. \E r \in Told \cup {"running"} : calls' = [calls EXCEPT ![o] = r]
    BY <1>5
  <2>2. QED
    BY <1>2, <2>1 DEF Told, Denials
<1>7. QueueInv'
  <2>1. \A i \in 1..Len(commands') : commands'[i] \in Ops => calls'[commands'[i]] = "queued"
    BY <1>1, <1>2, <1>3, <1>6
  <2>2. \A i, j \in 1..Len(commands') :
          commands'[i] \in Ops /\ commands'[i] = commands'[j] => i = j
    <3>1. commands \in Seq(Ops \cup {"close"}) /\ commands # <<>>
      BY DEF Operate
    <3>2. \A i, j \in 1..Len(commands) :
            commands[i] \in Ops /\ commands[i] = commands[j] => i = j
      OBVIOUS
    <3>3. QED  BY ONLY <1>2, <3>1, <3>2, TailDistinct
  <2>3. QED  BY <2>1, <2>2
<1>8. ActorInv' /\ RequestInv' /\ SessionType'
  BY <1>1, <1>2, <1>4, <1>5, <1>6 DEF Told, OpSteps
<1>9. SendInv'
  BY <1>2, <1>4, <1>5, <1>6 DEF Wrote, Told, Admissions, OpSteps
<1>10. QED
  BY <1>7, <1>8, <1>9

\* So does every other step.
LEMMA SessionInvNext ==
  ASSUME SessionInv, [Next]_vars
  PROVE  SessionInv'
<1> USE DEF SessionInv, SessionType, RequestInv, ActorInv, QueueInv, SendInv,
            Aborted, transportVars, channelVars, stateVars, actorVars, clientVars, netVars
<1>1. CASE Background
  BY <1>1 DEF Background, Continue, Wrote, OpSteps
<1>2. CASE Event
  BY <1>2 DEF Event, Continue, Wrote, OpSteps
<1>3. ASSUME NEW o \in Ops, Submit(o)
      PROVE  SessionInv'
  <2>1. /\ calls[o] = "idle"
        /\ calls' = [calls EXCEPT ![o] = "queued"]
        /\ commands' = Append(commands, o)
        /\ UNCHANGED <<tpc, treq, generation, req, answer, apc, why, aop, sends>>
    BY <1>3 DEF Submit
  <2>2. /\ commands' \in Seq(Ops \cup {"close"}) /\ Len(commands') = Len(commands) + 1
        /\ \A i \in 1..Len(commands) : commands'[i] = commands[i]
        /\ commands'[Len(commands) + 1] = o
    BY <2>1, AppendFacts
  <2>3. \A i \in 1..Len(commands) : commands[i] # o
    BY <2>1
  <2>4. \A i \in 1..Len(commands') : i \in 1..Len(commands) \/ i = Len(commands) + 1
    BY <2>2
  <2>5. calls'[o] = "queued" /\ \A p \in Ops \ {o} : calls'[p] = calls[p]
    BY <2>1
  <2>6. QueueInv'
    <3>1. ASSUME NEW i \in 1..Len(commands'), commands'[i] \in Ops
          PROVE  calls'[commands'[i]] = "queued"
      <4>1. CASE i \in 1..Len(commands)
        <5>1. commands[i] \in Ops \ {o} /\ commands'[i] = commands[i]
          BY <2>2, <2>3, <3>1, <4>1
        <5>2. QED  BY <2>5, <4>1, <5>1
      <4>2. CASE i = Len(commands) + 1
        BY <2>2, <2>5, <4>2
      <4>3. QED  BY <2>4, <4>1, <4>2
    <3>2. ASSUME NEW i \in 1..Len(commands'), NEW j \in 1..Len(commands'),
                 commands'[i] \in Ops, commands'[i] = commands'[j]
          PROVE  i = j
      <4>1. CASE i \in 1..Len(commands) /\ j \in 1..Len(commands)
        <5>1. commands[i] \in Ops /\ commands[i] = commands[j]
          BY <2>2, <3>2, <4>1
        <5>2. QED  BY <4>1, <5>1
      <4>2. CASE i = Len(commands) + 1 \/ j = Len(commands) + 1
        BY <2>2, <2>3, <2>4, <3>2, <4>2
      <4>3. QED  BY <2>4, <4>1, <4>2
    <3>3. QED  BY <3>1, <3>2
  <2>7. SendInv'
    BY <2>1, <2>5 DEF Wrote, Admissions
  <2>8. SessionType' /\ RequestInv' /\ ActorInv'
    BY <2>1, <2>2, <2>5 DEF Asked
  <2>9. QED  BY <2>6, <2>7, <2>8
<1>4. ASSUME NEW o \in Ops, Abandon(o)
      PROVE  SessionInv'
  BY <1>4 DEF Abandon, Asked, Wrote
<1>9. ASSUME NEW o \in Ops, SubmitStopped(o)
      PROVE  SessionInv'
  <2>1. /\ apc = "stopped" /\ calls[o] = "idle"
        /\ calls' = [calls EXCEPT ![o] = "indeterminate_none"]
        /\ UNCHANGED <<tpc, treq, generation, req, answer, apc, why, aop, commands, sends>>
    BY <1>9 DEF SubmitStopped
  <2>2. /\ calls' \in [Ops -> Denials \cup Admissions \cup {"idle", "queued", "running"}]
        /\ \A i \in 1..Len(commands) : commands[i] # o
        /\ \A p \in Ops : Wrote(p)' <=> Wrote(p)
    BY <2>1 DEF Wrote, Denials, Admissions
  <2>3. SendInv'
    BY <2>1, <2>2
  <2>4. QED
    BY <2>1, <2>2, <2>3 DEF Asked, OpSteps
<1>5. CASE CloseSend
  <2>1. /\ commands' = Append(commands, "close")
        /\ UNCHANGED <<tpc, treq, generation, req, answer, apc, why, aop, calls, sends>>
    BY <1>5 DEF CloseSend
  <2>2. /\ commands' \in Seq(Ops \cup {"close"}) /\ Len(commands') = Len(commands) + 1
        /\ \A i \in 1..Len(commands) : commands'[i] = commands[i]
        /\ commands'[Len(commands) + 1] \notin Ops
    BY <2>1, AppendFacts, SessionAssumption
  <2>3. \A i \in 1..Len(commands') : i \in 1..Len(commands) \/ i = Len(commands) + 1
    BY <2>2
  <2>4. QueueInv'
    BY <2>1, <2>2, <2>3
  <2>5. QED
    BY <2>1, <2>2, <2>4 DEF Asked, Wrote
<1>6. ASSUME StopTasks
      PROVE  SessionInv'
  <2>1. /\ tpc' = "stopped" /\ treq' = NoReq /\ req' = NoReq /\ answer' = NoAnswer
        /\ apc' = "stopped" /\ why' = "none" /\ commands' = <<>>
        /\ UNCHANGED <<generation, aop, sends>>
        /\ \A o \in Ops : calls'[o] = IF calls[o] \in {"queued", "running"}
                                      THEN "indeterminate_none" ELSE calls[o]
        /\ calls' \in [Ops -> Denials \cup Admissions \cup {"idle", "queued", "running"}]
    BY <1>6 DEF StopTasks, Denials
  <2>2. SendInv'
    <3> SUFFICES ASSUME NEW o \in Ops
                 PROVE  /\ Wrote(o)' => Len(sends[o]) = 1
                        /\ ~Wrote(o)' /\ ~Aborted(o)' => sends[o] = <<>>
                        /\ Aborted(o)' => Len(sends[o]) <= 1
      BY <2>1
    <3>1. Len(sends[o]) <= 1
      BY AtMostOnce
    <3>2. CASE calls[o] \in {"queued", "running"}
      BY <2>1, <3>1, <3>2 DEF Wrote, Admissions, OpSteps
    <3>3. CASE calls[o] \notin {"queued", "running"}
      BY <2>1, <3>1, <3>3 DEF Wrote
    <3>4. QED  BY <3>2, <3>3
  <2>3. \A o \in Ops : calls'[o] # "running"
    BY <2>1
  <2>4. SessionType' /\ RequestInv' /\ QueueInv'
    BY <2>1
  <2>5. ActorInv'
    BY <2>1, <2>3 DEF OpSteps
  <2>6. QED  BY <2>2, <2>4, <2>5
<1>7. CASE CloseCall \/ ReceiverHandles \/ Knob \/ LinkFails \/ Stopped \/ UNCHANGED vars
  <2>1. UNCHANGED <<tpc, treq, generation, req, answer, apc, why, aop, commands, calls, sends>>
    BY <1>7 DEF CloseCall, ReceiverHandles, Knob, LinkFails, Stopped, vars, transportVars,
                channelVars, stateVars, actorVars, clientVars
  <2>2. Asked' = Asked /\ \A o \in Ops : Wrote(o)' = Wrote(o)
    BY <2>1 DEF Asked, Wrote
  <2>3. QED  BY <2>1, <2>2
<1>8. QED
  BY <1>1, <1>2, <1>3, <1>4, <1>5, <1>6, <1>7, <1>9, SessionInvTransport,
     SessionInvActor, SessionInvOperate DEF Next, Close, CloseTimeout

\* Every state of a session satisfies it.
THEOREM SessionInvariant == Spec => []SessionInv
<1>1. SessionInv /\ [Next]_vars => SessionInv'
  BY SessionInvNext
<1>2. QED
  BY <1>1, SessionInvInit, PTL DEF Spec

\* No command is written twice, whatever fails and however often the transport
\* reconnects (operate.rs: a failed write is never replayed).
THEOREM NeverReplayed == Spec => []NoReplay
<1>1. SessionInv => NoReplay
  BY AtMostOnce DEF SessionInv, NoReplay
<1>2. QED
  BY <1>1, SessionInvariant, PTL

\* An outcome that denies a write follows none, the answers of a stopped session
\* included, unless a close aborted the operation; one that admits a write follows
\* an attempt (operate.rs: the order of checks, write and replies).
THEOREM OutcomesAreHonest == Spec => []HonestOutcome
<1>1. SessionInv => HonestOutcome
  <2> SUFFICES ASSUME SessionInv, NEW o \in Ops
               PROVE  /\ calls[o] \in Denials /\ ~Aborted(o) => sends[o] = <<>>
                      /\ calls[o] \in Admissions => sends[o] # <<>>
    BY DEF HonestOutcome
  <2>1. ASSUME calls[o] \in Denials, ~Aborted(o)  PROVE sends[o] = <<>>
    BY <2>1 DEF SessionInv, SendInv, Wrote, Denials, Admissions
  <2>2. ASSUME calls[o] \in Admissions  PROVE sends[o] # <<>>
    <3>1. Len(sends[o]) = 1
      BY <2>2 DEF SessionInv, SendInv, Wrote
    <3>2. QED  BY <3>1
  <2>3. QED  BY <2>1, <2>2
<1>2. QED
  BY <1>1, SessionInvariant, PTL

-----------------------------------------------------------------------------
(* The epoch: what is known of the connection while notifications of it    *)
(* are on their way.                                                       *)

Lines == [value : Values \cup {None}, gen : Nat, reply : BOOLEAN]
EventRecords == [kind : {"connected", "disconnected", "reconnected", "line"},
                 value : Values \cup {None}, gen : Nat]

\* What is on its way to and from the receiver.
NetType ==
  /\ value \in Values \cup {None}
  /\ inbound \in Seq({Query} \cup {Dispatch(o) : o \in Ops})
  /\ wire \in Seq(Lines)

EpochType ==
  /\ feed_epoch \in Nat \ {0} /\ epoch \in Nat
  /\ events \in Seq(EventRecords)

\* An event in the channel, by its place: a new connection, and the loss of the
\* connection in use.
IsReconnect(i) == events[i].kind = "reconnected"
IsLoss(i) == events[i].kind = "disconnected" /\ events[i].gen = generation

\* A new connection the feed does not show yet is still to be notified, or is
\* about to be read.
FeedInv ==
  \/ feed_epoch = generation + 1
  \/ apc = "ask"
  \/ tpc \in {"reconnected", "stopped"}
  \/ \E i \in 1..Len(events) : IsReconnect(i)

\* The epoch is the feed's or none, and none only when the connection the feed
\* shows is lost or replaced.
LossInv ==
  /\ epoch \in {0, feed_epoch}
  /\ epoch = 0 => \/ feed_epoch < generation + 1
                  \/ /\ feed_epoch = generation + 1
                     /\ tpc \in {"lost", "reconnect", "stopped"}

\* The loss of this connection is notified after every reconnect, and while the
\* transport reconnects it is notified or handled.
OrderInv ==
  /\ \A i \in 1..Len(events) :
       /\ events[i].kind = "disconnected" => events[i].gen <= generation
       /\ IsLoss(i) => /\ tpc \in {"lost", "reconnect"}
                       /\ \A j \in i..Len(events) : ~IsReconnect(j)
  /\ tpc = "reconnect" =>
       \/ \E i \in 1..Len(events) : IsLoss(i)
       \/ /\ epoch = 0 /\ feed_epoch = generation + 1
          /\ \A i \in 1..Len(events) : ~IsReconnect(i)

EpochInv == NetType /\ EpochType /\ FeedInv /\ LossInv /\ OrderInv

\* What is on the wire keeps its form.
LEMMA NetTypeNext ==
  ASSUME SessionInv, NetType, [Next]_vars
  PROVE  NetType'
<1> USE DEF NetType, transportVars, channelVars, stateVars, actorVars, clientVars,
            netVars
<1> DEFINE Rs == {Query} \cup {Dispatch(o) : o \in Ops}
<1>1. CASE UNCHANGED <<value, inbound, wire>>
  BY <1>1
<1>2. CASE WriteCompletes \/ WriteFails
  <2>1. treq \in Rs
    BY <1>2, Kinds DEF WriteCompletes, WriteFails, SessionInv, RequestInv, Asked,
       ActorInv, OpSteps
  <2>2. inbound' \in {inbound, Append(inbound, treq)} /\ UNCHANGED <<value, wire>>
    BY <1>2 DEF WriteCompletes, WriteFails
  <2>3. QED  BY <2>1, <2>2, AppendFacts
<1>3. CASE ReadLine \/ ReadResponse
  <2>1. wire # <<>> /\ wire' = Tail(wire) /\ UNCHANGED <<value, inbound>>
    BY <1>3 DEF ReadLine, ReadResponse
  <2>2. QED  BY <2>1, TailFacts
<1>4. CASE ConnectSucceeds
  BY <1>4 DEF ConnectSucceeds
<1>5. CASE ReceiverHandles
  <2>1. inbound # <<>> /\ inbound' = Tail(inbound)
    BY <1>5 DEF ReceiverHandles
  <2>2. inbound' \in Seq(Rs) /\ Head(inbound) \in Rs
    BY <2>1, TailFacts
  <2>3. /\ value' \in Values \cup {None}
        /\ \/ wire' = wire
           \/ \E l \in Lines : wire' = Append(wire, l)
    <3>1. CASE Head(inbound).kind = "query"
      BY <1>5, <3>1 DEF ReceiverHandles, Line, Lines, SessionInv, SessionType
    <3>2. CASE Head(inbound).kind # "query"
      <4>1. Target[Head(inbound).op] \in Values
        BY <2>2, <3>2, Kinds, SessionAssumption
      <4>2. QED
        BY <1>5, <3>2, <4>1 DEF ReceiverHandles, Line, Lines, SessionInv, SessionType
    <3>3. QED  BY <3>1, <3>2
  <2>4. QED  BY <2>2, <2>3, AppendFacts
<1>6. CASE Knob
  <2>1. /\ value' \in Values \cup {None} /\ UNCHANGED inbound
        /\ \/ wire' = wire
           \/ \E l \in Lines : wire' = Append(wire, l)
    BY <1>6 DEF Knob, Line, Lines, SessionInv, SessionType
  <2>2. QED  BY <2>1, AppendFacts
<1>7. CASE LinkFails
  BY <1>7 DEF LinkFails
<1>8. CASE StopTasks
  BY <1>1, <1>8 DEF StopTasks
<1>9. CASE Actor
  BY <1>1, <1>9 DEF Actor, Ask, Recheck, SyncAnswered, PreflightAnswered,
     DispatchAnswered, AmbiguousAnswered, ConfirmAnswered, Received
<1>10. CASE \/ PublishConnected \/ TakeRequest \/ ReadFails \/ ResponseFails
            \/ PublishDisconnected \/ ConnectFails \/ PublishReconnected
  BY <1>1, <1>10 DEF PublishConnected, TakeRequest, ReadFails, ResponseFails,
     PublishDisconnected, ConnectFails, PublishReconnected
<1>11. CASE \/ Background \/ Event \/ Operate \/ CloseCall \/ CloseSend \/ Stopped
            \/ UNCHANGED vars \/ \E o \in Ops : Submit(o) \/ SubmitStopped(o) \/ Abandon(o)
  BY <1>1, <1>11 DEF Background, Event, Operate, CloseCall, CloseSend, Stopped, vars,
     Submit, SubmitStopped, Abandon
<1>12. QED
  BY <1>2, <1>3, <1>4, <1>5, <1>6, <1>7, <1>8, <1>9, <1>10, <1>11 DEF Next, Transport,
     Close, CloseTimeout

\* synchronize_generation takes the feed to the connection in use, and changes
\* the epoch only when the feed moves.
LEMMA SynchronizeFacts ==
  ASSUME generation \in Nat, EpochType
  PROVE  \E d : synchronize_generation(State) =
           [feed |-> generation + 1,
            epoch |-> IF feed_epoch = generation + 1 THEN epoch ELSE generation + 1,
            field |-> d]
<1>1. CASE feed_epoch = generation + 1
  BY <1>1 DEF synchronize_generation, State
<1>2. CASE feed_epoch # generation + 1
  <2> DEFINE s == IF State.epoch # 0 THEN mark_disconnected(State) ELSE State
  <2>1. s = [feed |-> s.feed, epoch |-> 0, field |-> s.field]
    BY DEF State, mark_disconnected
  <2>2. establish_epoch(s, generation + 1)
          = [feed |-> s.feed, epoch |-> generation + 1, field |-> s.field]
    BY <2>1 DEF establish_epoch
  <2>3. synchronize_generation(State)
          = [establish_epoch(s, generation + 1) EXCEPT !.feed = generation + 1]
    BY <1>2 DEF synchronize_generation, State
  <2>4. synchronize_generation(State)
          = [feed |-> generation + 1, epoch |-> generation + 1, field |-> s.field]
    BY <2>2, <2>3
  <2>5. QED
    BY <1>2, <2>4
<1>3. QED  BY <1>1, <1>2

\* Neither an answer nor a failed query moves the feed or the epoch.
LEMMA ReduceFacts ==
  ASSUME NEW f, NEW e, NEW d, NEW line
  PROVE  LET s == [feed |-> f, epoch |-> e, field |-> d]
         IN /\ reduce(s, line).feed = f /\ reduce(s, line).epoch = e
            /\ mark_query_failed(s).feed = f /\ mark_query_failed(s).epoch = e
BY DEF reduce, mark_query_failed

\* The state after an answer: as if the feed had been synchronized, or as it was.
LEMMA AnswerFacts ==
  ASSUME generation \in Nat, EpochType
  PROVE  /\ Reduced.feed = generation + 1
         /\ Reduced.epoch =
              IF feed_epoch = generation + 1 THEN epoch ELSE generation + 1
         /\ mark_query_failed(State).feed = feed_epoch
         /\ mark_query_failed(State).epoch = epoch
<1>1. PICK d : synchronize_generation(State) =
           [feed |-> generation + 1,
            epoch |-> IF feed_epoch = generation + 1 THEN epoch ELSE generation + 1,
            field |-> d]
  BY SynchronizeFacts
<1>2. QED
  BY <1>1, ReduceFacts DEF Reduced, State

\* A step that neither moves the transport nor the feed keeps what is known of
\* the epoch, if the actor goes on to read when it was about to.
LEMMA EpochNeutral ==
  ASSUME EpochType, FeedInv, LossInv, OrderInv,
         UNCHANGED <<tpc, generation, events, feed_epoch, epoch>>,
         apc = "ask" => apc' = "ask"
  PROVE  EpochType' /\ FeedInv' /\ LossInv' /\ OrderInv'
BY DEF EpochType, FeedInv, LossInv, OrderInv, IsReconnect, IsLoss

\* So does one that synchronizes the feed.
LEMMA EpochSynchronized ==
  ASSUME generation \in Nat, EpochType, FeedInv, LossInv, OrderInv,
         UNCHANGED <<tpc, generation, events>>,
         feed_epoch' = generation + 1,
         epoch' = IF feed_epoch = generation + 1 THEN epoch ELSE generation + 1
  PROVE  EpochType' /\ FeedInv' /\ LossInv' /\ OrderInv'
BY DEF EpochType, FeedInv, LossInv, OrderInv, IsReconnect, IsLoss

\* So does a step of the transport within a connection, or the loss of one.
LEMMA EpochMoves ==
  ASSUME generation \in Nat, EpochType, FeedInv, LossInv, OrderInv,
         UNCHANGED <<generation, events, apc, feed_epoch, epoch>>,
         tpc \notin {"reconnected", "stopped"},
         tpc' \in {"idle", "write", "read", "lost"},
         tpc \in {"lost", "reconnect"} => tpc' = "lost"
  PROVE  EpochType' /\ FeedInv' /\ LossInv' /\ OrderInv'
BY DEF EpochType, FeedInv, LossInv, OrderInv, IsReconnect, IsLoss

\* So does every step of the transport.
LEMMA EpochTransport ==
  ASSUME SessionInv, EpochInv, Transport
  PROVE  EpochType' /\ FeedInv' /\ LossInv' /\ OrderInv'
<1> USE DEF EpochInv, transportVars, channelVars, stateVars, actorVars, clientVars,
            netVars
<1>g. generation \in Nat
  BY DEF SessionInv, SessionType
<1>1. CASE \/ TakeRequest \/ ReadFails \/ WriteCompletes \/ WriteFails
           \/ ReadResponse \/ ResponseFails \/ ConnectFails
  BY <1>g, <1>1, EpochMoves DEF TakeRequest, ReadFails, WriteCompletes, WriteFails,
     ReadResponse, ResponseFails, ConnectFails
<1>2. ASSUME NEW e \in EventRecords, events' = Append(events, e),
             UNCHANGED <<generation, feed_epoch, epoch>>, apc' = apc
      PROVE  /\ EpochType'
             /\ Len(events') = Len(events) + 1 /\ Len(events) \in Nat
             /\ \A i \in 1..Len(events) : /\ events'[i] = events[i]
                                          /\ IsReconnect(i)' <=> IsReconnect(i)
                                          /\ IsLoss(i)' <=> IsLoss(i)
             /\ events'[Len(events) + 1] = e
             /\ \A i \in 1..Len(events') : i \in 1..Len(events) \/ i = Len(events) + 1
  BY <1>2, AppendFacts DEF EpochType, IsReconnect, IsLoss
<1>3. ASSUME NEW e \in EventRecords, events' = Append(events, e),
             UNCHANGED <<generation, feed_epoch, epoch, apc>>,
             e.kind \in {"line", "connected"}, tpc \in {"idle", "connected"}, tpc' = "idle"
      PROVE  EpochType' /\ FeedInv' /\ LossInv' /\ OrderInv'
  <2>1. EpochType' /\ LossInv'
    BY <1>2, <1>3 DEF LossInv
  <2>2. FeedInv'
    BY <1>2, <1>3 DEF FeedInv
  <2>3. \A i \in 1..Len(events') : ~IsLoss(i)' /\ (events'[i].kind = "disconnected" => events'[i].gen <= generation)
    BY <1>2, <1>3 DEF OrderInv, IsLoss
  <2>4. OrderInv'
    BY <1>3, <2>3 DEF OrderInv
  <2>5. QED  BY <2>1, <2>2, <2>4
<1>4. CASE PublishConnected
  <2>1. Lifecycle("connected") \in EventRecords /\ Lifecycle("connected").kind = "connected"
    BY <1>g DEF Lifecycle, EventRecords
  <2>2. QED
    BY <1>3, <1>4, <2>1 DEF PublishConnected, PublishLifecycle
<1>5. CASE ReadLine
  <2>1. Head(wire) \in Lines
    BY <1>5, TailFacts DEF ReadLine, NetType
  <2> DEFINE e == [kind |-> "line", value |-> Head(wire).value, gen |-> Head(wire).gen]
  <2>2. e \in EventRecords /\ e.kind = "line"
    BY <2>1 DEF Lines, EventRecords
  <2>3. CASE events' = events
    BY <1>5, <2>3, EpochNeutral DEF ReadLine
  <2>4. CASE events' = Append(events, e)
    BY <1>3, <1>5, <2>2, <2>4 DEF ReadLine
  <2>5. QED
    BY <1>5, <2>3, <2>4 DEF ReadLine, PublishLine
<1>6. CASE PublishDisconnected
  <2> DEFINE e == Lifecycle("disconnected")
  <2>0. PICK last : last = Len(events) + 1
    OBVIOUS
  <2>1. e \in EventRecords /\ e.kind = "disconnected" /\ e.gen = generation
    BY <1>g DEF Lifecycle, EventRecords
  <2>2. /\ events' = Append(events, e) /\ tpc = "lost" /\ tpc' = "reconnect"
        /\ UNCHANGED <<generation, feed_epoch, epoch, apc>>
    BY <1>6 DEF PublishDisconnected, PublishLifecycle
  <2>3. EpochType' /\ LossInv' /\ FeedInv'
    BY <1>2, <2>1, <2>2 DEF LossInv, FeedInv
  <2>4. last \in 1..Len(events') /\ IsLoss(last)' /\ ~IsReconnect(last)'
    BY <1>2, <2>0, <2>1, <2>2 DEF IsLoss, IsReconnect
  <2>5. ASSUME NEW i \in 1..Len(events')
        PROVE  /\ events'[i].kind = "disconnected" => events'[i].gen <= generation
               /\ IsLoss(i)' => \A j \in i..Len(events') : ~IsReconnect(j)'
    <3>1. CASE i \in 1..Len(events)
      <4>1. events'[i].kind = "disconnected" => events'[i].gen <= generation
        BY <1>2, <2>1, <2>2, <3>1 DEF OrderInv
      <4>2. ASSUME IsLoss(i)', NEW j \in i..Len(events')
            PROVE  ~IsReconnect(j)'
        <5>1. j \in i..Len(events) \/ j = last
          BY <1>2, <2>0, <2>1, <2>2
        <5>2. CASE j \in i..Len(events)
          BY <1>2, <2>1, <2>2, <3>1, <4>2, <5>2 DEF OrderInv
        <5>3. QED  BY <2>4, <5>1, <5>2
      <4>3. QED  BY <4>1, <4>2
    <3>2. CASE i = last
      <4>1. \A j \in i..Len(events') : j = last
        BY <1>2, <2>0, <2>1, <2>2, <3>2
      <4>2. events'[i] = e /\ generation <= generation
        BY <1>2, <1>g, <2>0, <2>1, <2>2, <3>2
      <4>3. QED
        BY <2>1, <2>4, <4>1, <4>2
    <3>3. QED
      BY <1>2, <2>0, <2>1, <2>2, <3>1, <3>2
  <2>6. OrderInv'
    BY <2>2, <2>4, <2>5 DEF OrderInv
  <2>7. QED  BY <2>3, <2>6
<1>7. CASE ConnectSucceeds
  <2>1. /\ generation' = generation + 1 /\ tpc = "reconnect" /\ tpc' = "reconnected"
        /\ UNCHANGED <<events, feed_epoch, epoch, apc>>
    BY <1>7 DEF ConnectSucceeds
  <2>2. EpochType' /\ FeedInv' /\ LossInv'
    BY <1>g, <2>1 DEF EpochType, FeedInv, LossInv
  <2>3. \A i \in 1..Len(events) : events[i] \in EventRecords
    BY DEF EpochType
  <2>4. \A i \in 1..Len(events) :
          /\ events[i].kind = "disconnected" => events[i].gen <= generation'
          /\ ~IsLoss(i)'
    BY <1>g, <2>1, <2>3 DEF OrderInv, IsLoss, EventRecords
  <2>5. OrderInv'
    BY <2>1, <2>4 DEF OrderInv
  <2>6. QED  BY <2>2, <2>5
<1>8. CASE PublishReconnected
  <2> DEFINE e == Lifecycle("reconnected")
  <2>1. e \in EventRecords /\ e.kind = "reconnected"
    BY <1>g DEF Lifecycle, EventRecords
  <2>2. /\ events' = Append(events, e) /\ tpc = "reconnected" /\ tpc' = "idle"
        /\ UNCHANGED <<generation, feed_epoch, epoch, apc>>
    BY <1>8 DEF PublishReconnected, PublishLifecycle
  <2>3. EpochType' /\ LossInv'
    BY <1>2, <2>1, <2>2 DEF LossInv
  <2>4. FeedInv'
    <3>1. \E i \in 1..Len(events') : IsReconnect(i)'
      BY <1>2, <2>1, <2>2 DEF IsReconnect
    <3>2. QED  BY <3>1 DEF FeedInv
  <2>5. \A i \in 1..Len(events') : ~IsLoss(i)' /\ (events'[i].kind = "disconnected" => events'[i].gen <= generation)
    BY <1>2, <2>1, <2>2 DEF OrderInv, IsLoss
  <2>6. OrderInv'
    BY <2>2, <2>5 DEF OrderInv
  <2>7. QED  BY <2>3, <2>4, <2>6
<1>9. QED
  BY <1>1, <1>4, <1>5, <1>6, <1>7, <1>8 DEF Transport

\* An event handled: the loss of the connection in use clears the epoch, that of
\* an older one does not, and a new connection is read at once.
LEMMA EpochEvent ==
  ASSUME SessionInv, EpochInv, Event
  PROVE  EpochType' /\ FeedInv' /\ LossInv' /\ OrderInv'
<1> USE DEF EpochInv
<1> DEFINE e == Head(events)
<1>g. generation \in Nat
  BY DEF SessionInv, SessionType
<1>1. /\ events' \in Seq(EventRecords)
      /\ e = events[1] /\ e \in EventRecords /\ 1 \in 1..Len(events)
      /\ Len(events') = Len(events) - 1 /\ Len(events) \in Nat
      /\ \A i \in 1..Len(events') : events'[i] = events[i + 1] /\ i + 1 \in 1..Len(events)
      /\ UNCHANGED <<tpc, generation>>
      /\ apc \in {"loop", "pause"}
      /\ e.kind = "reconnected" \/ apc = "pause" => apc' = "ask"
  <2>1. events # <<>> /\ events' = Tail(events)
    BY DEF Event
  <2>2. /\ events' \in Seq(EventRecords)
        /\ e = events[1] /\ e \in EventRecords /\ 1 \in 1..Len(events)
        /\ Len(events') = Len(events) - 1 /\ Len(events) \in Nat
        /\ \A i \in 1..Len(events') : events'[i] = events[i + 1] /\ i + 1 \in 1..Len(events)
    BY <2>1, TailFacts DEF EpochType
  <2>3. /\ UNCHANGED <<tpc, generation>>
        /\ apc \in {"loop", "pause"}
        /\ e.kind = "reconnected" \/ apc = "pause" => apc' = "ask"
    BY DEF Event, Continue, ReadsAtOnce, transportVars
  <2>4. QED  BY <2>2, <2>3
<1>2. \A i \in 1..Len(events') :
        /\ IsReconnect(i)' <=> IsReconnect(i + 1)
        /\ IsLoss(i)' <=> IsLoss(i + 1)
  BY <1>1 DEF IsReconnect, IsLoss
<1>3. \A i \in 1..Len(events) : i = 1 \/ \E j \in 1..Len(events') : i = j + 1
  <2> SUFFICES ASSUME NEW i \in 1..Len(events), i # 1
               PROVE  \E j \in 1..Len(events') : i = j + 1
    OBVIOUS
  <2>1. i - 1 \in 1..Len(events') /\ i = (i - 1) + 1
    BY <1>1
  <2>2. QED  BY <2>1
<1>4. \A i \in 1..Len(events') :
        /\ events'[i].kind = "disconnected" => events'[i].gen <= generation'
        /\ IsLoss(i)' => /\ tpc' \in {"lost", "reconnect"}
                         /\ \A j \in i..Len(events') : ~IsReconnect(j)'
  <2> SUFFICES ASSUME NEW i \in 1..Len(events')
               PROVE  /\ events'[i].kind = "disconnected" => events'[i].gen <= generation'
                      /\ IsLoss(i)' => /\ tpc' \in {"lost", "reconnect"}
                                       /\ \A j \in i..Len(events') : ~IsReconnect(j)'
    OBVIOUS
  <2>1. events'[i].kind = "disconnected" => events'[i].gen <= generation'
    BY <1>1 DEF OrderInv
  <2>2. ASSUME IsLoss(i)'
        PROVE  tpc' \in {"lost", "reconnect"} /\ \A j \in i..Len(events') : ~IsReconnect(j)'
    <3>1. IsLoss(i + 1) /\ i + 1 \in 1..Len(events)
      BY <1>1, <1>2, <2>2
    <3>2. tpc \in {"lost", "reconnect"} /\ \A j \in (i + 1)..Len(events) : ~IsReconnect(j)
      BY <3>1 DEF OrderInv
    <3>3. \A j \in i..Len(events') : j \in 1..Len(events') /\ j + 1 \in (i + 1)..Len(events)
      BY <1>1
    <3>4. QED
      BY <1>1, <1>2, <3>2, <3>3
  <2>3. QED  BY <2>1, <2>2
<1>5. ASSUME UNCHANGED <<feed_epoch, epoch>>, e.kind # "reconnected"
      PROVE  FeedInv' /\ LossInv' /\ EpochType'
  <2>1. FeedInv'
    <3>1. CASE \E i \in 1..Len(events) : IsReconnect(i)
      <4>1. \E j \in 1..Len(events') : IsReconnect(j)'
        BY <1>1, <1>2, <1>3, <1>5, <3>1 DEF IsReconnect
      <4>2. QED  BY <4>1 DEF FeedInv
    <3>2. CASE ~ \E i \in 1..Len(events) : IsReconnect(i)
      BY <1>1, <1>5, <3>2 DEF FeedInv
    <3>3. QED  BY <3>1, <3>2
  <2>2. LossInv' /\ EpochType'
    BY <1>1, <1>5 DEF LossInv, EpochType
  <2>3. QED  BY <2>1, <2>2
<1>6. ASSUME UNCHANGED <<feed_epoch, epoch>>, ~IsLoss(1), e.kind # "reconnected"
      PROVE  OrderInv'
  <2>1. ASSUME tpc' = "reconnect"
        PROVE  \/ \E i \in 1..Len(events') : IsLoss(i)'
               \/ /\ epoch' = 0 /\ feed_epoch' = generation' + 1
                  /\ \A i \in 1..Len(events') : ~IsReconnect(i)'
    <3>1. CASE \E i \in 1..Len(events) : IsLoss(i)
      BY <1>2, <1>3, <1>6, <3>1
    <3>2. CASE /\ epoch = 0 /\ feed_epoch = generation + 1
               /\ \A i \in 1..Len(events) : ~IsReconnect(i)
      BY <1>1, <1>2, <1>6, <3>2
    <3>3. QED  BY <1>1, <2>1, <3>1, <3>2 DEF OrderInv
  <2>2. QED  BY <1>4, <2>1 DEF OrderInv
<1>7. CASE e.kind = "line"
  <2>1. feed_epoch' = feed_epoch /\ epoch' = epoch
    BY <1>7, ReduceFacts DEF Event, Install, apply_event, State
  <2>2. ~IsLoss(1)
    BY <1>1, <1>7 DEF IsLoss
  <2>3. QED  BY <1>5, <1>6, <1>7, <2>1, <2>2
<1>8. CASE e.kind = "connected"
  <2>1. feed_epoch' = feed_epoch /\ epoch' = epoch
    BY <1>8 DEF Event, Install, apply_event, State
  <2>2. ~IsLoss(1)
    BY <1>1, <1>8 DEF IsLoss
  <2>3. QED  BY <1>5, <1>6, <1>8, <2>1, <2>2
<1>9. CASE e.kind = "disconnected" /\ IsOld(e)
  <2>1. feed_epoch' = feed_epoch /\ epoch' = epoch
    BY <1>9 DEF Event, Install, apply_event, State
  <2>2. CASE ~IsLoss(1)
    BY <1>5, <1>6, <1>9, <2>1, <2>2
  <2>3. CASE IsLoss(1)
    <3>1. generation + 1 < feed_epoch
      BY <1>1, <1>9, <2>3 DEF IsLoss, IsOld
    <3>2. \A j \in 1..Len(events) : ~IsReconnect(j)
      BY <1>1, <2>3 DEF OrderInv
    <3>3. tpc \in {"lost", "reconnect"}
      BY <1>1, <2>3 DEF OrderInv
    <3>4. FALSE
      BY <1>1, <1>g, <3>1, <3>2, <3>3 DEF FeedInv, EpochType
    <3>5. QED  BY <3>4
  <2>4. QED  BY <2>2, <2>3
<1>10. CASE e.kind = "disconnected" /\ ~IsOld(e)
  <2>1. feed_epoch' = feed_epoch /\ epoch' = 0
    BY <1>10 DEF Event, Install, apply_event, State, mark_disconnected
  <2>2. e.gen <= generation /\ e.gen \in Nat /\ feed_epoch <= e.gen + 1
    BY <1>1, <1>10 DEF OrderInv, IsOld, EpochType, EventRecords
  <2>3. FeedInv'
    <3>1. CASE \E i \in 1..Len(events) : IsReconnect(i)
      <4>1. \E j \in 1..Len(events') : IsReconnect(j)'
        BY <1>1, <1>2, <1>3, <1>10, <3>1 DEF IsReconnect
      <4>2. QED  BY <4>1 DEF FeedInv
    <3>2. CASE ~ \E i \in 1..Len(events) : IsReconnect(i)
      BY <1>1, <2>1, <3>2 DEF FeedInv
    <3>3. QED  BY <3>1, <3>2
  <2>4. CASE IsLoss(1)
    <3>1. \A j \in 1..Len(events) : ~IsReconnect(j)
      BY <1>1, <2>4 DEF OrderInv
    <3>2. tpc \in {"lost", "reconnect"}
      BY <1>1, <2>4 DEF OrderInv
    <3>3. feed_epoch = generation + 1
      BY <1>1, <3>1, <3>2 DEF FeedInv
    <3>4. LossInv' /\ EpochType'
      BY <1>1, <2>1, <3>2, <3>3 DEF LossInv, EpochType
    <3>5. \A i \in 1..Len(events') : ~IsReconnect(i)'
      BY <1>1, <1>2, <3>1
    <3>6. OrderInv'
      BY <1>1, <1>4, <2>1, <3>3, <3>5 DEF OrderInv
    <3>7. QED  BY <2>3, <3>4, <3>6
  <2>5. CASE ~IsLoss(1)
    <3>1. feed_epoch < generation + 1
      BY <1>1, <1>g, <1>10, <2>2, <2>5 DEF IsLoss, EpochType
    <3>2. LossInv' /\ EpochType'
      BY <1>1, <2>1, <3>1 DEF LossInv, EpochType
    <3>3. ASSUME tpc = "reconnect"  PROVE \E i \in 1..Len(events') : IsLoss(i)'
      <4>1. \E i \in 1..Len(events) : IsLoss(i)
        BY <1>g, <3>1, <3>3 DEF OrderInv, EpochType
      <4>2. QED  BY <1>2, <1>3, <2>5, <4>1
    <3>4. OrderInv'
      BY <1>1, <1>4, <3>3 DEF OrderInv
    <3>5. QED  BY <2>3, <3>2, <3>4
  <2>6. QED  BY <2>4, <2>5
<1>11. CASE e.kind = "reconnected"
  <2>1. feed_epoch' = feed_epoch + 1 /\ epoch' = feed_epoch + 1
    BY <1>11 DEF Event, Install, apply_event, State, mark_disconnected, establish_epoch
  <2>2. EpochType' /\ LossInv' /\ FeedInv'
    BY <1>1, <1>11, <2>1 DEF EpochType, LossInv, FeedInv
  <2>3. ASSUME tpc = "reconnect"  PROVE \E i \in 1..Len(events') : IsLoss(i)'
    <3>1. IsReconnect(1) /\ ~IsLoss(1)
      BY <1>1, <1>11 DEF IsReconnect, IsLoss
    <3>2. \E i \in 1..Len(events) : IsLoss(i)
      BY <1>1, <2>3, <3>1 DEF OrderInv
    <3>3. QED  BY <1>2, <1>3, <3>1, <3>2
  <2>4. OrderInv'
    BY <1>1, <1>4, <2>3 DEF OrderInv
  <2>5. QED  BY <2>2, <2>4
<1>12. QED
  BY <1>1, <1>7, <1>8, <1>9, <1>10, <1>11 DEF EventRecords

\* Every step keeps what is known of the epoch.
LEMMA EpochInvNext ==
  ASSUME SessionInv, EpochInv, [Next]_vars
  PROVE  EpochInv'
<1> USE DEF EpochInv, transportVars, channelVars, stateVars, actorVars, clientVars,
            netVars
<1>g. generation \in Nat
  BY DEF SessionInv, SessionType
<1>n. NetType'
  BY NetTypeNext
<1>1. CASE Transport
  BY <1>1, <1>n, EpochTransport
<1>2. CASE Event
  BY <1>2, <1>n, EpochEvent
<1>3. CASE Ask
  <2>1. PICK d : synchronize_generation(State) =
           [feed |-> generation + 1,
            epoch |-> IF feed_epoch = generation + 1 THEN epoch ELSE generation + 1,
            field |-> d]
    BY <1>g, SynchronizeFacts
  <2>2. /\ feed_epoch' = generation + 1
        /\ epoch' = IF feed_epoch = generation + 1 THEN epoch ELSE generation + 1
        /\ UNCHANGED <<tpc, generation, events>>
    BY <1>3, <2>1 DEF Ask, Install
  <2>3. QED
    BY <1>g, <1>n, <2>2, EpochSynchronized
<1>4. ASSUME apc = "wait", UNCHANGED <<tpc, generation, events>>,
             \/ Install(Reduced) \/ Install(State) \/ Install(mark_query_failed(State))
             \/ UNCHANGED stateVars
      PROVE  EpochInv'
  <2>1. CASE Install(Reduced)
    <3>1. /\ feed_epoch' = generation + 1
          /\ epoch' = IF feed_epoch = generation + 1 THEN epoch ELSE generation + 1
      BY <1>g, <2>1, AnswerFacts DEF Install
    <3>2. QED  BY <1>4, <1>g, <1>n, <3>1, EpochSynchronized
  <2>2. CASE ~Install(Reduced)
    <3>1. UNCHANGED <<feed_epoch, epoch>>
      BY <1>4, <1>g, <2>2, AnswerFacts DEF Install, State
    <3>2. QED  BY <1>4, <1>n, <3>1, EpochNeutral
  <2>3. QED  BY <2>1, <2>2
<1>5. CASE \/ SyncAnswered \/ PreflightAnswered \/ DispatchAnswered
           \/ AmbiguousAnswered \/ ConfirmAnswered
  BY <1>4, <1>5 DEF SyncAnswered, PreflightAnswered, DispatchAnswered,
     AmbiguousAnswered, ConfirmAnswered, Received
<1>6. CASE StopTasks
  <2>1. /\ tpc' = "stopped" /\ events' = <<>> /\ apc' = "stopped"
        /\ UNCHANGED <<generation, feed_epoch, epoch>>
    BY <1>6 DEF StopTasks
  <2>2. EpochType' /\ FeedInv' /\ OrderInv'
    BY <2>1 DEF EpochType, FeedInv, OrderInv
  <2>3. LossInv'
    BY <2>1 DEF LossInv
  <2>4. QED  BY <1>n, <2>2, <2>3
<1>7. ASSUME UNCHANGED <<tpc, generation, events, feed_epoch, epoch>>,
             apc = "ask" => apc' = "ask"
      PROVE  EpochInv'
  BY <1>7, <1>n, EpochNeutral
<1>8. CASE Recheck \/ Background \/ Operate
  BY <1>7, <1>8 DEF Recheck, Background, Operate, Continue
<1>9. CASE \/ CloseCall \/ CloseSend \/ ReceiverHandles \/ Knob \/ LinkFails
           \/ Stopped \/ UNCHANGED vars
           \/ \E o \in Ops : Submit(o) \/ SubmitStopped(o) \/ Abandon(o)
  BY <1>7, <1>9 DEF CloseCall, CloseSend, ReceiverHandles, Knob, LinkFails, Stopped,
     vars, Submit, SubmitStopped, Abandon
<1>10. QED
  BY <1>1, <1>2, <1>3, <1>5, <1>6, <1>8, <1>9 DEF Next, Actor, Close, CloseTimeout

\* Once every notification has been handled, the published epoch is the one of
\* the connection in use, and none while it is replaced (reduce.rs: the
\* generation and the event both tell of a reconnect).
THEOREM EpochIsQuiescent == Spec => []QuiescentEpoch
<1>1. Init => EpochInv
  BY SessionAssumption DEF Init, EpochInv, NetType, EpochType, FeedInv, LossInv, OrderInv
<1>2. SessionInv /\ EpochInv /\ [Next]_vars => EpochInv'
  BY EpochInvNext
<1>3. SessionInv /\ EpochInv => QuiescentEpoch
  <2> SUFFICES ASSUME SessionInv, EpochInv, apc = "loop", events = <<>>
               PROVE  /\ tpc \in {"idle", "write", "read"} => epoch = generation + 1
                      /\ tpc = "reconnect" => epoch = 0
    BY DEF QuiescentEpoch
  <2>1. 1..Len(events) = {}
    OBVIOUS
  <2>2. tpc = "reconnect" => epoch = 0
    BY <2>1 DEF EpochInv, OrderInv
  <2>3. tpc \in {"idle", "write", "read"} => feed_epoch = generation + 1
    BY <2>1 DEF EpochInv, FeedInv
  <2>4. tpc \in {"idle", "write", "read"} => epoch = generation + 1
    BY <2>3 DEF EpochInv, LossInv, SessionInv, SessionType
  <2>5. QED  BY <2>2, <2>4
<1>4. QED
  BY <1>1, <1>2, <1>3, SessionInvariant, PTL DEF Spec
=============================================================================
