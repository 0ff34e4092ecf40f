-------------------------- MODULE OneProcessProofs --------------------------
(***************************************************************************)
(* Proofs about the three systems of one process, for any number of tool   *)
(* calls, steps, prompts, threads and signals.                             *)
(*                                                                         *)
(* The code agent's invariant says which tool calls are still owed an      *)
(* answer: those of the current step, each once, none of them run yet but  *)
(* the first.  So a word of the user is about the first, and a step that   *)
(* ends, however it ends, has answered exactly the rest.  The worker's     *)
(* says that the first signal finds the lock free.                         *)
(***************************************************************************)
EXTENDS MCOneProcess, FiniteSetTheorems, SequenceTheorems, TLAPS

USE AgentAssumption

\* The calls of the step: in the log, unanswered, each with an id of its own;
\* only the first may have been run, and only after its prompt.
CallsInv ==
  /\ \E n \in Nat : asked = 1..n
  /\ ran \subseteq asked
  /\ \A k \in 1..Len(calls) :
       calls[k].id \in asked /\ answers[calls[k].id] = 0 /\ (k > 1 => calls[k].id \notin ran)
  /\ \A j, k \in 1..Len(calls) : calls[j].id = calls[k].id => j = k
  /\ turn.pc \in {"start", "hook", "ask", "wait"} => calls[1].id \notin ran

\* A call in the log is answered once, or is one of the step's, or was cut off.
LogInv ==
  /\ \A i \in CallIds : answers[i] = 0 \/ (answers[i] = 1 /\ i \in asked)
  /\ \A i \in lost : i \in asked /\ answers[i] = 0
  /\ \A i \in asked : i \in lost \/ answers[i] = 1 \/ \E k \in 1..Len(calls) : calls[k].id = i
  /\ \A k \in 1..Len(calls) : calls[k].id \notin lost

\* A yes that will be acted upon is the last word on the current call.
ApprovalInv ==
  /\ FailClosed
  /\ prompt \in {"allow", "allow_session"} /\ ~agent.interrupted => said[calls[1].id] = "allowed"

\* An interrupt of a running turn is in the flag until the turn is over.
StopInv ==
  stopAsked => turn.pc # "new" /\ (turn.pc # "none" => agent.interrupted)

\* How many requests an interrupted turn has begun, by where it is: one more
\* is due in "compact" and "sleep", and one may follow that of "chat".
LateInv ==
  /\ late <= 2
  /\ turn.pc # "none" /\ ~stopAsked => late = 0
  /\ turn.pc \in {"compact", "sleep"} => late = 0
  /\ turn.pc = "chat" => late <= 1

AgentInv == CallsInv /\ LogInv /\ ApprovalInv /\ StopInv

-----------------------------------------------------------------------------
\* A new call's id is the next one that is not in the log.
LEMMA NextIds ==
  ASSUME AgentTypeOK, CallsInv, NEW kinds \in Seq(ToolKinds), kinds # <<>>,
         Cardinality(asked) + Len(kinds) <= MaxCalls
  PROVE  \E n \in Nat :
           /\ asked = 1..n
           /\ n + Len(kinds) <= MaxCalls
           /\ NewCalls(kinds) \in Seq([id : CallIds, kind : ToolKinds]) /\ NewCalls(kinds) # <<>>
           /\ Len(NewCalls(kinds)) = Len(kinds)
           /\ \A k \in 1..Len(kinds) : NewCalls(kinds)[k].id = n + k
           /\ asked \cup Ids(NewCalls(kinds)) = 1..(n + Len(kinds))
<1>1. PICK n \in Nat : asked = 1..n
  BY DEF CallsInv
<1>2. Cardinality(asked) = n
  BY <1>1, FS_Interval
<1>3. Len(kinds) \in Nat \ {0} /\ n + Len(kinds) <= MaxCalls
  BY <1>2
<1>4. NewCalls(kinds) = [i \in 1..Len(kinds) |-> [id |-> n + i, kind |-> kinds[i]]]
  BY <1>2 DEF NewCalls
<1>5. NewCalls(kinds) \in Seq([id : CallIds, kind : ToolKinds])
  BY <1>3, <1>4 DEF CallIds
<1>6. Len(NewCalls(kinds)) = Len(kinds) /\ \A k \in 1..Len(kinds) : NewCalls(kinds)[k].id = n + k
  BY <1>3, <1>4, <1>5
<1>7. Ids(NewCalls(kinds)) = {n + k : k \in 1..Len(kinds)}
  BY <1>6 DEF Ids
<1>8. asked \cup Ids(NewCalls(kinds)) = 1..(n + Len(kinds))
  <2>1. ASSUME NEW i \in 1..(n + Len(kinds)) PROVE i \in 1..n \/ \E k \in 1..Len(kinds) : i = n + k
    <3>1. CASE i > n
      <4>1. i - n \in 1..Len(kinds) /\ i = n + (i - n)
        BY <1>3, <3>1
      <4> QED BY <4>1
    <3> QED BY <1>3, <3>1
  <2>2. \A k \in 1..Len(kinds) : n + k \in 1..(n + Len(kinds))
    BY <1>3
  <2>3. \A i \in 1..n : i \in 1..(n + Len(kinds))
    BY <1>3
  <2> QED BY <1>1, <1>7, <2>1, <2>2, <2>3
<1> QED BY <1>1, <1>3, <1>5, <1>6, <1>8

LEMMA TailElements ==
  ASSUME NEW S, NEW s \in Seq(S), Len(s) > 1
  PROVE  /\ Tail(s) \in Seq(S) /\ Len(Tail(s)) = Len(s) - 1 /\ Tail(s) # <<>>
         /\ \A k \in 1..Len(Tail(s)) : Tail(s)[k] = s[k + 1] /\ k + 1 \in 1..Len(s)
<1>1. s # <<>> /\ Len(s) \in Nat
  OBVIOUS
<1>2. /\ Tail(s) \in Seq(S) /\ Len(Tail(s)) = Len(s) - 1
      /\ \A k \in 1..Len(Tail(s)) : Tail(s)[k] = s[k + 1]
  BY <1>1, HeadTailProperties
<1>3. Tail(s) # <<>>
  <2>1. Len(Tail(s)) # 0
    BY <1>1, <1>2
  <2> QED BY <2>1, EmptySeq
<1>4. \A k \in 1..Len(Tail(s)) : k + 1 \in 1..Len(s)
  BY <1>1, <1>2
<1> QED BY <1>2, <1>3, <1>4

\* The calls after the first.
LEMMA TailCalls ==
  ASSUME AgentTypeOK, Len(calls) > 1
  PROVE  /\ Tail(calls) \in Seq([id : CallIds, kind : ToolKinds]) /\ Tail(calls) # <<>>
         /\ Len(Tail(calls)) = Len(calls) - 1
         /\ \A k \in 1..Len(Tail(calls)) : Tail(calls)[k] = calls[k + 1] /\ k + 1 \in 1..Len(calls)
BY TailElements DEF AgentTypeOK

-----------------------------------------------------------------------------
\* Types, of the variables that a step assigns and of those it leaves alone.
TurnType == [pc : TurnPCs, step : 0..MaxSteps, retries : 0..MaxRetries,
             overflowed : BOOLEAN, cancelled : BOOLEAN]
CallSeqs == Seq([id : CallIds, kind : ToolKinds])
AgentType == [running : BOOLEAN, interrupted : BOOLEAN]

\* What the ways to move the task along do to it.
LEMMA Moves ==
  ASSUME turn \in TurnType
  PROVE  /\ \A pc \in TurnPCs : Await(pc) \/ LeaveChat(pc) =>
              turn' \in TurnType /\ turn'.pc = pc /\ turn'.step = turn.step
         /\ \A n \in 0..MaxSteps : BeginStep(n) =>
              turn' \in TurnType /\ turn'.pc \in {"compact", "chat"} /\ turn'.step = n
<1>1. ASSUME NEW pc \in TurnPCs, Await(pc) \/ LeaveChat(pc)
      PROVE  turn' \in TurnType /\ turn'.pc = pc /\ turn'.step = turn.step
  <2>1. 0 \in 0..MaxRetries
    BY AgentAssumption
  <2> QED BY <1>1, <2>1 DEF Await, LeaveChat, TurnType
<1>2. ASSUME NEW n \in 0..MaxSteps, BeginStep(n)
      PROVE  turn' \in TurnType /\ turn'.pc \in {"compact", "chat"} /\ turn'.step = n
  <2>1. PICK pc \in {"compact", "chat"} : turn' = [turn EXCEPT !.pc = pc, !.step = n]
    BY <1>2 DEF BeginStep
  <2>2. pc \in TurnPCs
    BY DEF TurnPCs, Requests
  <2> QED BY <2>1, <2>2 DEF TurnType
<1> QED BY <1>1, <1>2

LEMMA TurnTypes ==
  ASSUME AgentTypeOK, CallsInv, TurnStep
  PROVE  AgentTypeOK'
<1> USE DEF Resumes, bounds, logged, approval
<1>t. /\ turn \in TurnType /\ calls \in CallSeqs /\ agent \in AgentType /\ mode \in Modes
      /\ rules \subseteq {"edit", "exec", "read"} /\ ran \subseteq CallIds /\ asked \subseteq CallIds
      /\ turn.pc \in {"start", "hook", "ask", "wait", "tool", "result"} <=> calls # <<>>
      /\ agent.running <=> turn.pc \notin {"none", "new"}
      /\ prompt \in {"none", "open", "allow", "allow_session", "deny"}
      /\ prompt # "none" => turn.pc \in {"ask", "wait"}
      /\ answers \in [CallIds -> Nat]
  BY DEF AgentTypeOK, TurnType, CallSeqs, AgentType
<1>1. CASE BeginRun
  <2>1. turn' \in TurnType /\ turn'.pc \in {"compact", "chat"} /\ turn.pc = "new"
    <3>1. BeginStep(1) /\ turn.pc = "new" /\ 1 \in 0..MaxSteps
      BY <1>1 DEF BeginRun
    <3> QED BY <1>t, <3>1, Moves
  <2>2. agent' \in AgentType /\ agent'.running
    BY <1>1 DEF BeginRun, AgentType
  <2> QED BY <1>1, <2>1, <2>2 DEF BeginRun, AgentTypeOK, TurnType, AgentType
<1>2. CASE StartCall \/ AskSent \/ AskFails \/ ToolEnds
  BY <1>2 DEF StartCall, AskSent, AskFails, ToolEnds, Await, TurnPCs, AgentTypeOK
<1>a. CASE Compacted \/ ChatFails \/ ChatRetries \/ Overflows \/ Shrunk \/ ModelFails
  <2>1. /\ turn.pc \in {"compact", "chat", "sleep", "shrink"}
        /\ UNCHANGED <<socket, calls, agent, mode, rules, prompt, said, ran, asked, answers, lost, stopAsked, turns,
                       switches>>
    BY <1>a DEF Compacted, ChatFails, ChatRetries, Overflows, Shrunk, ModelFails
  <2>2. late' \in Nat
    <3>1. late \in Nat
      BY DEF AgentTypeOK
    <3> QED BY <1>a, <3>1 DEF Compacted, ChatFails, ChatRetries, Overflows, Shrunk, ModelFails, AnotherRequest
  <2>3. turn' \in TurnType /\ turn'.pc \in {"compact", "chat", "sleep", "shrink", "done"}
    <3> USE <1>t
    <3>1. {"compact", "chat", "sleep", "shrink", "done"} \subseteq TurnPCs
      BY DEF TurnPCs, Requests
    <3>2. CASE Compacted \/ ChatRetries \/ ModelFails
      <4>1. Await("chat") \/ LeaveChat("done")
        BY <3>2 DEF Compacted, ChatRetries, ModelFails
      <4> QED BY <3>1, <4>1, Moves
    <3>3. CASE ChatFails \/ Overflows
      <4>1. CASE ChatFails
        <5>1. turn.retries + 1 \in 0..MaxRetries
          BY <4>1, AgentAssumption DEF ChatFails, TurnType
        <5> QED BY <3>1, <4>1, <5>1 DEF ChatFails, TurnType
      <4>2. CASE Overflows
        <5>1. 0 \in 0..MaxRetries
          BY AgentAssumption
        <5> QED BY <3>1, <4>2, <5>1 DEF Overflows, TurnType
      <4> QED BY <3>3, <4>1, <4>2
    <3>4. CASE Shrunk
      <4>1. LeaveChat("done") \/ (turn.step + 1 \in 0..MaxSteps /\ BeginStep(turn.step + 1))
        BY <3>4 DEF Shrunk, TurnType
      <4> QED BY <3>1, <4>1, Moves
    <3> QED BY <1>a, <3>2, <3>3, <3>4
  <2> QED BY <1>t, <2>1, <2>2, <2>3 DEF AgentTypeOK, TurnType
<1>3. CASE Check
  <2>1. /\ turn' \in TurnType /\ turn.pc = "hook" /\ turn'.pc \in {"result", "tool", "ask"}
        /\ IF turn'.pc = "ask" THEN prompt' = "open" ELSE prompt' = prompt
        /\ UNCHANGED <<socket, calls, agent, mode, rules, said, ran, asked, answers, lost, stopAsked, late, turns, switches>>
    <3> PICK v \in Verdicts(calls[1].kind) \cup {"deny"} :
             /\ v = "deny"  => Await("result") /\ UNCHANGED prompt
             /\ v = "allow" => Await("tool") /\ UNCHANGED prompt
             /\ v = "ask"   => Await("ask") /\ prompt' = "open"
      BY <1>3 DEF Check
    <3>1. v \in {"allow", "deny", "ask"}
      BY DEF Verdicts
    <3> QED BY <1>3, <1>t, <3>1 DEF Check, Await, TurnType, TurnPCs
  <2> QED BY <1>t, <2>1 DEF AgentTypeOK, TurnType
<1>4. CASE AskTimesOut
  BY <1>4 DEF AskTimesOut, Await, TurnPCs, AgentTypeOK
<1>5. CASE Answered
  <2>1. /\ turn' \in TurnType /\ turn.pc = "wait" /\ turn'.pc \in {"result", "tool"} /\ prompt' = "none"
        /\ UNCHANGED <<socket, calls, agent, said, asked, answers, lost, stopAsked, late, turns, switches>>
    <3>1. \/ Await("result") /\ UNCHANGED <<mode, rules, ran>>
          \/ RunApproved
      BY <1>5 DEF Answered
    <3>2. Await("result") \/ Await("tool")
      BY <3>1 DEF RunApproved
    <3>3. turn' \in TurnType /\ turn'.pc \in {"result", "tool"}
      BY <1>t, <3>2 DEF Await, TurnType, TurnPCs
    <3>4. UNCHANGED <<socket, calls, agent, said, asked, answers, lost, stopAsked, late, turns, switches>>
      BY <1>5 DEF Answered
    <3>5. turn.pc = "wait" /\ prompt' = "none"
      BY <1>5 DEF Answered
    <3> QED BY <3>3, <3>4, <3>5
  <2>2. calls[1] \in [id : CallIds, kind : ToolKinds]
    <3>1. calls # <<>>
      BY <1>t, <2>1
    <3>2. 1 \in 1..Len(calls)
      BY <1>t, <3>1 DEF CallSeqs
    <3> QED BY <1>t, <3>2, ElementOfSeq DEF CallSeqs
  <2>3. mode' \in Modes /\ rules' \subseteq {"edit", "exec", "read"} /\ ran' \subseteq CallIds
    BY <1>5, <1>t, <2>2 DEF Answered, RunApproved, Modes
  <2> QED BY <1>t, <2>1, <2>3 DEF AgentTypeOK, TurnType
<1>6. CASE Result
  <2>1. /\ turn.pc = "result" /\ calls # <<>>
        /\ UNCHANGED <<socket, agent, mode, rules, prompt, said, ran, asked, lost, stopAsked, late, turns, switches>>
    BY <1>6, <1>t DEF Result
  <2>2. answers' \in [CallIds -> Nat]
    BY <1>6, <1>t DEF Result, Answer
  <2>3. /\ turn' \in TurnType /\ calls' \in CallSeqs
        /\ turn'.pc \in {"start", "compact", "chat", "done"} /\ (turn'.pc = "start" <=> calls' # <<>>)
    <3>1. CASE Len(calls) > 1 /\ ~agent.interrupted
      BY <1>6, <1>t, <3>1, TailCalls DEF Result, Await, TurnType, TurnPCs, CallSeqs
    <3>2. CASE ~(Len(calls) > 1 /\ ~agent.interrupted)
      <4>1. calls' = <<>> /\ calls' \in CallSeqs
        <5>1. <<>> \in CallSeqs
          BY DEF CallSeqs
        <5> QED BY <1>6, <3>2, <5>1 DEF Result
      <4>2. /\ turn' \in TurnType /\ turn'.pc \in {"compact", "chat", "done"}
        <5>1. CASE Await("done")
          <6>1. "done" \in TurnPCs
            BY DEF TurnPCs
          <6> QED BY <1>t, <5>1, <6>1, Moves
        <5>2. CASE turn.step # MaxSteps /\ BeginStep(turn.step + 1)
          <6>1. turn.step + 1 \in 0..MaxSteps
            BY <1>t, <5>2 DEF TurnType
          <6> QED BY <1>t, <5>2, <6>1, Moves
        <5> QED BY <1>6, <3>2, <5>1, <5>2 DEF Result
      <4> QED BY <4>1, <4>2
    <3> QED BY <3>1, <3>2
  <2> QED BY <1>t, <2>1, <2>2, <2>3 DEF AgentTypeOK, TurnType, CallSeqs
<1>7. CASE Done \/ SendFails \/ Cancelled \/ TurnRaises
  <2>1. /\ turn' = NoTurn /\ calls' = <<>> /\ prompt' = "none" /\ agent' \in AgentType /\ ~agent'.running
        /\ lost' \subseteq CallIds
        /\ UNCHANGED <<socket, mode, rules, said, ran, asked, answers, stopAsked, late, turns, switches>>
    <3>1. agent' \in AgentType /\ ~agent'.running
      <4>1. CASE Done \/ TurnRaises
        BY <1>t, <4>1 DEF Done, TurnRaises, AgentType
      <4>2. CASE SendFails \/ Cancelled
        <5>1. agent' = [running |-> FALSE, interrupted |-> TRUE]
          BY <4>2, Zenon DEF SendFails, Cancelled
        <5> QED BY <5>1 DEF AgentType
      <4> QED BY <1>7, <4>1, <4>2
    <3>2. lost' \subseteq CallIds
      <4>1. Ids(calls) \subseteq CallIds /\ lost \subseteq CallIds
        <5>1. \A k \in 1..Len(calls) : calls[k].id \in CallIds
          BY DEF CallsInv, AgentTypeOK
        <5> QED BY <5>1 DEF Ids, AgentTypeOK
      <4>2. lost' = lost \/ lost' = lost \cup Ids(calls)
        <5>1. CASE Done
          BY <5>1 DEF Done
        <5>2. CASE SendFails \/ Cancelled \/ TurnRaises
          BY <5>2, Zenon DEF SendFails, Cancelled, TurnRaises, CutOff
        <5> QED BY <1>7, <5>1, <5>2
      <4> QED BY <4>1, <4>2
    <3> QED BY <1>7, <3>1, <3>2 DEF Done, SendFails, Cancelled, TurnRaises, CutOff, EndTurn
  <2>2. turn' \in TurnType /\ turn'.pc = "none" /\ calls' \in CallSeqs
    BY <2>1 DEF NoTurn, TurnType, TurnPCs, CallSeqs
  <2> QED BY <2>1, <2>2 DEF AgentTypeOK, TurnType, CallSeqs, AgentType
<1>8. ASSUME NEW n \in 0..MaxPerStep, NEW kinds \in [1..n -> ToolKinds], ModelAnswers(kinds) PROVE AgentTypeOK'
  <2>1. /\ turn' \in TurnType /\ turn.pc = "chat"
        /\ UNCHANGED <<socket, agent, mode, rules, prompt, said, ran, answers, lost, stopAsked, late, turns, switches>>
    <3>1. LeaveChat("done") \/ LeaveChat("start")
      BY <1>8 DEF ModelAnswers
    <3>2. "done" \in TurnPCs /\ "start" \in TurnPCs
      BY DEF TurnPCs
    <3>3. turn' \in TurnType
      BY <1>t, <3>1, <3>2, Moves
    <3> QED BY <1>8, <3>3 DEF ModelAnswers
  <2>2. CASE agent.interrupted \/ kinds = <<>>
    <3>1. turn'.pc = "done" /\ UNCHANGED <<calls, asked>>
      BY <1>8, <1>t, <2>2 DEF ModelAnswers, LeaveChat, TurnType
    <3> QED BY <1>t, <2>1, <3>1 DEF AgentTypeOK, TurnType
  <2>3. CASE ~(agent.interrupted \/ kinds = <<>>)
    <3>1. turn'.pc = "start" /\ calls' = NewCalls(kinds) /\ asked' = asked \cup Ids(NewCalls(kinds))
      BY <1>8, <1>t, <2>3 DEF ModelAnswers, LeaveChat, TurnType
    <3>2. kinds \in Seq(ToolKinds) /\ kinds # <<>> /\ Cardinality(asked) + Len(kinds) <= MaxCalls
      BY <1>8, <2>3 DEF ModelAnswers
    <3>3. calls' \in CallSeqs /\ calls' # <<>> /\ asked' \subseteq CallIds
      <4>1. PICK n2 \in Nat :
              /\ n2 + Len(kinds) <= MaxCalls
              /\ NewCalls(kinds) \in Seq([id : CallIds, kind : ToolKinds]) /\ NewCalls(kinds) # <<>>
              /\ asked \cup Ids(NewCalls(kinds)) = 1..(n2 + Len(kinds))
        BY <3>2, NextIds
      <4>2. asked' \subseteq CallIds
        BY <3>1, <3>2, <4>1 DEF CallIds
      <4> QED BY <3>1, <4>1, <4>2 DEF CallSeqs
    <3> QED BY <1>t, <2>1, <3>1, <3>3 DEF AgentTypeOK, TurnType, CallSeqs
  <2> QED BY <2>2, <2>3
<1> QED BY <1>1, <1>2, <1>3, <1>4, <1>5, <1>6, <1>7, <1>8, <1>a DEF TurnStep

LEMMA HandleTypes ==
  ASSUME AgentTypeOK, Handle
  PROVE  AgentTypeOK'
<1> USE DEF bounds, logged, approval
<1>1. CASE UserPrompts
  <2>1. /\ turn' \in TurnType /\ turn'.pc = "new" /\ turn.pc = "none"
        /\ turns' \in 0..MaxTurns /\ stopAsked' \in BOOLEAN /\ late' \in Nat
        /\ UNCHANGED <<socket, calls, agent, mode, rules, prompt, said, ran, asked, answers, lost, switches>>
    <3>1. turn \in TurnType /\ turns \in 0..MaxTurns
      BY DEF TurnType, AgentTypeOK
    <3>2. turn' \in TurnType /\ turn'.pc = "new" /\ turn.pc = "none"
      BY <1>1, <3>1 DEF UserPrompts, Busy, Await, TurnType, TurnPCs
    <3>3. turns' = turns + 1 /\ turns < MaxTurns /\ stopAsked' = FALSE /\ late' = 0
      BY <1>1 DEF UserPrompts
    <3>4. UNCHANGED <<socket, calls, agent, mode, rules, prompt, said, ran, asked, answers, lost, switches>>
      BY <1>1 DEF UserPrompts
    <3>5. turns' \in 0..MaxTurns
      BY <3>1, <3>3
    <3>6. stopAsked' \in BOOLEAN /\ late' \in Nat
      BY <3>3
    <3> QED BY <3>2, <3>4, <3>5, <3>6
  <2> QED BY <2>1 DEF AgentTypeOK, TurnType
<1>2. CASE UserInterrupts \/ ConnectionCloses
  <2>1. /\ turn' \in TurnType /\ turn'.pc = turn.pc
        /\ agent' \in AgentType /\ agent'.running = agent.running
        /\ socket' \in {"open", "gone", "closed"} /\ stopAsked' \in BOOLEAN
        /\ UNCHANGED <<calls, mode, rules, ran, asked, answers, lost, late, turns, switches>>
    BY <1>2 DEF UserInterrupts, ConnectionCloses, DenyPending, TurnType, AgentType, AgentTypeOK, Busy
  <2>2. /\ prompt' \in {"none", "open", "allow", "allow_session", "deny"} /\ (prompt' # "none" => prompt # "none")
        /\ said' \in [CallIds -> {"nothing", "allowed", "refused"}]
    BY <1>2 DEF UserInterrupts, ConnectionCloses, DenyPending, AgentTypeOK
  <2> QED BY <2>1, <2>2 DEF AgentTypeOK, TurnType, AgentType
<1>3. CASE UserEditsRules
  <2>1. rules' \subseteq {"edit", "exec", "read"} /\ switches' \in 0..MaxSwitches
    <3>1. rules' = {} \/ \E k \in ToolKinds \ {"plan"} : rules' = rules \cup {k}
      BY <1>3 DEF UserEditsRules
    <3>2. \A k \in ToolKinds \ {"plan"} : k \in {"edit", "exec", "read"}
      OBVIOUS
    <3>3. rules' \subseteq {"edit", "exec", "read"}
      <4>1. rules \subseteq {"edit", "exec", "read"}
        BY DEF AgentTypeOK
      <4> QED BY <3>1, <3>2, <4>1
    <3>4. switches' = switches + 1 /\ switches < MaxSwitches /\ switches \in 0..MaxSwitches
      BY <1>3 DEF UserEditsRules, AgentTypeOK
    <3> QED BY <3>3, <3>4
  <2> QED BY <1>3, <2>1 DEF UserEditsRules, AgentTypeOK
<1>4. ASSUME NEW b \in {"allow", "allow_session", "deny"}, UserDecides(b) PROVE AgentTypeOK'
  BY <1>4 DEF UserDecides, AgentTypeOK
<1>5. ASSUME NEW m \in Modes, UserSetsMode(m) PROVE AgentTypeOK'
  BY <1>5 DEF UserSetsMode, AgentTypeOK
<1>6. CASE ClientLeaves
  BY <1>6 DEF ClientLeaves, AgentTypeOK
<1> QED BY <1>1, <1>2, <1>3, <1>4, <1>5, <1>6 DEF Handle

-----------------------------------------------------------------------------
AtCall == {"start", "hook", "ask", "wait", "tool", "result"}

\* The current call.
LEMMA CurrentCall ==
  ASSUME AgentTypeOK, CallsInv, turn.pc \in AtCall
  PROVE  /\ Len(calls) \in Nat \ {0} /\ 1 \in 1..Len(calls)
         /\ calls[1].id \in CallIds /\ calls[1].id \in asked /\ answers[calls[1].id] = 0
<1>1. calls \in CallSeqs /\ calls # <<>>
  BY DEF AgentTypeOK, CallSeqs, AtCall
<1>2. Len(calls) \in Nat \ {0} /\ 1 \in 1..Len(calls)
  BY <1>1, EmptySeq DEF CallSeqs
<1>3. calls[1] \in [id : CallIds, kind : ToolKinds]
  BY <1>1, <1>2, ElementOfSeq DEF CallSeqs
<1> QED BY <1>2, <1>3 DEF CallsInv

\* Where a step of a request, or of a call, takes the task.
LEMMA RequestMoves ==
  ASSUME turn \in TurnType,
         Compacted \/ ChatFails \/ ChatRetries \/ Overflows \/ Shrunk \/ ModelFails
  PROVE  turn'.pc \in {"compact", "chat", "sleep", "shrink", "done"}
<1>1. {"compact", "chat", "sleep", "shrink", "done"} \subseteq TurnPCs
  BY DEF TurnPCs, Requests
<1>2. CASE Compacted \/ ChatRetries \/ ModelFails
  <2>1. Await("chat") \/ LeaveChat("done")
    BY <1>2 DEF Compacted, ChatRetries, ModelFails
  <2> QED BY <1>1, <2>1, Moves
<1>3. CASE ChatFails \/ Overflows
  BY <1>3 DEF ChatFails, Overflows, TurnType
<1>4. CASE Shrunk
  <2>1. LeaveChat("done") \/ (turn.step + 1 \in 0..MaxSteps /\ BeginStep(turn.step + 1))
    BY <1>4 DEF Shrunk, TurnType
  <2> QED BY <1>1, <2>1, Moves
<1> QED BY <1>2, <1>3, <1>4

LEMMA CallMoves ==
  ASSUME AgentTypeOK,
         StartCall \/ AskSent \/ AskFails \/ AskTimesOut \/ ToolEnds \/ Check \/ Answered
  PROVE  turn'.pc \in AtCall /\ turn'.step = turn.step
<1>t. turn \in TurnType /\ AtCall \subseteq TurnPCs
  BY DEF AgentTypeOK, TurnType, AtCall, TurnPCs
<1>1. \E pc \in AtCall : Await(pc)
  <2>1. CASE Check
    <3>1. \A v \in Verdicts(calls[1].kind) \cup {"deny"} : v \in {"allow", "deny", "ask"}
      BY DEF Verdicts
    <3> QED BY <2>1, <3>1 DEF Check, AtCall
  <2>2. CASE ~Check
    BY <2>2 DEF StartCall, AskSent, AskFails, AskTimesOut, ToolEnds, Answered, RunApproved, AtCall
  <2> QED BY <2>1, <2>2
<1> QED BY <1>t, <1>1, Moves

\* Steps that only move the task along.
LEMMA QuietAgent ==
  ASSUME AgentInv, UNCHANGED <<calls, agent, asked, answers, lost, stopAsked, said, ran>>,
         turn'.pc # "new", turn.pc = "none" => turn'.pc = "none",
         turn'.pc \in {"start", "hook", "ask", "wait"} => turn.pc \in {"start", "hook", "ask", "wait"},
         prompt' \in {"allow", "allow_session"} => prompt' = prompt
  PROVE  AgentInv'
BY DEF AgentInv, CallsInv, LogInv, ApprovalInv, FailClosed, StopInv

\* The user's last word on a call that has not been run.
LEMMA LastWord ==
  ASSUME AgentTypeOK, AgentInv, turn.pc \in {"ask", "wait"}, NEW w \in {"allowed", "refused"},
         said' = [said EXCEPT ![calls[1].id] = w], ran' = ran
  PROVE  FailClosed' /\ said'[calls[1].id] = w
<1>1. calls[1].id \in CallIds /\ calls[1].id \notin ran
  BY CurrentCall DEF AgentInv, CallsInv, AtCall
<1>2. said \in [CallIds -> {"nothing", "allowed", "refused"}] /\ ran \subseteq CallIds
  BY DEF AgentTypeOK
<1> QED BY <1>1, <1>2 DEF AgentInv, ApprovalInv, FailClosed

\* The answer of the user is acted upon.
LEMMA AnswerStep ==
  ASSUME AgentTypeOK, AgentInv, Answered
  PROVE  AgentInv'
<1> USE DEF Resumes, Await, logged
<1>1. turn.pc = "wait" /\ UNCHANGED <<calls, agent, asked, answers, lost, stopAsked, said>> /\ prompt' = "none"
  BY DEF Answered
<1>2. CASE agent.interrupted \/ prompt = "deny"
  <2>1. turn' = [turn EXCEPT !.pc = "result"] /\ UNCHANGED ran
    BY <1>2 DEF Answered
  <2>2. turn'.pc = "result"
    BY <2>1 DEF AgentTypeOK
  <2> QED BY <1>1, <2>1, <2>2, QuietAgent
<1>3. CASE ~(agent.interrupted \/ prompt = "deny")
  <2>1. turn' = [turn EXCEPT !.pc = "tool"] /\ ran' = ran \cup {calls[1].id}
    BY <1>3 DEF Answered, RunApproved
  <2>2. turn'.pc = "tool"
    BY <2>1 DEF AgentTypeOK
  <2>3. prompt \in {"allow", "allow_session"}
    BY <1>3 DEF Answered, AgentTypeOK
  <2>4. said[calls[1].id] = "allowed"
    BY <1>3, <2>3 DEF AgentInv, ApprovalInv
  <2>5. 1 \in 1..Len(calls) /\ calls[1].id \in asked /\ Len(calls) \in Nat
    BY <1>1, CurrentCall DEF AgentInv, AtCall
  <2>6. CallsInv'
    <3>1. ASSUME NEW k \in 1..Len(calls), k > 1 PROVE calls[k].id \notin ran'
      <4>1. calls[k].id \notin ran
        BY <3>1 DEF AgentInv, CallsInv
      <4>2. calls[k].id # calls[1].id
        BY <2>5, <3>1 DEF AgentInv, CallsInv
      <4> QED BY <2>1, <4>1, <4>2
    <3> QED BY <1>1, <2>1, <2>2, <2>5, <3>1 DEF AgentInv, CallsInv
  <2>7. LogInv'
    BY <1>1 DEF AgentInv, LogInv
  <2>8. ApprovalInv'
    BY <1>1, <2>1, <2>4 DEF AgentInv, ApprovalInv, FailClosed
  <2>9. StopInv'
    BY <1>1, <2>2 DEF AgentInv, StopInv
  <2> QED BY <2>6, <2>7, <2>8, <2>9 DEF AgentInv
<1> QED BY <1>2, <1>3

\* The model's tool calls enter the log.
LEMMA ModelStep ==
  ASSUME AgentTypeOK, AgentInv, NEW n \in 0..MaxPerStep, NEW kinds \in [1..n -> ToolKinds], ModelAnswers(kinds)
  PROVE  AgentInv'
<1> USE DEF Resumes, LeaveChat, approval
<1>1. /\ turn.pc = "chat" /\ UNCHANGED <<agent, answers, lost, stopAsked, said, ran, prompt>>
  BY DEF ModelAnswers, logged
<1>2. CASE agent.interrupted \/ kinds = <<>>
  <2>1. turn' = [turn EXCEPT !.pc = "done", !.retries = 0, !.overflowed = FALSE] /\ UNCHANGED <<calls, asked>>
    BY <1>2 DEF ModelAnswers, logged
  <2>2. turn'.pc = "done"
    BY <2>1 DEF AgentTypeOK
  <2> QED BY <1>1, <2>1, <2>2, QuietAgent
<1>3. CASE ~(agent.interrupted \/ kinds = <<>>)
  <2>1. /\ turn' = [turn EXCEPT !.pc = "start", !.retries = 0, !.overflowed = FALSE]
        /\ calls' = NewCalls(kinds) /\ asked' = asked \cup Ids(NewCalls(kinds))
    BY <1>3 DEF ModelAnswers
  <2>2. turn'.pc = "start"
    BY <2>1 DEF AgentTypeOK
  <2>3. kinds \in Seq(ToolKinds) /\ kinds # <<>> /\ Cardinality(asked) + Len(kinds) <= MaxCalls
    BY <1>3 DEF ModelAnswers
  <2>4. PICK a \in Nat :
          /\ asked = 1..a
          /\ a + Len(kinds) <= MaxCalls
          /\ calls' # <<>> /\ Len(calls') = Len(kinds)
          /\ \A k \in 1..Len(kinds) : calls'[k].id = a + k
          /\ asked' = 1..(a + Len(kinds))
    BY <2>1, <2>3, NextIds DEF AgentInv
  <2>5. Len(kinds) \in Nat \ {0}
    BY <2>3, EmptySeq
  <2>6. ran \subseteq 1..a /\ (\A i \in CallIds : i \notin 1..a => answers[i] = 0)
    BY <2>4 DEF AgentInv, CallsInv, LogInv
  <2>7. CallsInv'
    <3>1. \A k \in 1..Len(calls') : /\ calls'[k].id = a + k /\ a + k \in 1..(a + Len(kinds)) /\ a + k \in CallIds
                                    /\ a + k \notin 1..a
      BY <2>4, <2>5 DEF CallIds
    <3>2. \A k \in 1..Len(calls') : calls'[k].id \in asked' /\ answers'[calls'[k].id] = 0 /\ calls'[k].id \notin ran'
      BY <1>1, <2>4, <2>6, <3>1
    <3>3. \A j, k \in 1..Len(calls') : calls'[j].id = calls'[k].id => j = k
      BY <2>4, <2>5, <3>1
    <3>4. ran' \subseteq asked' /\ a + Len(kinds) \in Nat /\ 1 \in 1..Len(calls')
      BY <1>1, <2>4, <2>5, <2>6
    <3> QED BY <2>4, <3>2, <3>3, <3>4 DEF CallsInv
  <2>8. LogInv'
    <3>1. \A i \in CallIds : answers[i] = 0 \/ (answers[i] = 1 /\ i \in asked')
      BY <2>4, <2>5 DEF AgentInv, LogInv
    <3>2. ASSUME NEW i \in asked' PROVE i \in lost \/ answers[i] = 1 \/ \E k \in 1..Len(calls') : calls'[k].id = i
      <4>1. CASE i \in asked
        <5>1. calls = <<>>
          BY <1>1 DEF AgentTypeOK
        <5>2. ~(\E k \in 1..Len(calls) : calls[k].id = i)
          BY <5>1, EmptySeq
        <5> QED BY <3>2, <4>1, <5>2 DEF AgentInv, LogInv
      <4>2. CASE i \notin asked
        <5>1. i - a \in 1..Len(kinds) /\ i = a + (i - a)
          BY <2>4, <2>5, <3>2, <4>2
        <5> QED BY <2>4, <5>1
      <4> QED BY <4>1, <4>2
    <3>3. \A i \in lost : i \in asked' /\ answers[i] = 0
      BY <2>4, <2>5 DEF AgentInv, LogInv
    <3>4. \A k \in 1..Len(calls') : calls'[k].id \notin lost
      <4>1. lost \subseteq 1..a
        BY <2>4 DEF AgentInv, LogInv
      <4> QED BY <2>4, <2>5, <4>1
    <3> QED BY <1>1, <3>1, <3>2, <3>3, <3>4 DEF LogInv
  <2>9. ApprovalInv' /\ StopInv'
    <3>1. prompt = "none"
      BY <1>1 DEF AgentTypeOK
    <3> QED BY <1>1, <2>2, <3>1 DEF AgentInv, ApprovalInv, FailClosed, StopInv
  <2> QED BY <2>7, <2>8, <2>9 DEF AgentInv
<1> QED BY <1>2, <1>3

\* A result is logged; an interrupt answers the rest of the step, too.
LEMMA ResultStep ==
  ASSUME AgentTypeOK, AgentInv, Result
  PROVE  AgentInv' /\ (turn'.pc # "done" => ~agent.interrupted)
<1> USE DEF Resumes, approval
<1>1. /\ turn.pc = "result" /\ UNCHANGED <<agent, asked, lost, stopAsked, said, ran, prompt>> /\ prompt = "none"
      /\ turn \in TurnType
  BY DEF Result, AgentTypeOK, TurnType
<1>2. 1 \in 1..Len(calls) /\ Len(calls) \in Nat \ {0}
  BY <1>1, CurrentCall DEF AgentInv, AtCall
<1>3. ApprovalInv'
  BY <1>1 DEF AgentInv, ApprovalInv, FailClosed
<1>4. CASE Len(calls) > 1 /\ ~agent.interrupted
  <2>1. /\ calls' = Tail(calls) /\ Await("start")
        /\ answers' = [i \in CallIds |-> IF i \in Ids(<<calls[1]>>) THEN answers[i] + 1 ELSE answers[i]]
    BY <1>4 DEF Result, Answer
  <2>2. turn'.pc = "start"
    BY <1>1, <2>1 DEF Await, TurnType
  <2>3. Ids(<<calls[1]>>) = {calls[1].id}
    BY DEF Ids
  <2>4. /\ Len(calls') = Len(calls) - 1
        /\ \A k \in 1..Len(calls') : calls'[k] = calls[k + 1] /\ k + 1 \in 1..Len(calls) /\ k + 1 > 1
    BY <1>2, <1>4, <2>1, TailCalls
  <2>5. \A k \in 1..Len(calls) : k > 1 => calls[k].id # calls[1].id
    BY <1>2 DEF AgentInv, CallsInv
  <2>6. \A k \in 1..Len(calls) : calls[k].id \in CallIds /\ calls[k].id \in asked
    BY DEF AgentInv, CallsInv, AgentTypeOK
  <2>7. CallsInv'
    <3>1. \A k \in 1..Len(calls') : calls'[k].id \in asked' /\ answers'[calls'[k].id] = 0 /\ calls'[k].id \notin ran'
      BY <1>1, <2>1, <2>3, <2>4, <2>5, <2>6 DEF AgentInv, CallsInv
    <3>2. ASSUME NEW j \in 1..Len(calls'), NEW k \in 1..Len(calls'), calls'[j].id = calls'[k].id PROVE j = k
      <4>1. j + 1 = k + 1
        <5>1. calls[j + 1].id = calls[k + 1].id /\ j + 1 \in 1..Len(calls) /\ k + 1 \in 1..Len(calls)
          BY <2>4, <3>2
        <5>2. \A m, n \in 1..Len(calls) : calls[m].id = calls[n].id => m = n
          BY DEF AgentInv, CallsInv
        <5> QED BY <5>1, <5>2
      <4>2. j \in Nat /\ k \in Nat
        BY <1>2, <2>4
      <4> QED BY <4>1, <4>2
    <3>3. 1 \in 1..Len(calls')
      BY <1>2, <1>4, <2>4
    <3> QED BY <1>1, <3>1, <3>2, <3>3 DEF AgentInv, CallsInv
  <2>8. LogInv'
    <3>1. \A i \in CallIds : answers'[i] = 0 \/ (answers'[i] = 1 /\ i \in asked')
      BY <1>1, <1>2, <2>1, <2>3, <2>6 DEF AgentInv, LogInv, CallsInv
    <3>2. ASSUME NEW i \in asked PROVE i \in lost \/ answers'[i] = 1 \/ \E k \in 1..Len(calls') : calls'[k].id = i
      <4>1. i \in CallIds
        BY DEF AgentTypeOK
      <4>2. CASE answers[i] = 1
        <5>1. i # calls[1].id
          BY <1>2, <4>2 DEF AgentInv, CallsInv
        <5> QED BY <2>1, <2>3, <4>1, <4>2, <5>1
      <4>3. ASSUME NEW k \in 1..Len(calls), calls[k].id = i
            PROVE  answers'[i] = 1 \/ \E j \in 1..Len(calls') : calls'[j].id = i
        <5>1. CASE k = 1
          <6>1. answers[i] = 0 /\ i = calls[1].id
            BY <1>2, <4>3, <5>1 DEF AgentInv, CallsInv
          <6>2. answers'[i] = answers[i] + 1
            BY <2>1, <2>3, <4>1, <6>1
          <6> QED BY <6>1, <6>2
        <5>2. CASE k > 1
          <6>1. k - 1 \in 1..Len(calls') /\ calls'[k - 1] = calls[k]
            <7>1. k - 1 \in 1..Len(calls') /\ (k - 1) + 1 = k
              BY <1>2, <2>4, <5>2
            <7> QED BY <2>4, <7>1
          <6> QED BY <4>3, <6>1
        <5> QED BY <1>2, <5>1, <5>2
      <4> QED BY <3>2, <4>2, <4>3 DEF AgentInv, LogInv
    <3>3. calls[1].id \notin lost /\ lost \subseteq CallIds
      BY <1>2 DEF AgentInv, LogInv, AgentTypeOK
    <3>4. \A i \in lost : i \in asked' /\ answers'[i] = 0
      BY <1>1, <2>1, <2>3, <3>3 DEF AgentInv, LogInv
    <3>5. \A k \in 1..Len(calls') : calls'[k].id \notin lost
      BY <2>4 DEF AgentInv, LogInv
    <3> QED BY <1>1, <3>1, <3>2, <3>4, <3>5 DEF LogInv
  <2>9. StopInv'
    BY <1>1, <2>2 DEF AgentInv, StopInv
  <2> QED BY <1>3, <1>4, <2>2, <2>7, <2>8, <2>9 DEF AgentInv
<1>5. CASE ~(Len(calls) > 1 /\ ~agent.interrupted)
  <2>1. /\ calls' = <<>>
        /\ answers' = [i \in CallIds |-> IF i \in Ids(calls) THEN answers[i] + 1 ELSE answers[i]]
        /\ IF agent.interrupted \/ turn.step = MaxSteps THEN Await("done")
           ELSE BeginStep(turn.step + 1)
    BY <1>5 DEF Result, Answer
  <2>2. turn'.pc \in {"done", "compact", "chat"} /\ (turn'.pc # "done" => ~agent.interrupted)
    <3>1. CASE agent.interrupted \/ turn.step = MaxSteps
      BY <1>1, <2>1, <3>1 DEF Await, TurnType
    <3>2. CASE ~(agent.interrupted \/ turn.step = MaxSteps)
      <4>1. turn.step + 1 \in 0..MaxSteps /\ BeginStep(turn.step + 1)
        BY <1>1, <2>1, <3>2 DEF TurnType
      <4> QED BY <1>1, <3>2, <4>1, Moves
    <3> QED BY <3>1, <3>2
  <2>3. Len(calls') = 0
    BY <2>1, EmptySeq
  <2>4. Ids(calls) = {calls[k].id : k \in 1..Len(calls)}
    BY DEF Ids
  <2>5. CallsInv'
    BY <1>1, <2>2, <2>3 DEF AgentInv, CallsInv
  <2>6. LogInv'
    <3>1. \A i \in CallIds : i \in Ids(calls) => answers[i] = 0 /\ i \in asked
      BY <2>4 DEF AgentInv, CallsInv
    <3>2. \A i \in CallIds : answers'[i] = 0 \/ (answers'[i] = 1 /\ i \in asked')
      BY <1>1, <2>1, <3>1 DEF AgentInv, LogInv
    <3>3. ASSUME NEW i \in asked PROVE i \in lost \/ answers'[i] = 1
      <4>1. i \in CallIds
        BY DEF AgentTypeOK
      <4>2. i \in lost \/ answers[i] = 1 \/ i \in Ids(calls)
        BY <2>4, <3>3 DEF AgentInv, LogInv
      <4> QED BY <2>1, <3>1, <4>1, <4>2
    <3>4. \A i \in lost : i \in CallIds /\ i \notin Ids(calls)
      BY <2>4 DEF AgentInv, LogInv, AgentTypeOK
    <3>5. \A i \in lost : i \in asked' /\ answers'[i] = 0
      BY <1>1, <2>1, <3>4 DEF AgentInv, LogInv
    <3> QED BY <1>1, <2>3, <3>2, <3>3, <3>5 DEF LogInv
  <2>7. StopInv'
    BY <1>1, <2>2 DEF AgentInv, StopInv
  <2> QED BY <1>3, <2>2, <2>5, <2>6, <2>7 DEF AgentInv
<1> QED BY <1>4, <1>5

\* The turn is over, in order or cut off.
LEMMA EndStep ==
  ASSUME AgentTypeOK, AgentInv, Done \/ SendFails \/ Cancelled \/ TurnRaises
  PROVE  AgentInv'
<1>1. /\ turn' = NoTurn /\ calls' = <<>> /\ prompt' = "none"
      /\ UNCHANGED <<said, ran, asked, answers, stopAsked>>
  BY DEF Done, SendFails, Cancelled, TurnRaises, CutOff, EndTurn, logged
<1>2. lost' = lost \cup {calls[k].id : k \in 1..Len(calls)}
  <2>1. CASE Done
    <3>1. lost' = lost /\ Len(calls) = 0
      BY <2>1, EmptySeq DEF Done, Resumes, AgentTypeOK
    <3> QED BY <3>1
  <2>2. CASE SendFails \/ Cancelled \/ TurnRaises
    BY <2>2 DEF SendFails, Cancelled, TurnRaises, CutOff, Ids
  <2> QED BY <2>1, <2>2
<1>3. turn'.pc = "none" /\ Len(calls') = 0
  BY <1>1, EmptySeq DEF NoTurn
<1>4. CallsInv'
  BY <1>1, <1>3 DEF AgentInv, CallsInv
<1>5. LogInv'
  <2>1. \A k \in 1..Len(calls) : calls[k].id \in asked /\ answers[calls[k].id] = 0
    BY DEF AgentInv, CallsInv
  <2> QED BY <1>1, <1>2, <1>3, <2>1 DEF AgentInv, LogInv
<1>6. ApprovalInv' /\ StopInv'
  BY <1>1, <1>3 DEF AgentInv, ApprovalInv, FailClosed, StopInv
<1> QED BY <1>4, <1>5, <1>6 DEF AgentInv

\* Every step of the turn task.
LEMMA TurnKeeps ==
  ASSUME AgentTypeOK, AgentInv, TurnStep
  PROVE  AgentInv'
<1> USE DEF Resumes, Await, approval, logged
<1>t. turn \in TurnType
  BY DEF AgentTypeOK, TurnType
<1>1. CASE BeginRun
  <2>1. /\ turn'.pc \in {"compact", "chat"} /\ turn.pc = "new"
        /\ UNCHANGED <<calls, asked, answers, lost, stopAsked, said, ran, prompt>>
    BY <1>1, <1>t, Moves DEF BeginRun
  <2>2. prompt = "none" /\ ~stopAsked
    BY <2>1 DEF AgentTypeOK, AgentInv, StopInv
  <2> QED BY <2>1, <2>2 DEF AgentInv, CallsInv, LogInv, ApprovalInv, FailClosed, StopInv
<1>a. CASE Compacted \/ ChatFails \/ ChatRetries \/ Overflows \/ Shrunk \/ ModelFails
  <2>1. /\ UNCHANGED <<calls, agent, asked, answers, lost, stopAsked, said, ran, prompt>>
        /\ turn.pc \in {"compact", "chat", "sleep", "shrink"}
    BY <1>a DEF Compacted, ChatFails, ChatRetries, Overflows, Shrunk, ModelFails
  <2>2. turn'.pc \in {"compact", "chat", "sleep", "shrink", "done"}
    BY <1>a, <1>t, RequestMoves
  <2> QED BY <2>1, <2>2, QuietAgent
<1>2. CASE StartCall \/ Check \/ AskSent \/ AskFails \/ ToolEnds
  <2>1. /\ UNCHANGED <<calls, agent, asked, answers, lost, stopAsked, said, ran>>
        /\ turn.pc \in {"start", "hook", "ask", "tool"}
    BY <1>2 DEF StartCall, Check, AskSent, AskFails, ToolEnds
  <2>2. prompt' \in {"allow", "allow_session"} => prompt' = prompt
    <3>1. \A v \in Verdicts(calls[1].kind) \cup {"deny"} : v \in {"allow", "deny", "ask"}
      BY DEF Verdicts
    <3> QED BY <1>2, <3>1 DEF StartCall, Check, AskSent, AskFails, ToolEnds
  <2>3. /\ turn'.pc \in {"hook", "result", "tool", "ask", "wait"}
        /\ turn'.pc \in {"hook", "ask", "wait"} => turn.pc \in {"start", "hook", "ask"}
    <3>1. CASE Check
      <4>1. \A v \in Verdicts(calls[1].kind) \cup {"deny"} : v \in {"allow", "deny", "ask"}
        BY DEF Verdicts
      <4> QED BY <1>t, <3>1, <4>1 DEF Check, TurnType
    <3>2. CASE ~Check
      BY <1>2, <1>t, <3>2 DEF StartCall, AskSent, AskFails, ToolEnds, TurnType
    <3> QED BY <3>1, <3>2
  <2> QED BY <2>1, <2>2, <2>3, QuietAgent
<1>3. CASE AskTimesOut
  <2>1. /\ turn'.pc = "result" /\ turn.pc = "wait" /\ prompt' = "none"
        /\ UNCHANGED <<calls, agent, asked, answers, lost, stopAsked, ran>>
        /\ said' = [said EXCEPT ![calls[1].id] = "refused"]
    BY <1>3, <1>t DEF AskTimesOut, TurnType
  <2>2. FailClosed'
    BY <2>1, LastWord
  <2> QED BY <2>1, <2>2 DEF AgentInv, CallsInv, LogInv, ApprovalInv, StopInv
<1>4. CASE Answered \/ Result \/ Done \/ SendFails \/ Cancelled \/ TurnRaises
  BY <1>4, AnswerStep, ResultStep, EndStep
<1>5. ASSUME NEW n \in 0..MaxPerStep, NEW kinds \in [1..n -> ToolKinds], ModelAnswers(kinds) PROVE AgentInv'
  BY <1>5, ModelStep
<1> QED BY <1>1, <1>2, <1>3, <1>4, <1>5, <1>a DEF TurnStep

\* Every message of the client.
LEMMA HandleKeeps ==
  ASSUME AgentTypeOK, AgentInv, Handle
  PROVE  AgentInv'
<1> USE DEF approval, logged
<1>t. turn \in TurnType /\ agent \in AgentType
  BY DEF AgentTypeOK, TurnType, AgentType
<1>1. CASE UserPrompts
  <2>1. /\ turn'.pc = "new" /\ ~stopAsked' /\ turn.pc = "none"
        /\ UNCHANGED <<calls, agent, asked, answers, lost, said, ran, prompt>>
    BY <1>1, <1>t DEF UserPrompts, Busy, Await, TurnType
  <2> QED BY <2>1 DEF AgentInv, CallsInv, LogInv, ApprovalInv, FailClosed, StopInv
<1>2. CASE UserInterrupts \/ ConnectionCloses
  <2>1. /\ turn'.pc = turn.pc /\ agent'.interrupted
        /\ UNCHANGED <<calls, asked, answers, lost, ran>>
    BY <1>2, <1>t DEF UserInterrupts, ConnectionCloses, DenyPending, TurnType, AgentType
  <2>2. FailClosed'
    <3>1. CASE turn.pc \in {"ask", "wait"}
      <4>1. said' = [said EXCEPT ![calls[1].id] = "refused"]
        BY <1>2, <3>1 DEF UserInterrupts, ConnectionCloses, DenyPending
      <4> QED BY <2>1, <3>1, <4>1, LastWord
    <3>2. CASE turn.pc \notin {"ask", "wait"}
      <4>1. said' = said
        BY <1>2, <3>2 DEF UserInterrupts, ConnectionCloses, DenyPending
      <4> QED BY <2>1, <4>1 DEF AgentInv, ApprovalInv, FailClosed
    <3> QED BY <3>1, <3>2
  <2>3. StopInv'
    <3>1. stopAsked' => turn.pc # "new"
      BY <1>2 DEF UserInterrupts, ConnectionCloses, AgentTypeOK, AgentInv, StopInv
    <3> QED BY <2>1, <3>1 DEF StopInv
  <2> QED BY <2>1, <2>2, <2>3 DEF AgentInv, CallsInv, LogInv, ApprovalInv
<1>3. ASSUME NEW b \in {"allow", "allow_session", "deny"}, UserDecides(b) PROVE AgentInv'
  <2>1. /\ prompt = "open" /\ prompt' = b
        /\ said' = [said EXCEPT ![calls[1].id] = IF b = "deny" THEN "refused" ELSE "allowed"]
        /\ UNCHANGED <<turn, calls, agent, asked, answers, lost, stopAsked, ran>>
    BY <1>3 DEF UserDecides
  <2>2. turn.pc \in {"ask", "wait"}
    BY <2>1 DEF AgentTypeOK
  <2>3. FailClosed' /\ said'[calls[1].id] = IF b = "deny" THEN "refused" ELSE "allowed"
    BY <2>1, <2>2, LastWord
  <2> QED BY <2>1, <2>3 DEF AgentInv, CallsInv, LogInv, ApprovalInv, StopInv
<1>4. CASE UserEditsRules \/ ClientLeaves \/ \E m \in Modes : UserSetsMode(m)
  <2>1. UNCHANGED <<turn, calls, agent, asked, answers, lost, stopAsked, said, ran, prompt>>
    BY <1>4 DEF UserEditsRules, ClientLeaves, UserSetsMode
  <2> QED BY <2>1 DEF AgentInv, CallsInv, LogInv, ApprovalInv, FailClosed, StopInv
<1> QED BY <1>1, <1>2, <1>3, <1>4 DEF Handle

LEMMA AgentStarts ==
  ASSUME AgentInit
  PROVE  AgentTypeOK /\ AgentInv
<1>1. /\ calls = <<>> /\ Len(calls) = 0 /\ calls \in Seq([id : CallIds, kind : ToolKinds])
      /\ turn.pc = "none" /\ asked = 1..0 /\ 0 \in Nat
  BY EmptySeq DEF AgentInit, NoTurn
<1>2. AgentTypeOK
  <2>1. turn \in TurnType
    BY DEF AgentInit, NoTurn, TurnPCs, TurnType
  <2>2. agent \in [running : BOOLEAN, interrupted : BOOLEAN] /\ ~agent.running
    BY DEF AgentInit
  <2>3. /\ socket = "open" /\ mode \in Modes /\ rules = {} /\ prompt = "none" /\ asked = {} /\ ran = {}
        /\ answers \in [CallIds -> Nat] /\ said \in [CallIds -> {"nothing", "allowed", "refused"}]
        /\ turns \in 0..MaxTurns /\ switches \in 0..MaxSwitches
    BY DEF AgentInit
  <2>4. lost \subseteq CallIds /\ stopAsked \in BOOLEAN /\ late \in Nat
    BY DEF AgentInit
  <2> QED BY <1>1, <2>1, <2>2, <2>3, <2>4 DEF AgentTypeOK, TurnType
<1>3. CallsInv
  BY <1>1 DEF AgentInit, CallsInv
<1>4. LogInv /\ ApprovalInv /\ StopInv
  BY <1>1 DEF AgentInit, LogInv, ApprovalInv, FailClosed, StopInv
<1> QED BY <1>2, <1>3, <1>4 DEF AgentInv

LEMMA AgentSteps ==
  ASSUME AgentTypeOK, AgentInv, [AgentNext]_agentVars
  PROVE  AgentTypeOK' /\ AgentInv'
<1>1. CASE AgentNext
  BY <1>1, TurnTypes, HandleTypes, TurnKeeps, HandleKeeps DEF AgentNext, AgentInv
<1>2. CASE UNCHANGED agentVars
  <2>1. UNCHANGED <<socket, turn, calls, agent, mode, rules, prompt, said, ran, asked, answers, lost, stopAsked,
                    late, turns, switches>>
    BY <1>2 DEF agentVars, approval, logged, bounds
  <2>2. AgentTypeOK'
    BY <2>1 DEF AgentTypeOK
  <2>3. AgentInv'
    BY <2>1 DEF AgentInv, CallsInv, LogInv, ApprovalInv, FailClosed, StopInv
  <2> QED BY <2>2, <2>3
<1> QED BY <1>1, <1>2

\* The code agent's inductive invariant: which calls are owed an answer, whose
\* word is the last, and where an interrupt is kept.  (run, _execute)
THEOREM AgentInvariant == AgentSpec => [](AgentTypeOK /\ AgentInv)
<1>1. AgentInit => AgentTypeOK /\ AgentInv
  BY AgentStarts
<1>2. AgentTypeOK /\ AgentInv /\ [AgentNext]_agentVars => (AgentTypeOK /\ AgentInv)'
  BY AgentSteps
<1> QED BY <1>1, <1>2, PTL DEF AgentSpec

\* A call that needed approval runs only if the user's yes was the last word.
\* (_execute, Connection.ask, deny_all_pending)
THEOREM PromptsFailClosed == AgentSpec => []FailClosed
<1>1. AgentInv => FailClosed
  BY DEF AgentInv, ApprovalInv
<1> QED BY <1>1, AgentInvariant, PTL

\* Every tool call in the log has one result, but for the calls of a step that
\* a disconnect or an exception cut off, which have none.  (run, run_turn)
THEOREM LogIsWellFormed == AgentSpec => []LogWellFormed
<1>1. AgentTypeOK /\ AgentInv => LogWellFormed
  <2> SUFFICES ASSUME AgentTypeOK, AgentInv PROVE LogWellFormed
    OBVIOUS
  <2>1. \A i \in CallIds : answers[i] > 0 => i \in asked
    BY DEF AgentInv, LogInv
  <2>2. ASSUME turn.pc \in {"none", "new", "sleep"} \cup Requests, NEW i \in asked
        PROVE  answers[i] = IF i \in lost THEN 0 ELSE 1
    <3>1. calls = <<>>
      BY <2>2 DEF AgentTypeOK, Requests
    <3>2. Len(calls) = 0
      BY <3>1, EmptySeq
    <3> QED BY <2>2, <3>2 DEF AgentInv, LogInv
  <2> QED BY <2>1, <2>2 DEF LogWellFormed
<1> QED BY <1>1, AgentInvariant, PTL

\* The requests begun after an interrupt are counted right.
LEMMA LateSteps ==
  ASSUME AgentTypeOK, AgentInv, LateInv, [AgentNext]_agentVars
  PROVE  LateInv'
<1> USE DEF Resumes, LateInv
<1>t. turn \in TurnType /\ agent \in AgentType /\ late \in Nat /\ stopAsked \in BOOLEAN
  BY DEF AgentTypeOK, TurnType, AgentType
<1>s. stopAsked => turn.pc # "new" /\ (turn.pc # "none" => agent.interrupted)
  BY DEF AgentInv, StopInv
<1>1. CASE BeginRun
  <2>1. turn.pc = "new" /\ UNCHANGED <<late, stopAsked>>
    BY <1>1 DEF BeginRun
  <2> QED BY <1>s, <1>t, <2>1
<1>2. CASE Compacted \/ ChatRetries
  <2>1. turn.pc \in {"compact", "sleep"} /\ UNCHANGED stopAsked /\ AnotherRequest /\ Await("chat")
    BY <1>2 DEF Compacted, ChatRetries
  <2>2. turn'.pc = "chat"
    BY <1>t, <2>1 DEF Await, TurnType
  <2> QED BY <1>t, <2>1, <2>2 DEF AnotherRequest
<1>3. CASE Overflows
  <2>1. turn.pc = "chat" /\ turn'.pc = "shrink" /\ UNCHANGED stopAsked /\ AnotherRequest
    BY <1>3, <1>t DEF Overflows, TurnType
  <2> QED BY <1>t, <2>1 DEF AnotherRequest
<1>4. CASE ChatFails
  <2>1. turn.pc = "chat" /\ ~agent.interrupted /\ UNCHANGED <<stopAsked, late>>
    BY <1>4 DEF ChatFails
  <2> QED BY <1>s, <1>t, <2>1
<1>5. CASE Shrunk \/ ModelFails
  <2>1. turn.pc \in {"shrink", "chat"} /\ UNCHANGED <<stopAsked, late>>
    BY <1>5 DEF Shrunk, ModelFails
  <2>2. LeaveChat("done") \/ ~agent.interrupted
    BY <1>5 DEF Shrunk, ModelFails
  <2>3. turn'.pc = "done" \/ ~agent.interrupted
    BY <1>t, <2>2 DEF LeaveChat, TurnType
  <2> QED BY <1>s, <1>t, <2>1, <2>3
<1>6. CASE Result
  <2>1. turn.pc = "result" /\ UNCHANGED <<stopAsked, late>>
    BY <1>6 DEF Result
  <2>2. turn'.pc # "done" => ~agent.interrupted
    BY <1>6, ResultStep
  <2> QED BY <1>s, <1>t, <2>1, <2>2
<1>7. CASE Done \/ SendFails \/ Cancelled \/ TurnRaises
  <2>1. turn' = NoTurn /\ UNCHANGED <<stopAsked, late>>
    BY <1>7, Zenon DEF Done, SendFails, Cancelled, TurnRaises, CutOff, EndTurn
  <2>2. turn'.pc = "none"
    BY <2>1 DEF NoTurn
  <2> QED BY <1>t, <2>1, <2>2
<1>8. CASE StartCall \/ AskSent \/ AskFails \/ AskTimesOut \/ ToolEnds \/ Check \/ Answered
  <2>1. turn.pc \in AtCall /\ UNCHANGED <<stopAsked, late>>
    BY <1>8 DEF StartCall, AskSent, AskFails, AskTimesOut, ToolEnds, Check, Answered, AtCall
  <2>2. turn'.pc \in AtCall
    BY <1>8, CallMoves
  <2> QED BY <1>t, <2>1, <2>2 DEF AtCall
<1>9. ASSUME NEW n \in 0..MaxPerStep, NEW kinds \in [1..n -> ToolKinds], ModelAnswers(kinds) PROVE LateInv'
  <2>1. /\ turn.pc = "chat" /\ UNCHANGED <<stopAsked, late>>
        /\ LeaveChat("done") \/ LeaveChat("start")
    BY <1>9 DEF ModelAnswers
  <2>2. turn'.pc \in {"done", "start"}
    BY <1>t, <2>1 DEF LeaveChat, TurnType
  <2> QED BY <1>t, <2>1, <2>2
<1>10. CASE UserPrompts
  <2>1. late' = 0
    BY <1>10 DEF UserPrompts
  <2> QED BY <2>1
<1>11. CASE UserInterrupts \/ ConnectionCloses
  <2>1. /\ turn'.pc = turn.pc /\ UNCHANGED late
        /\ stopAsked' = stopAsked \/ stopAsked' = agent.running
    BY <1>11, <1>t DEF UserInterrupts, ConnectionCloses, TurnType
  <2>2. agent.running <=> turn.pc \notin {"none", "new"}
    BY DEF AgentTypeOK
  <2> QED BY <1>s, <1>t, <2>1, <2>2
<1>12. CASE UserEditsRules \/ ClientLeaves \/ (\E m \in Modes : UserSetsMode(m))
            \/ (\E b \in {"allow", "allow_session", "deny"} : UserDecides(b)) \/ UNCHANGED agentVars
  <2>1. UNCHANGED <<turn, late, stopAsked>>
    BY <1>12 DEF UserEditsRules, ClientLeaves, UserSetsMode, UserDecides, agentVars
  <2> QED BY <2>1
<1> QED BY <1>1, <1>2, <1>3, <1>4, <1>5, <1>6, <1>7, <1>8, <1>9, <1>10, <1>11, <1>12
        DEF AgentNext, TurnStep, Handle

\* What a turn that the user has interrupted no longer does.
NothingNew ==
  /\ asked' = asked /\ turn'.step <= turn.step
  /\ turn.pc = "result" => turn'.pc # "start"

LEMMA InterruptedStep ==
  ASSUME AgentTypeOK, AgentInv, stopAsked, AgentNext
  PROVE  NothingNew
<1> USE DEF Resumes, NothingNew
<1>t. turn \in TurnType /\ agent \in AgentType /\ turn.step \in Nat
  BY DEF AgentTypeOK, TurnType, AgentType
<1>s. turn.pc # "new" /\ (turn.pc # "none" => agent.interrupted)
  BY DEF AgentInv, StopInv
<1>1. CASE Compacted \/ ChatRetries \/ Overflows \/ Shrunk \/ ModelFails
  <2>1. turn.pc \in {"compact", "sleep", "chat", "shrink"} /\ UNCHANGED asked
    BY <1>1 DEF Compacted, ChatRetries, Overflows, Shrunk, ModelFails, logged
  <2>2. Await("chat") \/ LeaveChat("done") \/ turn' = [turn EXCEPT !.pc = "shrink", !.retries = 0, !.overflowed = TRUE]
    BY <1>1, <1>s, <2>1 DEF Compacted, ChatRetries, Overflows, Shrunk, ModelFails
  <2>3. turn'.step = turn.step
    BY <1>t, <2>2 DEF Await, LeaveChat, TurnType
  <2> QED BY <1>t, <2>1, <2>3
<1>2. CASE BeginRun \/ ChatFails
  BY <1>2, <1>s DEF BeginRun, ChatFails
<1>3. CASE Result
  <2>1. turn.pc = "result" /\ UNCHANGED asked /\ agent.interrupted
    BY <1>3, <1>s DEF Result
  <2>2. Await("done")
    BY <1>3, <2>1 DEF Result
  <2>3. turn'.pc = "done" /\ turn'.step = turn.step
    BY <1>t, <2>2 DEF Await, TurnType
  <2> QED BY <1>t, <2>1, <2>3
<1>4. CASE Done \/ SendFails \/ Cancelled \/ TurnRaises
  <2>1. turn' = NoTurn /\ UNCHANGED asked
    BY <1>4, Zenon DEF Done, SendFails, Cancelled, TurnRaises, CutOff, EndTurn, logged
  <2>2. turn'.pc = "none" /\ turn'.step = 0
    BY <2>1 DEF NoTurn
  <2> QED BY <1>t, <2>1, <2>2
<1>5. CASE StartCall \/ AskSent \/ AskFails \/ AskTimesOut \/ ToolEnds \/ Check \/ Answered
  <2>1. turn.pc # "result" /\ UNCHANGED asked
    BY <1>5 DEF StartCall, AskSent, AskFails, AskTimesOut, ToolEnds, Check, Answered, logged
  <2>2. turn'.step = turn.step
    BY <1>5, CallMoves
  <2> QED BY <1>t, <2>1, <2>2
<1>6. ASSUME NEW n \in 0..MaxPerStep, NEW kinds \in [1..n -> ToolKinds], ModelAnswers(kinds) PROVE NothingNew
  <2>1. turn.pc = "chat" /\ LeaveChat("done") /\ UNCHANGED asked
    BY <1>6, <1>s DEF ModelAnswers, logged
  <2>2. turn'.step = turn.step
    BY <1>t, <2>1 DEF LeaveChat, TurnType
  <2> QED BY <1>t, <2>1, <2>2
<1>7. CASE Handle
  <2>1. UNCHANGED asked /\ turn'.step = turn.step /\ (turn'.pc = turn.pc \/ turn'.pc = "new")
    BY <1>7, <1>t DEF Handle, UserPrompts, UserInterrupts, UserEditsRules, UserDecides, UserSetsMode,
       ClientLeaves, ConnectionCloses, Await, TurnType, logged
  <2> QED BY <1>t, <2>1
<1> QED BY <1>1, <1>2, <1>3, <1>4, <1>5, <1>6, <1>7 DEF AgentNext, TurnStep

\* A turn that the user has interrupted acts on nothing more that the model
\* says, and makes at most two more requests.  (run, _chat)
THEOREM InterruptIsHeld == AgentSpec => InterruptHeld
<1>1. AgentInit => LateInv
  BY DEF AgentInit, LateInv, NoTurn
<1>2. AgentTypeOK /\ AgentInv /\ LateInv /\ [AgentNext]_agentVars => LateInv'
  BY LateSteps
<1>3. LateInv => late <= 2
  BY DEF LateInv
<1>4. AgentTypeOK /\ AgentInv /\ [AgentNext]_agentVars
        => [stopAsked => /\ asked' = asked /\ turn'.step <= turn.step
                         /\ turn.pc = "result" => turn'.pc # "start"]_agentVars
  BY InterruptedStep DEF NothingNew
<1> QED BY <1>1, <1>2, <1>3, <1>4, AgentInvariant, PTL DEF AgentSpec, InterruptHeld

-----------------------------------------------------------------------------
\* A caller that has not yet begun an attempt has one left.
TriesInv ==
  \A t \in Threads : /\ caller[t].pc = "idle" => caller[t].tries = 0
                     /\ caller[t].pc \in {"before", "clock"} => caller[t].tries < MaxTries

LEMMA BreakerSteps ==
  ASSUME BreakerTypeOK, TriesInv, [BreakerNext]_breakerVars
  PROVE  BreakerTypeOK' /\ TriesInv'
<1> USE BreakerAssumption DEF BreakerTypeOK, TriesInv, At, Goto, Leave
<1>1. ASSUME NEW t \in Threads, Begin(t) PROVE BreakerTypeOK' /\ TriesInv'
  BY <1>1 DEF Begin
<1>2. ASSUME NEW t \in Threads, BeforeCall(t) PROVE BreakerTypeOK' /\ TriesInv'
  BY <1>2 DEF BeforeCall
<1>3. ASSUME NEW t \in Threads, Clock(t) PROVE BreakerTypeOK' /\ TriesInv'
  BY <1>3 DEF Clock
<1>4. ASSUME NEW t \in Threads, Stamp(t) \/ Failed(t) PROVE BreakerTypeOK' /\ TriesInv'
  <2>1. CASE Stamp(t)
    BY <2>1 DEF Stamp
  <2>2. CASE Failed(t)
    BY <2>2 DEF Failed
  <2> QED BY <1>4, <2>1, <2>2
<1>5. ASSUME NEW t \in Threads, Succeeds(t) \/ Escapes(t) PROVE BreakerTypeOK' /\ TriesInv'
  BY <1>5 DEF Succeeds, Escapes
<1>6. ASSUME NEW t \in Threads, Fails(t) PROVE BreakerTypeOK' /\ TriesInv'
  BY <1>6 DEF Fails
<1>7. CASE TimeoutElapses \/ UNCHANGED breakerVars
  BY <1>7 DEF TimeoutElapses, breakerVars
<1> QED BY <1>1, <1>2, <1>3, <1>4, <1>5, <1>6, <1>7 DEF BreakerNext, CallerStep

\* A retried call asks the dependency at most max_attempts times, however the
\* breaker's fields are raced for.  (retry, CircuitBreaker)
THEOREM BreakerTypeCorrect == BreakerSpec => []BreakerTypeOK
<1>1. BreakerInit => BreakerTypeOK /\ TriesInv
  BY BreakerAssumption DEF BreakerInit, BreakerTypeOK, TriesInv
<1>2. BreakerTypeOK /\ TriesInv /\ [BreakerNext]_breakerVars => (BreakerTypeOK /\ TriesInv)'
  BY BreakerSteps
<1> QED BY <1>1, <1>2, PTL DEF BreakerSpec

-----------------------------------------------------------------------------
\* Every handler on the stack is a signal's.
FramesInv == Len(frames) <= signals

LEMMA FrameSteps ==
  ASSUME TypeOK, FramesInv
  PROVE  /\ Append(frames, "acquire") \in Seq(Frames)
         /\ Len(Append(frames, "acquire")) = Len(frames) + 1
         /\ frames # <<>> =>
              /\ Pop \in Seq(Frames) /\ Len(Pop) <= Len(frames) /\ Len(Pop) \in Nat
              /\ \A f \in Frames :
                   SetTop(f) \in Seq(Frames) /\ Len(SetTop(f)) = Len(frames)
<1>1. frames \in Seq(Frames) /\ Len(frames) \in Nat
  BY DEF TypeOK
<1>2. "acquire" \in Frames
  BY DEF Frames
<1>3. Append(frames, "acquire") \in Seq(Frames) /\ Len(Append(frames, "acquire")) = Len(frames) + 1
  BY <1>1, <1>2, AppendProperties
<1>4. ASSUME frames # <<>>
      PROVE  /\ Pop \in Seq(Frames) /\ Len(Pop) <= Len(frames) /\ Len(Pop) \in Nat
             /\ \A f \in Frames : SetTop(f) \in Seq(Frames) /\ Len(SetTop(f)) = Len(frames)
  <2>1. Len(frames) \in 1..Len(frames) /\ Len(frames) \in Nat \ {0}
    BY <1>1, <1>4, EmptySeq
  <2>2. Pop \in Seq(Frames) /\ Len(Pop) <= Len(frames) /\ Len(Pop) \in Nat
    BY <1>1, <2>1 DEF Pop
  <2>3. \A f \in Frames : SetTop(f) \in Seq(Frames) /\ Len(SetTop(f)) = Len(frames)
    BY <1>1, <2>1, ExceptSeq DEF SetTop
  <2> QED BY <2>2, <2>3
<1> QED BY <1>3, <1>4

LEMMA WorkerSteps ==
  ASSUME TypeOK, FramesInv, [Next]_vars
  PROVE  TypeOK' /\ FramesInv'
<1> USE SignalAssumption
<1>1. CASE Signal
  BY <1>1, FrameSteps DEF Signal, TypeOK, FramesInv
<1>2. CASE HandlerAcquire \/ HandlerSets
  <2>1. PICK f \in Frames : frames # <<>> /\ frames' = SetTop(f)
    BY <1>2 DEF HandlerAcquire, HandlerSets, Frames
  <2>2. frames' \in Seq(Frames) /\ Len(frames') = Len(frames)
    BY <2>1, FrameSteps
  <2> QED BY <1>2, <2>2 DEF HandlerAcquire, HandlerSets, TypeOK, FramesInv
<1>3. CASE HandlerMark
  <2>1. /\ frames # <<>> /\ frames' \in {Pop, SetTop("set")} /\ state' \in {state, "DRAINING"} /\ lock' = FALSE
        /\ UNCHANGED <<main, evlock, stop, active, signals>>
    BY <1>3 DEF HandlerMark
  <2>2. frames' \in Seq(Frames) /\ Len(frames') <= Len(frames) /\ Len(frames') \in Nat
    BY <2>1, FrameSteps DEF TypeOK, Frames
  <2>3. state' \in States
    BY <2>1 DEF TypeOK, States
  <2>4. Len(frames') <= signals' /\ Len(frames') <= MaxSignals
    BY <2>1, <2>2 DEF TypeOK, FramesInv
  <2> QED BY <2>1, <2>2, <2>3, <2>4 DEF TypeOK, FramesInv
<1>4. CASE HandlerStop
  <2>1. frames # <<>> /\ frames' = Pop /\ stop' = TRUE /\ evlock' = FALSE /\ UNCHANGED <<main, lock, state, active, signals>>
    BY <1>4 DEF HandlerStop
  <2>2. frames' \in Seq(Frames) /\ Len(frames') <= Len(frames) /\ Len(frames') \in Nat
    BY <2>1, FrameSteps
  <2>3. Len(frames') <= signals' /\ Len(frames') <= MaxSignals
    BY <2>1, <2>2 DEF TypeOK, FramesInv
  <2> QED BY <2>1, <2>2, <2>3 DEF TypeOK, FramesInv
<1>5. CASE Register \/ EndWait \/ TakeLock \/ SetStopped \/ Close
  <2>1. CASE Register \/ EndWait \/ Close
    BY <2>1 DEF Register, EndWait, Close, TypeOK, FramesInv, States, Mains
  <2>2. CASE TakeLock
    BY <2>2 DEF TakeLock, TypeOK, FramesInv, Mains
  <2>3. CASE SetStopped
    BY <2>3 DEF SetStopped, TypeOK, FramesInv, States, Mains
  <2> QED BY <1>5, <2>1, <2>2, <2>3
<1>6. CASE Loop \/ JobEnds
  BY <1>6 DEF Loop, JobEnds, TypeOK, FramesInv, Mains
<1>8. CASE WaitEnters \/ WaitTests \/ WaitWakes \/ WaitReturns
  <2>1. main' \in Mains /\ evlock' \in BOOLEAN /\ UNCHANGED <<frames, lock, state, stop, active, signals>>
    BY <1>8 DEF WaitEnters, WaitTests, WaitWakes, WaitReturns, Mains
  <2> QED BY <2>1 DEF TypeOK, FramesInv
<1>7. CASE Gone \/ UNCHANGED vars
  BY <1>7 DEF Gone, vars, TypeOK, FramesInv
<1> QED BY <1>1, <1>2, <1>3, <1>4, <1>5, <1>6, <1>7, <1>8 DEF Next, MainThread, Handler

\* The state the worker starts in is well typed.
LEMMA WorkerStarts == Init => TypeOK /\ FramesInv
<1> SUFFICES ASSUME Init PROVE TypeOK /\ FramesInv
  OBVIOUS
<1>1. frames \in Seq(Frames) /\ Len(frames) = 0
  BY EmptySeq DEF Init
<1>2. main \in Mains /\ state \in States /\ lock \in BOOLEAN /\ evlock \in BOOLEAN /\ stop \in BOOLEAN
  BY DEF Init, Mains, States
<1>3. active = 0 /\ signals = 0
  BY DEF Init
<1>4. active \in 0..Concurrency /\ signals \in 0..MaxSignals /\ Len(frames) <= MaxSignals /\ Len(frames) <= signals
  BY <1>1, <1>3, SignalAssumption
<1> QED BY <1>1, <1>2, <1>4 DEF TypeOK, FramesInv

-----------------------------------------------------------------------------
\* A worker nobody has signalled is in its loop or before it, with _state_lock
\* free: nothing but a handler sets the event that leads out.
Unsignalled ==
  signals = 0 =>
    /\ ~stop /\ ~lock /\ frames = <<>>
    /\ main \in {"register", "loop", "backoff", "test", "asleep", "awake"}

\* The code past the lock is the code that has stopped, and stays so.
ClosedStopped == main \in {"close", "exited"} <=> state = "STOPPED"

\* The first signal finds _state_lock free.
OneSignalSafe == signals <= 1 => NoSelfDeadlock

\* The event's lock is held inside wait, or by the handler that sets it.
EventLockInv ==
  signals <= 1 /\ evlock => InWait \/ (frames # <<>> /\ Top = "setting")

ShutdownInv == Unsignalled /\ ClosedStopped /\ OneSignalSafe /\ EventLockInv

\* With one handler on the stack, the frame is the handler.
LEMMA OneFrame ==
  ASSUME TypeOK, FramesInv, signals <= 1, frames # <<>>
  PROVE  /\ Len(frames) = 1 /\ Pop = <<>>
         /\ \A f : Len(SetTop(f)) = 1 /\ SetTop(f)[1] = f
<1>1. frames \in Seq(Frames) /\ Len(frames) \in Nat /\ Len(frames) # 0 /\ signals \in Nat
  BY EmptySeq DEF TypeOK
<1>2. Len(frames) = 1
  <2>1. ASSUME NEW n \in Nat, NEW k \in Nat, n <= k, k <= 1, n # 0 PROVE n = 1
    BY <2>1
  <2>2. Len(frames) <= signals
    BY DEF FramesInv
  <2> QED BY <1>1, <2>1, <2>2, Zenon
<1>3. Pop = <<>>
  BY <1>1, <1>2 DEF Pop
<1>4. ASSUME NEW f PROVE Len(SetTop(f)) = 1 /\ SetTop(f)[1] = f
  BY <1>1, <1>2 DEF SetTop
<1> QED BY <1>2, <1>3, <1>4

LEMMA ShutdownSteps ==
  ASSUME TypeOK, FramesInv, ShutdownInv, [Next]_vars
  PROVE  ShutdownInv'
<1> USE DEF ShutdownInv
<1>0. signals \in Nat /\ main \in Mains /\ state \in States /\ frames \in Seq(Frames)
  BY SignalAssumption DEF TypeOK
<1>1. CASE Signal
  <2>1. signals' = signals + 1 /\ UNCHANGED <<main, lock, evlock, state, stop>>
    BY <1>1 DEF Signal
  <2>2. OneSignalSafe'
    BY <1>0, <2>1 DEF Unsignalled, OneSignalSafe, NoSelfDeadlock
  <2>3. EventLockInv'
    <3> SUFFICES ASSUME signals' <= 1, evlock' PROVE InWait'
      BY DEF EventLockInv
    <3>1. signals = 0 /\ signals <= 1
      BY <1>0, <2>1
    <3> QED BY <2>1, <3>1 DEF Unsignalled, EventLockInv, InWait
  <2> QED BY <1>0, <2>1, <2>2, <2>3 DEF Unsignalled, ClosedStopped
<1>2. CASE HandlerAcquire
  <2>1. frames # <<>> /\ Top = "acquire" /\ frames' = SetTop("held") /\ UNCHANGED <<main, evlock, state, stop, signals>>
    BY <1>2 DEF HandlerAcquire
  <2>2. OneSignalSafe'
    <3> SUFFICES ASSUME signals <= 1 PROVE frames'[Len(frames')] = "held"
      BY <2>1 DEF OneSignalSafe, NoSelfDeadlock, Top
    <3> QED BY <2>1, OneFrame
  <2>3. EventLockInv'
    BY <2>1 DEF EventLockInv, InWait
  <2> QED BY <2>1, <2>2, <2>3 DEF Unsignalled, ClosedStopped
<1>3. CASE HandlerMark
  <2>1. EventLockInv'
    BY <1>3 DEF HandlerMark, EventLockInv, InWait
  <2> QED BY <1>3, <2>1 DEF HandlerMark, Unsignalled, ClosedStopped, OneSignalSafe, NoSelfDeadlock
<1>7. CASE HandlerSets
  <2>1. frames # <<>> /\ frames' = SetTop("setting") /\ UNCHANGED <<main, lock, state, stop, signals>>
    BY <1>7 DEF HandlerSets
  <2>2. ASSUME signals <= 1 PROVE frames' # <<>> /\ frames'[Len(frames')] = "setting"
    BY <2>1, <2>2, OneFrame, EmptySeq
  <2>3. OneSignalSafe' /\ EventLockInv'
    BY <2>1, <2>2 DEF OneSignalSafe, NoSelfDeadlock, EventLockInv, Top
  <2> QED BY <2>1, <2>3 DEF Unsignalled, ClosedStopped
<1>4. CASE HandlerStop
  <2>1. frames # <<>> /\ frames' = Pop /\ evlock' = FALSE /\ UNCHANGED <<main, state, lock, signals>>
    BY <1>4 DEF HandlerStop
  <2>2. OneSignalSafe'
    BY <2>1, OneFrame DEF OneSignalSafe, NoSelfDeadlock
  <2> QED BY <2>1, <2>2 DEF Unsignalled, ClosedStopped, EventLockInv
<1>5. CASE MainThread
  <2>1. frames = <<>> /\ UNCHANGED <<frames, signals, stop>>
    BY <1>5 DEF MainThread, Register, Loop, WaitEnters, WaitTests, WaitWakes, WaitReturns, EndWait, TakeLock,
                SetStopped, Close, Running
  <2>2. OneSignalSafe'
    BY <2>1 DEF OneSignalSafe, NoSelfDeadlock
  <2>3. Unsignalled'
    BY <1>5, <2>1 DEF MainThread, Register, Loop, WaitEnters, WaitTests, WaitWakes, WaitReturns, EndWait, TakeLock,
                      SetStopped, Close, Unsignalled
  <2>4. ClosedStopped'
    BY <1>5 DEF MainThread, Register, Loop, WaitEnters, WaitTests, WaitWakes, WaitReturns, EndWait, TakeLock,
                SetStopped, Close, ClosedStopped
  <2>5. EventLockInv'
    BY <1>5, <2>1 DEF MainThread, Register, Loop, WaitEnters, WaitTests, WaitWakes, WaitReturns, EndWait, TakeLock,
                      SetStopped, Close, EventLockInv, InWait
  <2> QED BY <2>2, <2>3, <2>4, <2>5
<1>6. CASE JobEnds \/ Gone \/ UNCHANGED vars
  BY <1>6 DEF JobEnds, Gone, vars, Unsignalled, ClosedStopped, OneSignalSafe, NoSelfDeadlock,
              EventLockInv, InWait, Top
<1> QED BY <1>1, <1>2, <1>3, <1>4, <1>5, <1>6, <1>7 DEF Next, Handler

\* The invariant of a graceful shutdown.
THEOREM ShutdownInvariant == Spec => [](TypeOK /\ FramesInv /\ ShutdownInv)
<1>1. Init => TypeOK /\ FramesInv /\ ShutdownInv
  BY WorkerStarts DEF Init, ShutdownInv, Unsignalled, ClosedStopped, OneSignalSafe, NoSelfDeadlock,
                          EventLockInv
<1>2. TypeOK /\ FramesInv /\ ShutdownInv /\ [Next]_vars => (TypeOK /\ FramesInv /\ ShutdownInv)'
  BY WorkerSteps, ShutdownSteps
<1> QED BY <1>1, <1>2, PTL DEF Spec

\* How one signal may make the worker wait for itself: never for _state_lock,
\* wherever it finds the worker, and for the event's lock only inside
\* _stop_event.wait; not in the loop, in a sleep, or during the shutdown.
\* (_handle_sigterm, run, _shutdown_gracefully)
THEOREM OneSignalIsSafe ==
  Spec => [](signals <= 1 => NoSelfDeadlock /\ (InWait \/ NoEventDeadlock))
<1>1. ShutdownInv => (signals <= 1 => NoSelfDeadlock /\ (InWait \/ NoEventDeadlock))
  BY DEF ShutdownInv, OneSignalSafe, EventLockInv, NoEventDeadlock
<1> QED BY <1>1, ShutdownInvariant, PTL

\* A worker that has closed its store is STOPPED: a signal that arrives while
\* it closes, or whose handler it interrupted, does not make it DRAINING again.
\* (_handle_sigterm returns early)
THEOREM ClosedIsStopped == Spec => [](main \in {"close", "exited"} => state = "STOPPED")
BY ShutdownInvariant, PTL DEF ShutdownInv, ClosedStopped

-----------------------------------------------------------------------------
\* The type invariants of the worker's signals, the breaker and the agent,
\* whichever of them runs.
THEOREM ProcessTypeCorrect == ProcessFairSpec => []ProcessTypesOK
<1> DEFINE Inv == /\ TypeOK /\ FramesInv /\ BreakerTypeOK /\ TriesInv
                  /\ AgentTypeOK /\ AgentInv
<1>1. ProcessInit => Inv
  <2> SUFFICES ASSUME ProcessInit PROVE Inv
    OBVIOUS
  <2>1. TypeOK /\ FramesInv
    BY WorkerStarts DEF ProcessInit
  <2>2. BreakerTypeOK /\ TriesInv
    BY BreakerAssumption DEF ProcessInit, BreakerInit, BreakerTypeOK, TriesInv
  <2> QED BY <2>1, <2>2, AgentStarts DEF ProcessInit
<1>2. Inv /\ [ProcessNext]_<<process, vars, breakerVars, agentVars>> => Inv'
  <2> SUFFICES ASSUME Inv, [ProcessNext]_<<process, vars, breakerVars, agentVars>> PROVE Inv'
    OBVIOUS
  <2>1. [Next]_vars /\ [BreakerNext]_breakerVars /\ [AgentNext]_agentVars
    BY DEF ProcessNext, WorkerRuns, BreakerRuns, AgentRuns
  <2> QED BY <2>1, WorkerSteps, BreakerSteps, AgentSteps
<1>3. Inv => ProcessTypesOK
  BY DEF ProcessTypesOK
<1> HIDE DEF Inv
<1> QED BY <1>1, <1>2, <1>3, PTL DEF ProcessFairSpec

\* Side by side, the agent and the breaker behave as they do alone.
LEMMA EachPartAlone == ProcessFairSpec => AgentSpec /\ BreakerSpec
<1>1. ProcessInit => AgentInit /\ BreakerInit
  BY DEF ProcessInit
<1>2. [ProcessNext]_<<process, vars, breakerVars, agentVars>>
      => [AgentNext]_agentVars /\ [BreakerNext]_breakerVars
  BY DEF ProcessNext, WorkerRuns, BreakerRuns, AgentRuns
<1> QED BY <1>1, <1>2, PTL DEF ProcessFairSpec, AgentSpec, BreakerSpec

\* Of the process and its parts together, for every value of the constants:
\* prompts fail closed, the log stays well formed, an interrupt holds.
\* (CodeAgent.run, Connection.ask)
THEOREM ProcessPromises == ProcessFairSpec => []FailClosed /\ []LogWellFormed /\ InterruptHeld
BY EachPartAlone, PromptsFailClosed, LogIsWellFormed, InterruptIsHeld
=============================================================================
