----------------------------- MODULE CodeAgent -----------------------------
(***************************************************************************)
(* One browser connection of the code agent: Connection (codeagent/web.py) *)
(* and the CodeAgent it owns (codeagent/loop.py, permissions.py).  Two     *)
(* coroutines of one event loop share the agent's fields without a lock:   *)
(* the turn task, and the handler of the client's messages.  A step is     *)
(* what a coroutine does between two awaits.                               *)
(*                                                                         *)
(* Left out: what tools and models compute, a summary included (it         *)
(* replaces messages before the last user message, so whole turns);        *)
(* resuming a saved session.  Call ids are unique, as with native calls.   *)
(***************************************************************************)
EXTENDS Naturals, Sequences, FiniteSets

CONSTANTS
  ToolKinds,    \* categories of the tools on offer: "read", "edit", "exec", "plan"
  MaxSteps,     \* CodeAgent.max_steps
  MaxRetries,   \* len(CodeAgent.retry_delays)
  MaxPerStep,   \* bound: tool calls in one answer of the model
  MaxCalls,     \* bound: tool calls in one behaviour
  MaxTurns,     \* bound: prompts
  MaxSwitches   \* bound: mode changes and rule edits by the user

ASSUME AgentAssumption ==
  /\ ToolKinds \subseteq {"read", "edit", "exec", "plan"}
  /\ MaxSteps \in Nat \ {0} /\ MaxRetries \in Nat /\ MaxPerStep \in Nat /\ MaxCalls \in Nat
  /\ MaxTurns \in Nat /\ MaxSwitches \in Nat

VARIABLES
  socket,       \* "open", "gone" (sends fail) or "closed" (close() has run)
  turn,         \* the turn task: where it awaits, its step, retries of the request,
                \* overflow_retried, whether cancelled
  calls,        \* tool calls of the step still to be answered, the current one first
  agent,        \* running and _interrupted of the agent
  mode, rules,  \* PermissionPolicy.mode; kinds in allow_rules
  prompt,       \* the future in Connection.pending: "none", "open" or its result
  asked,        \* ids of tool calls in the log
  answers,      \* number of tool results in the log, for each id
  said,         \* the last word on the approval of each call (history)
  ran,          \* calls run on an approval (history)
  lost,         \* calls left unanswered by a turn that was cut off (history)
  stopAsked,    \* the user has interrupted the running turn (history)
  late,         \* requests to the model it has begun since (history)
  turns, switches

logged    == <<asked, answers>>
approval  == <<prompt, said, ran>>
bounds    == <<turns, switches>>
agentVars == <<socket, turn, calls, agent, mode, rules, approval, logged, lost, stopAsked, late, bounds>>

Modes   == {"default", "acceptEdits", "plan"}
CallIds == 1..MaxCalls
Requests == {"compact", "chat", "shrink"}    \* awaiting the model
TurnPCs == {"none", "new", "sleep", "start", "hook", "ask", "wait", "tool", "result", "done"}
             \cup Requests
Busy    == turn.pc # "none"
Ids(cs)  == {cs[k].id : k \in 1..Len(cs)}

Await(pc) == turn' = [turn EXCEPT !.pc = pc]
NoTurn    == [pc |-> "none", step |-> 0, retries |-> 0, overflowed |-> FALSE, cancelled |-> FALSE]

\* Every yield of the loop is sent by run_turn before the loop goes on.
Sent == socket = "open" /\ ~turn.cancelled
Resumes(pc) == turn.pc = pc /\ ~turn.cancelled

\* The step has its answer, or the turn its end: the loop's locals are reset.
LeaveChat(pc) == turn' = [turn EXCEPT !.pc = pc, !.retries = 0, !.overflowed = FALSE]

\* The top of step n, not interrupted: with an earlier turn in the log, a
\* context that is nearly full is summarised first.
BeginStep(n) ==
  \E pc \in IF turns > 1 THEN {"compact", "chat"} ELSE {"chat"} :
    turn' = [turn EXCEPT !.pc = pc, !.step = n]

\* Nothing the loop asks the model in "compact", after "sleep" or in "shrink"
\* looks at the flag first.
AnotherRequest == late' = IF stopAsked THEN late + 1 ELSE late

-----------------------------------------------------------------------------
(***************************************************************************)
(* The turn task.                                                          *)
(***************************************************************************)
\* The first step of CodeAgent.run, on the far side of the await in run_turn:
\* an interrupt that came before it is forgotten.
BeginRun ==
  /\ Resumes("new")
  /\ agent' = [running |-> TRUE, interrupted |-> FALSE]
  /\ BeginStep(1)
  /\ UNCHANGED <<socket, calls, mode, rules, approval, logged, lost, stopAsked, late, bounds>>

\* Tool calls with the next unused ids.
NewCalls(kinds) ==
  [i \in 1..Len(kinds) |-> [id |-> Cardinality(asked) + i, kind |-> kinds[i]]]

\* The model's answer is complete (or cut short by an interrupt): it enters
\* the log with all its tool calls.
ModelAnswers(kinds) ==
  /\ Resumes("chat")
  /\ Cardinality(asked) + Len(kinds) <= MaxCalls
  /\ IF agent.interrupted \/ kinds = <<>>
     THEN LeaveChat("done") /\ UNCHANGED <<calls, logged>>
     ELSE /\ calls' = NewCalls(kinds)
          /\ asked' = asked \cup Ids(NewCalls(kinds))
          /\ LeaveChat("start")
          /\ UNCHANGED answers
  /\ UNCHANGED <<socket, agent, mode, rules, approval, lost, stopAsked, late, bounds>>

\* compact() has returned or failed: on to the request itself.
Compacted ==
  /\ Resumes("compact")
  /\ Await("chat")
  /\ AnotherRequest
  /\ UNCHANGED <<socket, calls, agent, mode, rules, approval, logged, lost, stopAsked, bounds>>

\* Mutant: a failed request is retried after an interrupt, too.
ChatFailsAnyway ==
  /\ Resumes("chat")
  /\ turn.retries < MaxRetries
  /\ turn' = [turn EXCEPT !.pc = "sleep", !.retries = @ + 1]
  /\ UNCHANGED <<socket, calls, agent, mode, rules, approval, logged, lost, stopAsked, late, bounds>>

\* _chat: the server was not ready and nothing had been said; a notice, then
\* asyncio.sleep ...
ChatFails ==
  /\ Resumes("chat")
  /\ turn.retries < MaxRetries /\ ~agent.interrupted
  /\ turn' = [turn EXCEPT !.pc = "sleep", !.retries = @ + 1]
  /\ UNCHANGED <<socket, calls, agent, mode, rules, approval, logged, lost, stopAsked, late, bounds>>

\* ... and the request again, without another look at the flag.
ChatRetries ==
  /\ Resumes("sleep")
  /\ Await("chat")
  /\ AnotherRequest
  /\ UNCHANGED <<socket, calls, agent, mode, rules, approval, logged, lost, stopAsked, bounds>>

\* The prompt was rejected as too long: compact(), once until an answer.
Overflows ==
  /\ Resumes("chat")
  /\ ~turn.overflowed /\ turns > 1
  /\ turn' = [turn EXCEPT !.pc = "shrink", !.retries = 0, !.overflowed = TRUE]
  /\ AnotherRequest
  /\ UNCHANGED <<socket, calls, agent, mode, rules, approval, logged, lost, stopAsked, bounds>>

\* It has failed, and so has the turn; or the next step tries again.
Shrunk ==
  /\ Resumes("shrink")
  /\ \/ LeaveChat("done")
     \/ ~agent.interrupted /\ turn.step < MaxSteps /\ BeginStep(turn.step + 1)
  /\ UNCHANGED <<socket, calls, agent, mode, rules, approval, logged, lost, stopAsked, late, bounds>>

\* LLMError, out of retries or not to be retried: the turn is over.
ModelFails ==
  /\ Resumes("chat")
  /\ LeaveChat("done")
  /\ UNCHANGED <<socket, calls, agent, mode, rules, approval, logged, lost, stopAsked, late, bounds>>

\* ToolStart is sent: _execute, up to the PreToolUse hook.
StartCall ==
  /\ Resumes("start") /\ Sent
  /\ Await("hook")
  /\ UNCHANGED <<socket, calls, agent, mode, rules, approval, logged, lost, stopAsked, late, bounds>>

\* PermissionPolicy.check, without deny rules: which verdicts a tool of kind k
\* may get.  (A rule is for one tool or one command, a
\* sensitive path asks anyway, a read-only command needs no approval.)
Verdicts(k) ==
  CASE k = "plan" -> IF mode = "plan" THEN {"ask"} ELSE {"deny"}
    [] k = "read" -> {"allow"}
    [] mode = "plan" -> IF k = "exec" THEN {"allow", "deny"} ELSE {"deny"}
    [] k \in rules -> {"allow", "ask"}
    [] k = "edit" -> IF mode = "acceptEdits" THEN {"allow", "ask"} ELSE {"ask"}
    [] OTHER -> {"ask", "allow"}

\* The hook has returned.  It may block the call; so may a deny rule, bad
\* arguments, an unknown tool, or the third identical call in a row.
Check ==
  /\ Resumes("hook")
  /\ \E v \in Verdicts(calls[1].kind) \cup {"deny"} :
       /\ v = "deny"  => Await("result") /\ UNCHANGED prompt
       /\ v = "allow" => Await("tool") /\ UNCHANGED prompt
       /\ v = "ask"   => Await("ask") /\ prompt' = "open"
  /\ UNCHANGED <<socket, calls, agent, mode, rules, said, ran, logged, lost, stopAsked, late, bounds>>

\* Connection.ask has sent the request, and waits for the future ...
AskSent ==
  /\ Resumes("ask") /\ Sent
  /\ Await("wait")
  /\ UNCHANGED <<socket, calls, agent, mode, rules, approval, logged, lost, stopAsked, late, bounds>>

\* ... or could not: the call is not run.
AskFails ==
  /\ Resumes("ask") /\ ~Sent
  /\ prompt' = "none"
  /\ Await("result")
  /\ UNCHANGED <<socket, calls, agent, mode, rules, said, ran, logged, lost, stopAsked, late, bounds>>

\* Mutant: the user is asked again instead.
AskAgain ==
  /\ Resumes("wait")
  /\ prompt' = "open"
  /\ Await("ask")
  /\ UNCHANGED <<socket, calls, agent, mode, rules, said, ran, logged, lost, stopAsked, late, bounds>>

\* wait_for gives up, also on an answer it has not yet fetched.
AskTimesOut ==
  /\ Resumes("wait")
  /\ prompt' = "none"
  /\ said' = [said EXCEPT ![calls[1].id] = "refused"]
  /\ Await("result")
  /\ UNCHANGED <<socket, calls, agent, mode, rules, ran, logged, lost, stopAsked, late, bounds>>

\* The tool is run on the user's word: an approved plan changes the mode, and
\* "allow for this session" leaves a rule.
RunApproved ==
  /\ mode' = IF calls[1].kind # "plan" THEN mode
             ELSE IF prompt = "allow_session" THEN "acceptEdits" ELSE "default"
  /\ rules' = IF prompt = "allow_session" /\ calls[1].kind # "plan"
              THEN rules \cup {calls[1].kind} ELSE rules
  /\ ran' = ran \cup {calls[1].id}
  /\ Await("tool")

\* Mutant: the flag is not looked at after the prompt.
AnsweredAnyway ==
  /\ Resumes("wait") /\ prompt \notin {"none", "open"}
  /\ IF prompt = "deny" THEN Await("result") /\ UNCHANGED <<mode, rules, ran>> ELSE RunApproved
  /\ prompt' = "none"
  /\ UNCHANGED <<socket, calls, agent, said, logged, lost, stopAsked, late, bounds>>

\* The future has a result; an interrupt since then takes precedence.
Answered ==
  /\ Resumes("wait") /\ prompt \notin {"none", "open"}
  /\ IF agent.interrupted \/ prompt = "deny"
     THEN Await("result") /\ UNCHANGED <<mode, rules, ran>>
     ELSE RunApproved
  /\ prompt' = "none"
  /\ UNCHANGED <<socket, calls, agent, said, logged, lost, stopAsked, late, bounds>>

\* The tool's thread is done, or it raised.
ToolEnds ==
  /\ Resumes("tool")
  /\ Await("result")
  /\ UNCHANGED <<socket, calls, agent, mode, rules, approval, logged, lost, stopAsked, late, bounds>>

Answer(cs) ==
  answers' = [i \in CallIds |->
                IF i \in Ids(cs) THEN answers[i] + 1 ELSE answers[i]]

\* Mutant: an interrupt leaves the rest of the calls without a result.
RestUnanswered ==
  /\ Resumes("result") /\ Sent
  /\ IF Len(calls) > 1 /\ ~agent.interrupted
     THEN /\ Answer(<<calls[1]>>)
          /\ calls' = Tail(calls)
          /\ Await("start")
     ELSE /\ Answer(<<calls[1]>>)
          /\ calls' = <<>>
          /\ IF agent.interrupted \/ turn.step = MaxSteps THEN Await("done")
             ELSE BeginStep(turn.step + 1)
  /\ UNCHANGED <<socket, agent, mode, rules, approval, asked, lost, stopAsked, late, bounds>>

\* ToolEnd is sent and its result logged: on to the next call, or, after an
\* interrupt, every other one is answered in its stead; then the next step.
Result ==
  /\ Resumes("result") /\ Sent
  /\ IF Len(calls) > 1 /\ ~agent.interrupted
     THEN /\ Answer(<<calls[1]>>)
          /\ calls' = Tail(calls)
          /\ Await("start")
     ELSE /\ Answer(calls)
          /\ calls' = <<>>
          /\ IF agent.interrupted \/ turn.step = MaxSteps THEN Await("done")
             ELSE BeginStep(turn.step + 1)
  /\ UNCHANGED <<socket, agent, mode, rules, approval, asked, lost, stopAsked, late, bounds>>

\* The task ends, with the finally blocks of run and ask.
EndTurn ==
  /\ turn' = NoTurn
  /\ calls' = <<>>
  /\ prompt' = "none"

\* TurnDone is sent.
Done ==
  /\ Resumes("done")
  /\ EndTurn
  /\ agent' = [agent EXCEPT !.running = FALSE]
  /\ UNCHANGED <<socket, mode, rules, said, ran, logged, lost, stopAsked, late, bounds>>

\* The task ends where it stands, in the middle of a step.
CutOff == EndTurn /\ lost' = lost \cup Ids(calls)

\* An event cannot be sent: run_turn interrupts the agent and closes the loop.
SendFails ==
  /\ turn.pc \in Requests \cup {"sleep", "start", "result"} /\ ~turn.cancelled /\ ~Sent
  /\ CutOff
  /\ agent' = [running |-> FALSE, interrupted |-> TRUE]
  /\ UNCHANGED <<socket, mode, rules, said, ran, logged, stopAsked, late, bounds>>

\* CancelledError is raised at the await.
Cancelled ==
  /\ Busy /\ turn.cancelled
  /\ CutOff
  /\ agent' = [running |-> FALSE, interrupted |-> TRUE]
  /\ UNCHANGED <<socket, mode, rules, said, ran, logged, stopAsked, late, bounds>>

\* Any other exception, which run_turn turns into a notice, the client being
\* there: public_args on arguments that are no object, when ToolStart is sent;
\* a hook, before the tool or after it.
TurnRaises ==
  /\ turn.pc \in {"start", "hook", "tool"} /\ ~turn.cancelled
  /\ CutOff
  /\ agent' = [agent EXCEPT !.running = FALSE]
  /\ UNCHANGED <<socket, mode, rules, said, ran, logged, stopAsked, late, bounds>>

-----------------------------------------------------------------------------
(***************************************************************************)
(* Connection.handle: the client's messages, one after the other.          *)
(***************************************************************************)
Receives == socket # "closed"

\* "prompt"; a busy agent refuses it.
UserPrompts ==
  /\ Receives /\ ~Busy
  /\ turns < MaxTurns
  /\ turns' = turns + 1
  /\ Await("new")
  /\ stopAsked' = FALSE /\ late' = 0
  /\ UNCHANGED <<socket, calls, agent, mode, rules, approval, logged, lost, switches>>

\* "permission": only a future that has no result takes one.
UserDecides(behavior) ==
  /\ Receives
  /\ prompt = "open"
  /\ prompt' = behavior
  /\ said' = [said EXCEPT ![calls[1].id] = IF behavior = "deny" THEN "refused" ELSE "allowed"]
  /\ UNCHANGED <<socket, turn, calls, agent, mode, rules, ran, logged, lost, stopAsked, late, bounds>>

\* deny_all_pending; whatever the user had said before, this came later.
DenyPending ==
  /\ prompt' = IF prompt = "open" THEN "deny" ELSE prompt
  /\ said' = IF turn.pc \in {"ask", "wait"}
             THEN [said EXCEPT ![calls[1].id] = "refused"] ELSE said
  /\ UNCHANGED ran

\* "interrupt": the flag, then every pending prompt.
UserInterrupts ==
  /\ Receives
  /\ agent' = [agent EXCEPT !.interrupted = TRUE]
  /\ DenyPending
  /\ stopAsked' = agent.running
  /\ UNCHANGED <<socket, turn, calls, mode, rules, logged, lost, late, bounds>>

\* "mode", at any time; bypass is refused.
UserSetsMode(m) ==
  /\ Receives
  /\ switches < MaxSwitches /\ m # mode
  /\ switches' = switches + 1
  /\ mode' = m
  /\ UNCHANGED <<socket, turn, calls, agent, rules, approval, logged, lost, stopAsked, late, turns>>

\* "/permissions allow" and "reset", which a busy agent takes, too ("deny" adds
\* to the verdicts nothing that Check does not allow for).
UserEditsRules ==
  /\ Receives
  /\ switches < MaxSwitches
  /\ switches' = switches + 1
  /\ rules' \in ({{}} \cup {rules \cup {k} : k \in ToolKinds \ {"plan"}}) \ {rules}
  /\ UNCHANGED <<socket, turn, calls, agent, mode, approval, logged, lost, stopAsked, late, turns>>

\* The client goes away; what it has sent before is still received.
ClientLeaves ==
  /\ socket = "open"
  /\ socket' = "gone"
  /\ UNCHANGED <<turn, calls, agent, mode, rules, approval, logged, lost, stopAsked, late, bounds>>

\* ws_endpoint's finally block: interrupt, deny, cancel the task.
ConnectionCloses ==
  /\ socket = "gone"
  /\ socket' = "closed"
  /\ agent' = [agent EXCEPT !.interrupted = TRUE]
  /\ DenyPending
  /\ turn' = [turn EXCEPT !.cancelled = Busy]
  /\ UNCHANGED <<calls, mode, rules, logged, lost, stopAsked, late, bounds>>

-----------------------------------------------------------------------------
AgentInit ==
  /\ socket = "open" /\ turn = NoTurn /\ calls = <<>>
  /\ agent = [running |-> FALSE, interrupted |-> FALSE]
  /\ mode \in Modes /\ rules = {}
  /\ prompt = "none" /\ asked = {} /\ answers = [i \in CallIds |-> 0]
  /\ said = [i \in CallIds |-> "nothing"] /\ ran = {}
  /\ lost = {} /\ stopAsked = FALSE /\ late = 0
  /\ turns = 0 /\ switches = 0

TurnStep ==
  \/ BeginRun \/ Compacted \/ ChatFails \/ ChatRetries \/ Overflows \/ Shrunk \/ ModelFails
  \/ StartCall \/ Check \/ AskSent \/ AskFails \/ AskTimesOut
  \/ Answered \/ ToolEnds \/ Result \/ Done \/ SendFails \/ Cancelled \/ TurnRaises
  \/ \E n \in 0..MaxPerStep : \E kinds \in [1..n -> ToolKinds] : ModelAnswers(kinds)

Handle ==
  \/ UserPrompts \/ UserInterrupts \/ UserEditsRules
  \/ \E b \in {"allow", "allow_session", "deny"} : UserDecides(b)
  \/ \E m \in Modes : UserSetsMode(m)
  \/ ClientLeaves \/ ConnectionCloses

AgentNext == TurnStep \/ Handle

AgentSpec == AgentInit /\ [][AgentNext]_agentVars

\* The event loop schedules the task; models answer or fail, hooks and tools
\* end, a prompt has its timeout.  The user owes nothing.
AgentFairSpec == AgentSpec /\ WF_agentVars(TurnStep)

-----------------------------------------------------------------------------
\* Type invariant; running is the flag of a task that has begun.
AgentTypeOK ==
  /\ socket \in {"open", "gone", "closed"}
  /\ turn \in [pc : TurnPCs, step : 0..MaxSteps, retries : 0..MaxRetries,
              overflowed : BOOLEAN, cancelled : BOOLEAN]
  /\ calls \in Seq([id : CallIds, kind : ToolKinds])
  /\ turn.pc \in {"start", "hook", "ask", "wait", "tool", "result"} <=> calls # <<>>
  /\ agent \in [running : BOOLEAN, interrupted : BOOLEAN]
  /\ agent.running <=> turn.pc \notin {"none", "new"}
  /\ mode \in Modes /\ rules \subseteq {"edit", "exec", "read"}
  /\ prompt \in {"none", "open", "allow", "allow_session", "deny"}
  /\ prompt # "none" => turn.pc \in {"ask", "wait"}
  /\ asked \subseteq CallIds /\ answers \in [CallIds -> Nat]
  /\ said \in [CallIds -> {"nothing", "allowed", "refused"}] /\ ran \subseteq CallIds
  /\ lost \subseteq CallIds /\ stopAsked \in BOOLEAN /\ late \in Nat
  /\ turns \in 0..MaxTurns /\ switches \in 0..MaxSwitches

\* Prompts fail closed: a call that needed approval runs only if the last word
\* on it, when it started, was the user's yes: not after a timeout, a failed
\* send, a disconnect, or an interrupt that came between the yes and the
\* task's next step.  (_execute, Connection.ask, deny_all_pending)
FailClosed == \A i \in ran : said[i] = "allowed"

\* In the log the model is asked with every tool call has one result, also
\* those an interrupt kept from running, and no result is without its call;
\* but for the calls of a step that a disconnect or an exception cut off, which
\* have none, also when the next prompt sends them.  (run, run_turn)
LogWellFormed ==
  /\ \A i \in CallIds : answers[i] > 0 => i \in asked
  /\ turn.pc \in {"none", "new", "sleep"} \cup Requests =>
       \A i \in asked : answers[i] = IF i \in lost THEN 0 ELSE 1

\* Once the user has interrupted a running turn, nothing the model says is
\* acted upon: no call enters the log, no other call is begun, and no other
\* step.  At most two requests are still made, neither of which looked at the
\* flag: that of a retry or of the step being summarised for, and a summary
\* when it is too long.  (run, _chat)
InterruptHeld ==
  /\ [](late <= 2)
  /\ [][stopAsked => /\ asked' = asked /\ turn'.step <= turn.step
                     /\ turn.pc = "result" => turn'.pc # "start"]_agentVars

\* Every turn ends, also when the user says nothing, leaves, or interrupts;
\* then the next prompt is taken.  (run, permission_timeout, close)
TurnEnds == Busy ~> ~Busy
=============================================================================
