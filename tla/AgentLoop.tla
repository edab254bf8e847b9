----------------------------- MODULE AgentLoop -----------------------------
(***************************************************************************)
(* The turns of the bash executor: a request to the model, its reply, the  *)
(* command it asks for, and the limits that stop a model that repeats      *)
(* itself or changes nothing; then what the controller makes of the        *)
(* result.  A request with its retries is one step (ModelRequests), the    *)
(* conversation is reduced to the tool calls nobody answered and the       *)
(* answers nobody called for, and a reply is worth at most one token.      *)
(***************************************************************************)
EXTENDS Naturals, FiniteSets

CONSTANTS
  MaxTurns,      \* max_turns
  Commands,
  RepeatLimit,   \* repeat_command_limit
  IdleLimit,     \* no_diff_limit
  TokenLimit,    \* tokens_without_progress
  NoCommand

ASSUME LoopAssumption ==
  /\ {MaxTurns, RepeatLimit, IdleLimit, TokenLimit} \subseteq Nat /\ NoCommand \notin Commands

VARIABLES
  doing,       \* "ask", "reply", "run", "return", "ended"
  turn,
  reply,       \* what the model said, and if by a call or in its text
  command,     \* the one to run
  bound,       \* the local variable call: "none", "now", "old"
  protocol, format,   \* protocol_errors, format_errors: if any
  counts,      \* command_counts
  idle,        \* no_progress_turns
  diff, last,  \* git diff of tracked files; last_diff
  tokens,      \* in_tokens + out_tokens
  result,      \* outcome, and the tokens told with it
  action,      \* the controller's
  accounted,    \* what the accounting has
  open, stray, \* calls without an answer, answers without a call
  odd          \* history: a reply was not one call with an action, or asked for
               \* research in its text

loopVars == <<doing, turn, reply, command, bound, protocol, format, counts, idle, diff, last,
              tokens, result, action, accounted, open, stray, odd>>

Says == {"shell", "done", "research", "odd", "invalid", "crashing", "noise"}
Outcomes == {"SUCCESS", "PROVIDER", "RATE_LIMIT", "TIMEOUT", "PROTOCOL", "FORMAT", "EXECUTOR",
             "RESOURCE", "POLICY", "SECURITY", "CRASH"}
NoReply == [says |-> "noise", call |-> FALSE]
NoResult == [outcome |-> "SUCCESS", told |-> 0]
Reports == [outcome : Outcomes, told : Nat]

LoopTypeOK ==
  /\ doing \in {"ask", "reply", "run", "return", "ended"} /\ turn \in 0..MaxTurns
  /\ doing = "run" => command \in Commands /\ counts[command] \in 1..RepeatLimit
  /\ \A c \in Commands : counts[c] <= RepeatLimit + (IF doing \in {"return", "ended"} THEN 1 ELSE 0)
  /\ bound \in {"none", "now", "old"} /\ result \in Reports
  /\ idle <= turn + 1 /\ tokens <= accounted
  /\ action \in {"none", "verify", "same", "alternate", "requeue", "block"}

LoopInit ==
  /\ doing = "ask" /\ turn = 0 /\ reply = NoReply /\ command = NoCommand /\ bound = "none"
  /\ protocol = FALSE /\ format = FALSE /\ counts = [c \in Commands |-> 0]
  /\ idle = 0 /\ diff \in 0..1 /\ last = 0   \* last_diff is empty, the diff of a retry is not
  /\ tokens = 0 /\ result = NoResult /\ action = "none" /\ accounted = 0
  /\ open = 0 /\ stray = 0 /\ odd = FALSE

ReturnWith(o, told) ==
  /\ doing' = "return" /\ result' = [outcome |-> o, told |-> told] /\ UNCHANGED turn
NextTurn == doing' = "ask" /\ turn' = turn + 1 /\ UNCHANGED result
talk == <<open, stray, odd>>
limits == <<counts, idle, last>>

-----------------------------------------------------------------------------
(* The model.                                                               *)

MutantAskModel(r, n) ==   \* the tokens of a reply that cannot be parsed are not added
  /\ doing = "ask" /\ turn < MaxTurns
  /\ doing' = "reply" /\ reply' = r
  /\ accounted' = accounted + n /\ tokens' = IF r.says = "noise" THEN tokens ELSE tokens + n
  /\ bound' = IF r.call THEN "now" ELSE IF bound = "none" THEN "none" ELSE "old"
  /\ \E several \in IF r.call THEN BOOLEAN ELSE {FALSE} :
       /\ open' = open + (IF several THEN 2 ELSE IF r.call THEN 1 ELSE 0)
       /\ odd' = (odd \/ several)
  /\ UNCHANGED <<turn, command, protocol, format, limits, diff, result, action, stray>>
AskModel(r, n) ==
  /\ doing = "ask" /\ turn < MaxTurns
  /\ doing' = "reply" /\ reply' = r
  /\ accounted' = accounted + n /\ tokens' = tokens + n
  /\ bound' = IF r.call THEN "now" ELSE IF bound = "none" THEN "none" ELSE "old"
  /\ \E several \in IF r.call THEN BOOLEAN ELSE {FALSE} :
       /\ open' = open + (IF several THEN 2 ELSE IF r.call THEN 1 ELSE 0)
       /\ odd' = (odd \/ several)
  /\ UNCHANGED <<turn, command, protocol, format, limits, diff, result, action, stray>>
\* What is not one reply after the retries; a failed request is recorded
\* without tokens.
AskFails(o) ==
  /\ doing = "ask" /\ turn < MaxTurns
  /\ ReturnWith(o, tokens)
  /\ UNCHANGED <<reply, command, bound, protocol, format, limits, diff, tokens, action, accounted,
                 talk>>
\* A reply that cannot be told from what came before has the worst error's outcome.
TurnsOver ==
  /\ doing = "ask" /\ turn = MaxTurns
  /\ ReturnWith(IF protocol THEN "PROTOCOL" ELSE IF format THEN "FORMAT" ELSE "EXECUTOR", tokens)
  /\ UNCHANGED <<reply, command, bound, protocol, format, limits, diff, tokens, action, accounted,
                 talk>>

-----------------------------------------------------------------------------
(* The reply.                                                               *)

Said(w) == doing = "reply" /\ reply.says = w
InvalidCall ==    \* returned without the tokens so far
  /\ Said("invalid") /\ ReturnWith("PROTOCOL", 0)
  /\ UNCHANGED <<reply, command, bound, protocol, format, limits, diff, tokens, action, accounted,
                 talk>>
CrashingCall ==   \* arguments that are no object
  /\ Said("crashing") /\ ReturnWith("CRASH", 0)
  /\ UNCHANGED <<reply, command, bound, protocol, format, limits, diff, tokens, action, accounted,
                 talk>>
Noise ==
  /\ Said("noise") /\ NextTurn /\ protocol' = TRUE
  /\ UNCHANGED <<reply, command, bound, format, limits, diff, tokens, action, accounted, talk>>
SaysDone ==
  /\ Said("done") /\ ReturnWith("SUCCESS", tokens)
  /\ UNCHANGED <<reply, command, bound, protocol, format, limits, diff, tokens, action, accounted,
                 talk>>
\* The observation answers the last call there was; with none, the executor crashes.
Research ==
  /\ Said("research") /\ bound # "none" /\ NextTurn
  /\ IF bound = "now" THEN open' = open - 1 /\ UNCHANGED <<stray, odd>>
                      ELSE stray' = stray + 1 /\ odd' = TRUE /\ UNCHANGED open
  /\ UNCHANGED <<reply, command, bound, protocol, format, limits, diff, tokens, action, accounted>>
ResearchCrash ==
  /\ Said("research") /\ bound = "none" /\ ReturnWith("CRASH", 0)
  /\ UNCHANGED <<reply, command, bound, protocol, format, limits, diff, tokens, action, accounted,
                 talk>>
OddAction ==      \* the complaint is a user's message, not the call's answer
  /\ Said("odd") /\ NextTurn /\ format' = TRUE
  /\ odd' = (odd \/ reply.call)
  /\ UNCHANGED <<reply, command, bound, protocol, limits, diff, tokens, action, accounted, open,
                 stray>>
MutantCount(c) ==   \* >= for >, after counting
  /\ Said("shell") /\ counts' = [counts EXCEPT ![c] = @ + 1]
  /\ IF counts[c] > RepeatLimit
     THEN ReturnWith("EXECUTOR", tokens) /\ UNCHANGED command
     ELSE doing' = "run" /\ command' = c /\ UNCHANGED <<turn, result>>
  /\ UNCHANGED <<reply, bound, protocol, format, idle, diff, last, tokens, action, accounted, talk>>
Count(c) ==
  /\ Said("shell") /\ counts' = [counts EXCEPT ![c] = @ + 1]
  /\ IF counts[c] + 1 > RepeatLimit
     THEN ReturnWith("EXECUTOR", tokens) /\ UNCHANGED command
     ELSE doing' = "run" /\ command' = c /\ UNCHANGED <<turn, result>>
  /\ UNCHANGED <<reply, bound, protocol, format, idle, diff, last, tokens, action, accounted, talk>>

-----------------------------------------------------------------------------
(* The command.                                                             *)

AnswersCall == IF reply.call THEN open' = open - 1 ELSE UNCHANGED open
Observe(d) ==   \* d: the diff after it
  LET stuck == IF d = last THEN idle + 1 ELSE 0 IN
  /\ doing = "run" /\ diff' = d /\ last' = d /\ idle' = stuck
  /\ IF stuck >= IdleLimit /\ tokens >= TokenLimit
     THEN ReturnWith("EXECUTOR", tokens) /\ UNCHANGED open
     ELSE NextTurn /\ AnswersCall
  /\ UNCHANGED <<reply, command, bound, protocol, format, counts, tokens, action, accounted, stray,
                 odd>>
MutantToolError ==   \* on to the next turn at once
  /\ doing = "run" /\ NextTurn /\ diff' \in 0..1
  /\ UNCHANGED <<reply, command, bound, protocol, format, limits, tokens, action, accounted,
                 talk>>
ToolError ==    \* an exception of the sandbox or of git diff: an observation
  /\ doing = "run" /\ NextTurn /\ AnswersCall /\ diff' \in 0..1
  /\ UNCHANGED <<reply, command, bound, protocol, format, limits, tokens, action, accounted,
                 stray, odd>>
Stopped(o) ==   \* by the sandbox or the policy of commands
  /\ doing = "run" /\ o \in {"TIMEOUT", "RESOURCE", "POLICY", "SECURITY"}
  /\ ReturnWith(o, tokens)
  /\ UNCHANGED <<reply, command, bound, protocol, format, limits, diff, tokens, action, accounted,
                 talk>>

-----------------------------------------------------------------------------
(* The controller: tokens that were recorded and not told are a failure of  *)
(* policy; then the policy of the outcome, for the first such attempt.      *)

Policy(o) == CASE o = "SUCCESS" -> "verify"
               [] o \in {"PROTOCOL", "FORMAT"} -> "same"
               [] o = "RESOURCE" -> "requeue"
               [] o \in {"POLICY", "SECURITY"} -> "block"
               [] OTHER -> "alternate"
Conclude ==
  /\ doing = "return" /\ doing' = "ended"
  /\ action' = IF accounted # result.told THEN "block" ELSE Policy(result.outcome)
  /\ UNCHANGED <<turn, reply, command, bound, protocol, format, limits, diff, tokens, result,
                 accounted, talk>>

Spoken == [says : Says \ {"invalid", "crashing", "noise"}, call : BOOLEAN]
          \cup [says : {"invalid", "crashing"}, call : {TRUE}] \cup {NoReply}
LoopNext ==
  \/ \E r \in Spoken, n \in 0..1 : AskModel(r, n)
  \/ \E o \in {"PROVIDER", "RATE_LIMIT", "TIMEOUT", "PROTOCOL", "POLICY"} : AskFails(o)
  \/ TurnsOver \/ InvalidCall \/ CrashingCall \/ Noise \/ SaysDone \/ Research \/ ResearchCrash
  \/ OddAction \/ \E c \in Commands : Count(c)
  \/ \E d \in 0..1 : Observe(d)
  \/ ToolError \/ \E o \in Outcomes : Stopped(o)
  \/ Conclude
LoopSpec == LoopInit /\ [][LoopNext]_loopVars

-----------------------------------------------------------------------------
(* A job is blocked for its tokens only by a call that was invalid or made  *)
(* the executor crash after tokens were used; every other way out of the    *)
(* loop tells what the accounting recorded (bash.py:300-547,                *)
(* controller.py:893-910).                                                  *)
TokensTold ==
  doing = "ended" =>
    /\ action = "verify" => result.told = accounted
    /\ action = "block" /\ Policy(result.outcome) # "block" =>
         /\ result.outcome \in {"PROTOCOL", "CRASH"} /\ accounted > 0
         /\ reply.says \in {"invalid", "crashing", "research"}

(* The conversation of every request has an answer to every call and none   *)
(* without one, as long as a reply has a single call, with an action, and    *)
(* research is asked for by a call (bash.py:304-311, 378-406, 527-536).      *)
CallsAnswered == doing = "ask" /\ ~odd => open = 0 /\ stray = 0
=============================================================================
