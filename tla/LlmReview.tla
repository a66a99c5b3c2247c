------------------------------- MODULE LlmReview -------------------------------
(***************************************************************************)
(* The conversation that makes a review (llm_client.py).  The client sends *)
(* the history to the language model, reads the streamed answer piece by   *)
(* piece, runs the tools the answer calls, appends their results and asks  *)
(* again, until a submit_review call or the turn limit.  An answer without *)
(* a call is reminded of submit_review once, with a trimmed history.       *)
(*                                                                         *)
(* The model may answer anything and stop anywhere; the client must keep   *)
(* the history a valid one and come back with a review.                    *)
(***************************************************************************)
EXTENDS Integers, Sequences

CONSTANTS MaxTurns,  \* max_turns
          MaxCalls,  \* bound: tool calls in one answer
          MaxPieces  \* bound: the pieces that arguments, if any, are streamed in

ASSUME TurnsAssumption == MaxTurns \in Nat \ {0}
ASSUME BoundsAssumption == MaxCalls \in Nat /\ MaxPieces \in Nat

\* Every tool but submit_review is answered by a text: a snippet, search results,
\* "Unknown tool" or an error.
Tools == {"submit_review", "lookup"}

\* A call the model sends: whether it has a function name, in how many pieces its
\* arguments come, and whether they are a JSON object once put together.
SentCalls == {c \in [tool : Tools, named : BOOLEAN, size : {0, MaxPieces}, valid : BOOLEAN] :
                /\ c.size = 0 => c.valid
                /\ ~c.named => c.tool = "lookup" /\ c.size = 0}
Answers == UNION {[1..n -> SentCalls] : n \in 0..MaxCalls}

VARIABLES
  phase,     \* "ask", "stream", "tools", "end"
  turn,      \* requests made
  messages,  \* the history
  reminded,  \* the reminder has been sent
  force,     \* the next request has submit_review as its tool_choice
  forced,    \* the request under way has
  answer,    \* the calls the model is sending
  sent,      \* how many pieces of each call were sent; 0 is its name
  acc,       \* tool_calls_acc
  pending,   \* the calls of the answer still to be handled
  analysis,  \* history variable: the turn whose text the reminder refers to, or 0
  result     \* what review() came back with

vars == <<phase, turn, messages, reminded, force, forced, answer, sent, acc, pending,
          analysis, result>>
stream == <<answer, sent, acc>>
asked == <<turn, reminded, force, forced, analysis>>

System == [role |-> "system"]
User == [role |-> "user"]
\* The text of a message is the turn it was said in, 0 for none.
Assistant(text, calls) == [role |-> "assistant", text |-> text, calls |-> calls]
Reply(id) == [role |-> "tool", id |-> id]

Ids == 1..MaxCalls
Pieces == Ids \X (1..MaxPieces)
PendingCalls == [id : Ids, tool : Tools, args : Seq(Pieces), ok : BOOLEAN]
Messages == {System, User} \cup [role : {"tool"}, id : Ids]
            \cup [role : {"assistant"}, text : 0..MaxTurns, calls : Seq([id : Ids, tool : Tools])]
Reasons == {"timeout", "turns", "no call", "malformed"}
Results == [kind : {"none", "review", "raised"}]
           \cup [kind : {"fallback"}, why : Reasons, summary : SUBSET (1..MaxTurns)]

TypeOK ==
  /\ phase \in {"ask", "stream", "tools", "end"}
  /\ turn \in 0..MaxTurns
  /\ messages \in Seq(Messages)
  /\ reminded \in BOOLEAN /\ force \in BOOLEAN /\ forced \in BOOLEAN
  /\ answer \in Answers /\ sent \in [DOMAIN answer -> -1..MaxPieces]
  /\ DOMAIN acc \subseteq Ids
  /\ pending \in Seq(PendingCalls)
  /\ analysis \in 0..MaxTurns
  /\ result \in Results

Init ==
  /\ phase = "ask" /\ turn = 0
  /\ messages = <<System, User>>
  /\ reminded = FALSE /\ force = FALSE /\ forced = FALSE
  /\ answer = <<>> /\ sent = <<>> /\ acc = <<>> /\ pending = <<>>
  /\ analysis = 0 /\ result = [kind |-> "none"]

-----------------------------------------------------------------------------
(* One request.                                                            *)

\* The locals of _stream_turn go with it.
StreamDone == answer' = <<>> /\ sent' = <<>> /\ acc' = <<>>

Return(kind) == phase' = "end" /\ result' = [kind |-> kind] /\ StreamDone

\* _fallback_result: an INFO finding that says why, and what the model had said.
Fallback(why, summary) ==
  /\ phase' = "end" /\ result' = [kind |-> "fallback", why |-> why, summary |-> summary]
  /\ StreamDone

\* _collect_assistant_content
Said(ms) == {ms[n].text : n \in {k \in DOMAIN ms : ms[k].role = "assistant"}} \ {0}

\* Faulty variant: force_submit is not reset.
AfterAskStuck == force

\* submit_review is forced for one request.
AfterAsk == FALSE

\* Faulty variant: one turn too many.
TurnsLeftLate == turn <= MaxTurns

TurnsLeft == turn < MaxTurns

\* The model starts to answer.
Ask ==
  /\ phase = "ask" /\ TurnsLeft
  /\ turn' = turn + 1
  /\ forced' = force /\ force' = AfterAsk
  /\ answer' \in Answers
  /\ sent' = [i \in DOMAIN answer' |-> -1] /\ acc' = <<>>
  /\ phase' = "stream"
  /\ UNCHANGED <<messages, reminded, pending, analysis, result>>

\* The turn limit.
GiveUp ==
  /\ phase = "ask" /\ ~TurnsLeft
  /\ Fallback("turns", Said(messages))
  /\ UNCHANGED <<messages, asked, pending>>

\* Faulty variant: a request that timed out is repeated, at no turn's cost.
OnTimeoutRepeat ==
  /\ phase' = "ask" /\ turn' = turn - 1 /\ StreamDone
  /\ UNCHANGED <<result, reminded, force, forced, analysis>>

OnTimeout == Fallback("timeout", Said(messages)) /\ UNCHANGED asked

\* No chunk came for LLM_TIMEOUT.
Timeout ==
  /\ phase = "stream"
  /\ OnTimeout
  /\ UNCHANGED <<messages, pending>>

\* Any other error of the request goes to the caller.
Break ==
  /\ phase = "stream"
  /\ Return("raised")
  /\ UNCHANGED <<messages, asked, pending>>

\* Faulty variant: what comes without an id of its own belongs to the newest call.
SlotNewest(i) == IF sent[i] = -1 THEN i ELSE CHOOSE j \in DOMAIN acc : \A k \in DOMAIN acc : k <= j

\* Deltas are put together by the index of their call.
Slot(i) == i

\* The next delta of call i: its name first, then its arguments piece by piece;
\* deltas of several calls may alternate.
Delta(i) ==
  /\ phase = "stream" /\ sent[i] < answer[i].size
  /\ sent' = [sent EXCEPT ![i] = @ + 1]
  /\ acc' = [j \in DOMAIN acc \cup {Slot(i)} |->
               IF j # Slot(i) THEN acc[j]
               ELSE IF sent[i] = -1 THEN <<>> ELSE Append(acc[j], <<i, sent'[i]>>)]
  /\ UNCHANGED <<phase, messages, asked, answer, pending, result>>

-----------------------------------------------------------------------------
(* The answer as a whole.                                                  *)

\* json.loads: no arguments are an empty object; otherwise the text must begin and
\* end as one of the objects sent does.
Parses(args) ==
  args = <<>> \/ LET last == args[Len(args)]
                 IN  args[1][2] = 1 /\ last[2] = answer[last[1]].size /\ answer[last[1]].valid

\* The calls that have a function name, in the order of their indices.
InOrder(S) ==
  {s \in UNION {[1..n -> S] : n \in 0..MaxCalls} :
     /\ \A i \in S : \E n \in DOMAIN s : s[n] = i
     /\ \A m, n \in DOMAIN s : m < n => s[m] < s[n]}
Named == InOrder({i \in DOMAIN acc : answer[i].named})

Structured(indices) ==
  [n \in DOMAIN indices |->
     [id |-> indices[n], tool |-> answer[indices[n]].tool,
      args |-> acc[indices[n]], ok |-> Parses(acc[indices[n]])]]

\* _parse_text_tool_calls: calls written in the text as <tool_call> markup; what
\* stands for an object there may be something else.
InText == UNION {[1..n -> [tool : Tools, ok : BOOLEAN]] : n \in 0..MaxCalls}
Promoted(markup) ==
  [n \in DOMAIN markup |-> [id |-> n, tool |-> markup[n].tool, args |-> <<>>, ok |-> markup[n].ok]]

\* Faulty variant: the model's own text is trimmed too.
TrimmedBare(text) == <<System, User, User>>

\* The history a reminder goes with.
Trimmed(text) ==
  IF text # 0 THEN <<System, User, Assistant(text, <<>>), User>> ELSE <<System, User, User>>

\* Faulty variant: a reminder after the last turn.
RemindsLate == ~reminded

\* One reminder, with a turn left for its answer.
Reminds == ~reminded /\ TurnsLeft

Remind(text) ==
  /\ messages' = Trimmed(text)
  /\ reminded' = TRUE /\ force' = TRUE /\ analysis' = text
  /\ phase' = "ask" /\ StreamDone
  /\ UNCHANGED <<turn, forced, result>>

\* The stream ends: the answer is complete, or cut off by the model's own limits.
\* It may hold a text, and calls written in the text count if there are no others.
Finish ==
  /\ phase = "stream"
  /\ \E text \in {0, turn}, markup \in InText, indices \in Named :
       /\ markup # <<>> => indices = <<>>
       /\ LET calls == IF markup # <<>> THEN Promoted(markup) ELSE Structured(indices)
          IN  IF calls # <<>>
              THEN /\ messages' = Append(messages, Assistant(text,
                        [n \in DOMAIN calls |-> [id |-> calls[n].id, tool |-> calls[n].tool]]))
                   /\ pending' = calls /\ phase' = "tools"
                   /\ UNCHANGED <<asked, stream, result>>
              ELSE /\ UNCHANGED pending
                   /\ \/ Reminds /\ Remind(text)
                      \/ /\ ~Reminds
                         /\ Fallback("no call", {text} \ {0})
                         /\ messages' = Append(messages, Assistant(text, <<>>))
                         /\ UNCHANGED asked

-----------------------------------------------------------------------------
(* The calls of an answer, one after the other.                            *)

Handled ==
  /\ pending' = Tail(pending)
  /\ IF Tail(pending) = <<>> THEN phase' = "ask" /\ StreamDone ELSE UNCHANGED <<phase, stream>>
  /\ UNCHANGED <<asked, result>>

Answered == messages' = Append(messages, Reply(Head(pending).id)) /\ Handled

\* _dispatch_tool: whatever happens there, the model gets a text.
RunTool ==
  /\ phase = "tools" /\ Head(pending).ok /\ Head(pending).tool # "submit_review"
  /\ Answered

\* Faulty variant: a call with bad arguments is skipped.
OnBadArgumentsSkip == Handled /\ UNCHANGED messages

\* The model is told that its arguments did not parse.
OnBadArguments == Answered

\* Faulty variant: a submit_review with bad arguments is handled like the others.
OnBadSubmitGoOn == Answered

\* "give up rather than looping with force_submit cleared"
OnBadSubmit == Fallback("malformed", {}) /\ UNCHANGED <<messages, asked, pending>>

RefuseCall ==
  /\ phase = "tools" /\ ~Head(pending).ok
  /\ IF Head(pending).tool = "submit_review" THEN OnBadSubmit ELSE OnBadArguments

\* _parse_review_result: the review, unless a finding is not what it should be.
SubmitReview ==
  /\ phase = "tools" /\ Head(pending).ok /\ Head(pending).tool = "submit_review"
  /\ Return("review") \/ Return("raised")
  /\ UNCHANGED <<messages, asked, pending>>

Next ==
  \/ Ask \/ GiveUp \/ Timeout \/ Break \/ Finish
  \/ \E i \in DOMAIN answer : Delta(i)
  \/ RunTool \/ RefuseCall \/ SubmitReview

\* A stream that stalls times out; tools run under their own timeouts.
Spec == Init /\ [][Next]_vars /\ WF_vars(Next)

-----------------------------------------------------------------------------
(* Properties.                                                             *)

\* Every request is one the API accepts: a message of the model says something or
\* calls something, each of its calls is answered right after it, once and in
\* order, nothing else is answered, and the model has the next word.
RequestsAreWellFormed ==
  phase \in {"ask", "stream"} =>
    /\ messages[1] = System /\ messages[2] = User
    /\ messages[Len(messages)].role # "assistant"
    /\ \A n \in DOMAIN messages :
         LET m == messages[n] IN
         /\ m.role = "assistant" =>
              /\ m.text # 0 \/ m.calls # <<>>
              /\ \A k \in DOMAIN m.calls :
                   n + k <= Len(messages) /\ messages[n + k] = Reply(m.calls[k].id)
         /\ m.role = "tool" =>
              \E k \in 1..n-1 : messages[k].role = "assistant" /\ n - k <= Len(messages[k].calls)

\* submit_review is forced for the answer to the reminder, and for no other.
ForcedAfterReminder ==
  phase = "stream" => (forced <=> Len(messages) > 2 /\ messages[Len(messages)] = User)

\* "Prose on the final turn must not be discarded via the max-turns path": the
\* limit is reached only by tool calls, and never with a reminder unanswered.
LimitMeansTools ==
  result.kind = "fallback" /\ result.why = "turns" => messages[Len(messages)].role = "tool"

\* The analysis that the reminder refers to is in the history for the model, and in
\* the summary if the model never comes back to it.
AnalysisSurvives ==
  analysis # 0 =>
    /\ phase \in {"ask", "stream"} => analysis \in Said(messages)
    /\ result.kind = "fallback" /\ result.why \in {"timeout", "turns"} => analysis \in result.summary

\* "Tool-call arguments that arrive across multiple chunks must be concatenated
\* correctly": a tool runs, and a review is made, with the arguments sent for that
\* very call, all of them in order, or with none.
CallsAreWhole ==
  phase = "tools" => \A n \in DOMAIN pending :
    LET c == pending[n] IN
    c.ok /\ c.args # <<>> => c.args = [k \in 1..answer[c.id].size |-> <<c.id, k>>]

\* A submit_review ends the review: no request has one in its history.
SubmitIsFinal ==
  phase \in {"ask", "stream"} => \A n \in DOMAIN messages :
    messages[n].role = "assistant" =>
      \A k \in DOMAIN messages[n].calls : messages[n].calls[k].tool # "submit_review"

\* Every review comes back.
ReviewEnds == <>(phase = "end")
=============================================================================
