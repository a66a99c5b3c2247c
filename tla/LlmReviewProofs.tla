---------------------------- MODULE LlmReviewProofs ----------------------------
(***************************************************************************)
(* Proofs about LlmReview, for any number of turns, of calls in an answer  *)
(* and of pieces of their arguments: the history is always one the API     *)
(* accepts, arguments are put together as they were sent, and what the     *)
(* model had said survives a reminder.                                     *)
(***************************************************************************)
EXTENDS LlmReview, TLAPS

\* What was received of each call is what was sent of it so far.
Accumulated ==
  /\ DOMAIN acc \subseteq DOMAIN answer
  /\ \A i \in DOMAIN answer :
       /\ sent[i] \in -1..answer[i].size
       /\ i \in DOMAIN acc <=> sent[i] # -1
       /\ i \in DOMAIN acc => acc[i] = [k \in 1..sent[i] |-> <<i, k>>]

Role(n) == messages[n].role
Last == messages[Len(messages)]

\* The calls of the n-th message: those before the end of the history are answered
\* and no submit_review, the others are still to be handled.
Answering(n) ==
  LET calls == messages[n].calls IN
  /\ messages[n].text # 0 \/ calls # <<>>
  /\ \A k \in DOMAIN calls : n + k <= Len(messages) =>
       messages[n + k] = Reply(calls[k].id) /\ calls[k].tool # "submit_review"
  /\ n + Len(calls) > Len(messages) =>
       /\ phase = "tools" /\ n + Len(calls) = Len(messages) + Len(pending)
       /\ \A k \in DOMAIN pending :
            /\ calls[Len(messages) - n + k].id = pending[k].id
            /\ calls[Len(messages) - n + k].tool = pending[k].tool

\* A tool message answers a call of a message before it.
Answers1(n) == \E k \in 1..n-1 : Role(k) = "assistant" /\ n - k <= Len(messages[k].calls)

History ==
  /\ Len(messages) >= 2 /\ messages[1] = System /\ messages[2] = User
  /\ \A n \in DOMAIN messages :
       (Role(n) = "assistant" => Answering(n)) /\ (Role(n) = "tool" => Answers1(n))
  /\ phase \in {"ask", "stream"} => Last.role # "assistant"
  /\ phase = "tools" =>
       /\ pending # <<>>
       /\ \E n \in DOMAIN messages :
            Role(n) = "assistant" /\ n + Len(messages[n].calls) = Len(messages) + Len(pending)

\* The reminder is the last message exactly when its answer is asked for.
Forcing ==
  /\ phase = "ask" => (force <=> Len(messages) > 2 /\ Last = User)
  /\ phase = "stream" => (forced <=> Len(messages) > 2 /\ Last = User)
  /\ phase \in {"stream", "tools"} => ~force

InSaid(text) == \E n \in DOMAIN messages : Role(n) = "assistant" /\ messages[n].text = text

Ongoing ==
  phase # "end" =>
    /\ History /\ Forcing
    /\ phase = "ask" => turn < MaxTurns \/ Last.role = "tool"
    /\ phase = "stream" => turn # 0
    /\ analysis # 0 => reminded /\ InSaid(analysis)
    /\ result.kind = "none"

LlmInv == TypeOK /\ Accumulated /\ Ongoing /\ CallsAreWhole /\ LimitMeansTools /\ AnalysisSurvives

-----------------------------------------------------------------------------
(* Sequences.                                                              *)

LEMMA AsSequence ==
  ASSUME NEW S, NEW n \in Nat, NEW f \in [1..n -> S]
  PROVE  f \in Seq(S) /\ Len(f) = n
  OBVIOUS

LEMMA Appended ==
  ASSUME NEW S, NEW s \in Seq(S), NEW e \in S
  PROVE  /\ Append(s, e) \in Seq(S) /\ Len(s) \in Nat /\ Len(Append(s, e)) = Len(s) + 1
         /\ DOMAIN Append(s, e) = 1..Len(s) + 1 /\ DOMAIN s = 1..Len(s)
         /\ \A n \in 1..Len(s) : Append(s, e)[n] = s[n]
         /\ Append(s, e)[Len(s) + 1] = e
  OBVIOUS

LEMMA Rest ==
  ASSUME NEW S, NEW s \in Seq(S), s # <<>>
  PROVE  /\ Tail(s) \in Seq(S) /\ Len(s) \in Nat \ {0} /\ Len(Tail(s)) = Len(s) - 1
         /\ DOMAIN s = 1..Len(s) /\ DOMAIN Tail(s) = 1..Len(s) - 1
         /\ \A n \in 1..Len(s) - 1 : Tail(s)[n] = s[n + 1]
         /\ Head(s) = s[1] /\ Head(s) \in S
         /\ (Tail(s) = <<>> <=> Len(s) = 1)
<1>1. /\ Tail(s) \in Seq(S) /\ Len(s) \in Nat \ {0} /\ Len(Tail(s)) = Len(s) - 1
      /\ DOMAIN s = 1..Len(s) /\ DOMAIN Tail(s) = 1..Len(s) - 1
      /\ Head(s) = s[1] /\ Head(s) \in S
  OBVIOUS
<1>2. \A n \in 1..Len(s) - 1 : Tail(s)[n] = s[n + 1]
  OBVIOUS
<1>3. Tail(s) = <<>> <=> Len(Tail(s)) = 0
  BY <1>1
<1> QED
  BY <1>1, <1>2, <1>3

LEMMA AssistantMessage ==
  ASSUME NEW text \in 0..MaxTurns, NEW calls \in Seq([id : Ids, tool : Tools])
  PROVE  /\ Assistant(text, calls) \in Messages /\ Assistant(text, calls).role = "assistant"
         /\ Assistant(text, calls).text = text /\ Assistant(text, calls).calls = calls
  BY DEF Assistant, Messages

LEMMA TextMessage ==
  ASSUME NEW text \in 0..MaxTurns
  PROVE  /\ Assistant(text, <<>>) \in Messages /\ Assistant(text, <<>>).role = "assistant"
         /\ Assistant(text, <<>>).text = text /\ Assistant(text, <<>>).calls = <<>>
<1>1. <<>> \in Seq([id : Ids, tool : Tools])
  OBVIOUS
<1> QED
  BY <1>1, AssistantMessage

LEMMA OtherMessages ==
  /\ System \in Messages /\ User \in Messages /\ System.role = "system" /\ User.role = "user"
  /\ \A id \in Ids : Reply(id) \in Messages /\ Reply(id).role = "tool"
  BY DEF Reply, System, User, Messages

LEMMA AssistantTypes ==
  ASSUME NEW m \in Messages, m.role = "assistant"
  PROVE  m.text \in 0..MaxTurns /\ m.calls \in Seq([id : Ids, tool : Tools])
  BY DEF Messages, System, User

-----------------------------------------------------------------------------
(* Types, and the answer being put together.                               *)

LEMMA LlmInitInv == Init => LlmInv
<1> SUFFICES ASSUME Init PROVE LlmInv
  OBVIOUS
<1>1. /\ Len(messages) = 2 /\ messages[1] = System /\ messages[2] = User /\ DOMAIN messages = 1..2
      /\ messages \in Seq(Messages)
  BY DEF Init, Messages
<1>2. System.role = "system" /\ User.role = "user"
  BY DEF System, User
<1>3. answer \in Answers /\ DOMAIN answer = {} /\ DOMAIN acc = {} /\ sent \in [DOMAIN answer -> -1..MaxPieces]
  <2>1. answer \in [1..0 -> SentCalls] /\ 0 \in 0..MaxCalls
    BY BoundsAssumption DEF Init
  <2> QED
    BY <2>1, BoundsAssumption DEF Init, Answers
<1>4. TypeOK
  <2>1. pending \in Seq(PendingCalls) /\ result \in Results
    BY DEF Init, Results
  <2>2. turn \in 0..MaxTurns /\ analysis \in 0..MaxTurns
    BY TurnsAssumption DEF Init
  <2>3. reminded \in BOOLEAN /\ force \in BOOLEAN /\ forced \in BOOLEAN
    BY DEF Init
  <2>4. phase \in {"ask", "stream", "tools", "end"}
    BY DEF Init
  <2>5. DOMAIN acc \subseteq Ids
    BY <1>3
  <2> QED
    BY <1>1, <1>3, <2>1, <2>2, <2>3, <2>4, <2>5 DEF TypeOK
<1>5. Ongoing
  BY <1>1, <1>2, TurnsAssumption DEF Init, Ongoing, History, Forcing, Role, Last
<1> QED
  BY <1>3, <1>4, <1>5 DEF Init, LlmInv, Accumulated, CallsAreWhole, LimitMeansTools, AnalysisSurvives

\* A step that ends the review or the answer.
LEMMA EmptyStream ==
  ASSUME TypeOK, StreamDone
  PROVE  Accumulated' /\ answer' \in Answers /\ sent' \in [DOMAIN answer' -> -1..MaxPieces]
         /\ DOMAIN acc' \subseteq Ids
<1>1. answer' \in [1..0 -> SentCalls] /\ 0 \in 0..MaxCalls
  BY BoundsAssumption DEF StreamDone
<1>2. DOMAIN answer' = {} /\ DOMAIN acc' = {}
  BY DEF StreamDone
<1> QED
  BY <1>1, <1>2 DEF StreamDone, Accumulated, Answers

\* The review ends with something other than a fallback.
LEMMA ReturnInv ==
  ASSUME LlmInv, NEW k \in {"review", "raised"}, Return(k), UNCHANGED <<messages, asked, pending>>
  PROVE  LlmInv'
<1>1. TypeOK'
  BY EmptyStream DEF LlmInv, TypeOK, Return, Results, asked
<1>2. phase' = "end" /\ result'.kind # "fallback"
  BY DEF Return
<1> QED
  BY <1>1, <1>2, EmptyStream
  DEF LlmInv, Ongoing, CallsAreWhole, LimitMeansTools, AnalysisSurvives, Return

\* It ends with a fallback that is about a turn's text or all of them.
LEMMA FallbackInv ==
  ASSUME LlmInv, NEW why \in Reasons, NEW texts \in SUBSET (1..MaxTurns), Fallback(why, texts),
         messages' \in Seq(Messages), UNCHANGED <<asked, pending>>,
         why = "turns" => messages'[Len(messages')].role = "tool",
         why \in {"timeout", "turns"} /\ analysis # 0 => analysis \in texts
  PROVE  LlmInv'
<1>1. TypeOK'
  BY EmptyStream DEF LlmInv, TypeOK, Fallback, Results, asked
<1>2. phase' = "end" /\ result'.kind = "fallback" /\ result'.why = why /\ result'.summary = texts
      /\ analysis' = analysis
  BY DEF Fallback, asked
<1> QED
  BY <1>1, <1>2, EmptyStream
  DEF LlmInv, Ongoing, CallsAreWhole, LimitMeansTools, AnalysisSurvives, Fallback

LEMMA SaidTypes ==
  ASSUME TypeOK
  PROVE  Said(messages) \subseteq 1..MaxTurns /\ (\A t : t # 0 /\ InSaid(t) => t \in Said(messages))
<1>1. \A n \in DOMAIN messages : messages[n] \in Messages
  BY DEF TypeOK
<1>2. \A n \in DOMAIN messages : messages[n].role = "assistant" => messages[n].text \in 0..MaxTurns
  BY <1>1, AssistantTypes
<1> QED
  BY <1>2, TurnsAssumption DEF Said, InSaid, Role

LEMMA EndingsInv ==
  ASSUME LlmInv, GiveUp \/ Timeout \/ Break \/ SubmitReview
  PROVE  LlmInv'
<1>0. TypeOK /\ messages \in Seq(Messages)
  BY DEF LlmInv, TypeOK
<1>1. analysis # 0 /\ phase # "end" => analysis \in Said(messages)
  BY <1>0, SaidTypes DEF LlmInv, Ongoing
<1>2. CASE GiveUp
  <2>1. Last.role = "tool"
    BY <1>2, TurnsAssumption, <1>0 DEF GiveUp, LlmInv, Ongoing, TurnsLeft, TypeOK
  <2>2. "turns" \in Reasons /\ Fallback("turns", Said(messages)) /\ UNCHANGED <<messages, asked, pending>>
        /\ phase # "end"
    BY <1>2 DEF GiveUp, Reasons
  <2> QED
    BY <1>0, <1>1, <2>1, <2>2, SaidTypes, FallbackInv DEF Last
<1>3. CASE Timeout
  <2>1. "timeout" \in Reasons /\ Fallback("timeout", Said(messages)) /\ UNCHANGED <<messages, asked, pending>>
        /\ phase # "end"
    BY <1>3 DEF Timeout, OnTimeout, Reasons
  <2> QED
    BY <1>0, <1>1, <2>1, SaidTypes, FallbackInv
<1>4. CASE Break
  BY <1>4, ReturnInv DEF Break
<1>5. CASE SubmitReview
  BY <1>5, ReturnInv DEF SubmitReview
<1> QED
  BY <1>2, <1>3, <1>4, <1>5

LEMMA AskInv ==
  ASSUME LlmInv, Ask
  PROVE  LlmInv'
<1>1. /\ phase = "ask" /\ phase' = "stream" /\ turn' = turn + 1 /\ turn < MaxTurns /\ turn \in 0..MaxTurns
      /\ forced' = force /\ force' = FALSE
      /\ answer' \in Answers /\ sent' = [i \in DOMAIN answer' |-> -1] /\ acc' = <<>>
      /\ UNCHANGED <<messages, reminded, pending, analysis, result>>
  BY DEF Ask, TurnsLeft, AfterAsk, LlmInv, TypeOK
<1>2. DOMAIN acc' = {}
  BY <1>1
<1>3. \A n \in 0..MaxCalls : \A f \in [1..n -> SentCalls] : \A i \in DOMAIN f : f[i].size \in {0, MaxPieces}
  BY DEF SentCalls
<1>4. \A i \in DOMAIN answer' : answer'[i].size \in {0, MaxPieces}
  BY <1>1, <1>3 DEF Answers
<1>5. sent' \in [DOMAIN answer' -> -1..MaxPieces] /\ \A i \in DOMAIN answer' : sent'[i] = -1 /\ -1 \in -1..answer'[i].size
  BY <1>1, <1>4, BoundsAssumption
<1>6. Accumulated'
  BY <1>1, <1>2, <1>5 DEF Accumulated
<1>7. TypeOK'
  <2>1. turn' \in 0..MaxTurns
    BY <1>1, TurnsAssumption
  <2>2. force' \in BOOLEAN /\ forced' \in BOOLEAN
    BY <1>1 DEF LlmInv, TypeOK
  <2>3. DOMAIN acc' \subseteq Ids
    BY <1>2
  <2> QED
    BY <1>1, <1>5, <2>1, <2>2, <2>3 DEF LlmInv, TypeOK
<1>8. Ongoing'
  <2>1. History'
    BY <1>1 DEF LlmInv, Ongoing, History, Answering, Answers1, Role, Last
  <2>2. Forcing'
    BY <1>1 DEF LlmInv, Ongoing, Forcing, Last
  <2>3. turn' # 0 /\ (analysis' # 0 => reminded' /\ InSaid(analysis)') /\ result'.kind = "none"
    BY <1>1, TurnsAssumption DEF LlmInv, Ongoing, InSaid, Role
  <2> QED
    BY <1>1, <2>1, <2>2, <2>3 DEF Ongoing
<1>9. result'.kind = "none"
  BY <1>1 DEF LlmInv, Ongoing
<1>10. LimitMeansTools' /\ CallsAreWhole'
  BY <1>1, <1>9 DEF LimitMeansTools, CallsAreWhole
<1>11. AnalysisSurvives'
  <2>1. analysis # 0 => analysis \in Said(messages)
    BY <1>1, SaidTypes DEF LlmInv, Ongoing
  <2>2. Said(messages)' = Said(messages)
    BY <1>1
  <2> QED
    BY <1>1, <1>9, <2>1, <2>2 DEF AnalysisSurvives
<1> QED
  BY <1>6, <1>7, <1>8, <1>10, <1>11 DEF LlmInv

\* One more piece, of the call it belongs to.
LEMMA DeltaInv ==
  ASSUME LlmInv, NEW i \in DOMAIN answer, Delta(i)
  PROVE  LlmInv'
<1>1. /\ phase = "stream" /\ sent[i] < answer[i].size /\ UNCHANGED <<phase, messages, asked, answer, pending, result>>
      /\ sent' = [sent EXCEPT ![i] = @ + 1]
      /\ acc' = [j \in DOMAIN acc \cup {i} |->
                   IF j # i THEN acc[j]
                   ELSE IF sent[i] = -1 THEN <<>> ELSE Append(acc[j], <<i, sent'[i]>>)]
  BY DEF Delta, Slot
<1>2. answer \in Answers /\ sent \in [DOMAIN answer -> -1..MaxPieces]
  BY DEF LlmInv, TypeOK
<1>3. DOMAIN answer \subseteq Ids /\ answer[i].size \in {0, MaxPieces}
  <2>1. PICK n \in 0..MaxCalls : answer \in [1..n -> SentCalls]
    BY <1>2 DEF Answers
  <2> QED
    BY <2>1, BoundsAssumption DEF SentCalls, Ids
<1>4. /\ DOMAIN acc \subseteq DOMAIN answer /\ sent[i] \in -1..answer[i].size
      /\ (i \in DOMAIN acc <=> sent[i] # -1)
      /\ (i \in DOMAIN acc => acc[i] = [k \in 1..sent[i] |-> <<i, k>>])
  BY DEF LlmInv, Accumulated
<1>5. sent'[i] = sent[i] + 1 /\ sent'[i] \in 0..answer[i].size /\ sent'[i] \in -1..MaxPieces
      /\ DOMAIN sent' = DOMAIN answer /\ \A j \in DOMAIN answer \ {i} : sent'[j] = sent[j]
  BY <1>1, <1>2, <1>3, <1>4, BoundsAssumption
<1>6. acc'[i] = [k \in 1..sent'[i] |-> <<i, k>>]
  <2>1. CASE sent[i] = -1
    <3>1. acc'[i] = <<>> /\ sent'[i] = 0
      BY <1>1, <1>5, <2>1
    <3> QED
      BY <3>1
  <2>2. CASE sent[i] # -1
    <3>1. acc'[i] = Append(acc[i], <<i, sent'[i]>>) /\ acc[i] = [k \in 1..sent[i] |-> <<i, k>>]
          /\ sent[i] \in Nat /\ sent'[i] = sent[i] + 1
      BY <1>1, <1>3, <1>4, <1>5, <2>2, BoundsAssumption
    <3> DEFINE s == sent[i]
               q == [k \in 1..s |-> <<i, k>>]
               r == [k \in 1..s + 1 |-> <<i, k>>]
    <3>2. s \in Nat
      BY <3>1
    <3> HIDE DEF s
    <3>3. q \in Seq(Ids \X Nat) /\ Len(q) = s /\ <<i, s + 1>> \in Ids \X Nat
      BY <1>3, <3>2
    <3>4. r \in Seq(Ids \X Nat) /\ Len(r) = s + 1
      BY <1>3, <3>2
    <3> DEFINE a == Append(q, <<i, s + 1>>)
    <3>q. \A n \in 1..s : q[n] = <<i, n>>
      OBVIOUS
    <3> HIDE DEF q
    <3>5. /\ a \in Seq(Ids \X Nat) /\ Len(a) = s + 1 /\ a[s + 1] = <<i, s + 1>>
          /\ \A n \in 1..s : a[n] = q[n]
      BY <3>3, Appended
    <3>6. \A n \in 1..s + 1 : a[n] = r[n]
      BY <3>2, <3>5, <3>q
    <3> HIDE DEF a, r
    <3>7. a = r
      BY <3>4, <3>5, <3>6
    <3> QED
      BY <3>1, <3>7 DEF a, r, q, s
  <2> QED
    BY <2>1, <2>2
<1>7. Accumulated'
  <2>1. DOMAIN acc' = DOMAIN acc \cup {i} /\ \A j \in DOMAIN acc \ {i} : acc'[j] = acc[j]
    BY <1>1
  <2>2. ASSUME NEW j \in DOMAIN answer \ {i}
        PROVE  /\ sent'[j] \in -1..answer[j].size
               /\ (j \in DOMAIN acc' <=> sent'[j] # -1)
               /\ (j \in DOMAIN acc' => acc'[j] = [k \in 1..sent'[j] |-> <<j, k>>])
    BY <1>5, <2>1, <2>2 DEF LlmInv, Accumulated
  <2>3. sent'[i] \in -1..answer[i].size /\ i \in DOMAIN acc' /\ sent'[i] # -1
    BY <1>3, <1>5, <2>1, BoundsAssumption
  <2>4. DOMAIN acc' \subseteq DOMAIN answer' /\ answer' = answer
    BY <1>1, <1>4, <2>1
  <2>5. ASSUME NEW j \in DOMAIN answer
        PROVE  /\ sent'[j] \in -1..answer[j].size
               /\ (j \in DOMAIN acc' <=> sent'[j] # -1)
               /\ (j \in DOMAIN acc' => acc'[j] = [k \in 1..sent'[j] |-> <<j, k>>])
    <3>1. CASE j = i
      BY <1>6, <2>3, <3>1
    <3>2. CASE j # i
      BY <2>2, <3>2
    <3> QED
      BY <3>1, <3>2
  <2> QED
    BY <2>4, <2>5 DEF Accumulated
<1>8. TypeOK'
  <2>1. sent' \in [DOMAIN answer' -> -1..MaxPieces]
    BY <1>1, <1>2, <1>5
  <2>2. DOMAIN acc' \subseteq Ids
    BY <1>1, <1>3, <1>4
  <2> QED
    BY <1>1, <2>1, <2>2 DEF LlmInv, TypeOK, asked
<1>9. Ongoing' /\ LimitMeansTools' /\ AnalysisSurvives' /\ CallsAreWhole'
  <2>1. Ongoing'
    BY <1>1 DEF LlmInv, Ongoing, History, Answering, Answers1, Forcing, InSaid, Role, Last, asked
  <2>2. LimitMeansTools' /\ AnalysisSurvives' /\ CallsAreWhole'
    BY <1>1 DEF LlmInv, LimitMeansTools, AnalysisSurvives, CallsAreWhole, asked
  <2> QED
    BY <2>1, <2>2
<1> QED
  BY <1>7, <1>8, <1>9 DEF LlmInv

-----------------------------------------------------------------------------
(* The answer as a whole.                                                  *)

LEMMA PromotedCalls ==
  ASSUME NEW markup \in InText
  PROVE  /\ Promoted(markup) \in Seq(PendingCalls)
         /\ \A n \in DOMAIN Promoted(markup) : Promoted(markup)[n].args = <<>>
<1>1. PICK n \in 0..MaxCalls : markup \in [1..n -> [tool : Tools, ok : BOOLEAN]]
  BY DEF InText
<1>2. \A k \in 1..n : k \in Ids /\ markup[k].tool \in Tools /\ markup[k].ok \in BOOLEAN
  BY <1>1, BoundsAssumption DEF Ids
<1>3. <<>> \in Seq(Pieces)
  OBVIOUS
<1>4. \A k \in 1..n : [id |-> k, tool |-> markup[k].tool, args |-> <<>>, ok |-> markup[k].ok] \in PendingCalls
  BY <1>2, <1>3 DEF PendingCalls
<1>5. Promoted(markup) = [k \in 1..n |-> [id |-> k, tool |-> markup[k].tool, args |-> <<>>, ok |-> markup[k].ok]]
  BY <1>1 DEF Promoted
<1> QED
  BY <1>4, <1>5

\* What was put together for call i, and what it means that it parses.
LEMMA Received ==
  ASSUME LlmInv, NEW i \in DOMAIN acc
  PROVE  /\ i \in DOMAIN answer /\ i \in Ids /\ answer[i].tool \in Tools
         /\ acc[i] \in Seq(Pieces)
         /\ Parses(acc[i]) \in BOOLEAN
         /\ acc[i] # <<>> /\ Parses(acc[i]) => acc[i] = [k \in 1..answer[i].size |-> <<i, k>>]
<1>1. PICK n \in 0..MaxCalls : answer \in [1..n -> SentCalls]
  BY DEF LlmInv, TypeOK, Answers
<1>2. /\ i \in DOMAIN answer /\ sent[i] \in -1..answer[i].size /\ sent[i] # -1
      /\ acc[i] = [k \in 1..sent[i] |-> <<i, k>>]
  BY DEF LlmInv, Accumulated
<1>3. i \in Ids /\ answer[i].tool \in Tools /\ answer[i].size \in {0, MaxPieces}
  BY <1>1, <1>2, BoundsAssumption DEF Ids, SentCalls
<1> DEFINE s == sent[i]
<1>4. s \in Nat /\ s <= MaxPieces /\ answer[i].size \in Nat
  BY <1>2, <1>3, BoundsAssumption
<1>5. acc[i] = [k \in 1..s |-> <<i, k>>]
  BY <1>2
<1> HIDE DEF s
<1>6. \A k \in 1..s : <<i, k>> \in Pieces
  BY <1>3, <1>4, BoundsAssumption DEF Pieces
<1>7. acc[i] \in Seq(Pieces) /\ Len(acc[i]) = s
  BY <1>4, <1>5, <1>6
<1>8. Parses(acc[i]) \in BOOLEAN
  BY DEF Parses
<1>9. ASSUME acc[i] # <<>>, Parses(acc[i]) PROVE acc[i] = [k \in 1..answer[i].size |-> <<i, k>>]
  <2>1. s # 0
    BY <1>7, <1>9
  <2>2. acc[i][s] = <<i, s>>
    BY <1>4, <1>5, <2>1
  <2>3. <<i, s>>[1] = i /\ <<i, s>>[2] = s
    OBVIOUS
  <2>4. s = answer[i].size
    BY <1>7, <1>9, <2>2, <2>3 DEF Parses
  <2> QED
    BY <1>5, <2>4
<1> QED
  BY <1>2, <1>3, <1>7, <1>8, <1>9

LEMMA StructuredCalls ==
  ASSUME LlmInv, NEW indices \in Named
  PROVE  /\ Structured(indices) \in Seq(PendingCalls)
         /\ \A n \in DOMAIN Structured(indices) :
              LET c == Structured(indices)[n] IN
              c.ok /\ c.args # <<>> => c.args = [k \in 1..answer[c.id].size |-> <<c.id, k>>]
<1>1. PICK n \in 0..MaxCalls : indices \in [1..n -> {i \in DOMAIN acc : answer[i].named}]
  BY DEF Named, InOrder
<1> DEFINE Call(k) == [id |-> indices[k], tool |-> answer[indices[k]].tool,
                       args |-> acc[indices[k]], ok |-> Parses(acc[indices[k]])]
<1>2. Structured(indices) = [k \in 1..n |-> Call(k)]
  BY <1>1 DEF Structured
<1>3. \A k \in 1..n : indices[k] \in DOMAIN acc
  BY <1>1
<1>4. \A k \in 1..n : Call(k) \in PendingCalls
  <2> TAKE k \in 1..n
  <2>1. /\ indices[k] \in Ids /\ answer[indices[k]].tool \in Tools /\ acc[indices[k]] \in Seq(Pieces)
        /\ Parses(acc[indices[k]]) \in BOOLEAN
    BY <1>3, Received
  <2> QED
    BY <2>1 DEF PendingCalls
<1>5. ASSUME NEW k \in 1..n, Call(k).ok, Call(k).args # <<>>
      PROVE  Call(k).args = [j \in 1..answer[Call(k).id].size |-> <<Call(k).id, j>>]
  <2> DEFINE i == indices[k]
  <2>1. Call(k).id = i /\ Call(k).args = acc[i] /\ (Call(k).ok <=> Parses(acc[i]))
    OBVIOUS
  <2>2. i \in DOMAIN acc
    BY <1>3
  <2>3. acc[i] = [j \in 1..answer[i].size |-> <<i, j>>]
    BY <1>5, <2>1, <2>2, Received
  <2> QED
    BY <2>1, <2>3
<1> HIDE DEF Call
<1>6. n \in Nat /\ Structured(indices) \in Seq(PendingCalls) /\ DOMAIN Structured(indices) = 1..n
  BY <1>2, <1>4, BoundsAssumption
<1> QED
  BY <1>2, <1>5, <1>6

\* The answer calls something.
LEMMA CallsInv ==
  ASSUME LlmInv, phase = "stream", NEW text \in {0, turn}, NEW calls \in Seq(PendingCalls), calls # <<>>,
         \A n \in DOMAIN calls : calls[n].ok /\ calls[n].args # <<>> =>
           calls[n].args = [k \in 1..answer[calls[n].id].size |-> <<calls[n].id, k>>],
         messages' = Append(messages, Assistant(text,
                       [n \in DOMAIN calls |-> [id |-> calls[n].id, tool |-> calls[n].tool]])),
         pending' = calls, phase' = "tools", UNCHANGED <<asked, stream, result>>
  PROVE  LlmInv'
<1>1. PICK N \in Nat \ {0} : Len(calls) = N /\ DOMAIN calls = 1..N /\ calls \in [1..N -> PendingCalls]
  OBVIOUS
<1>0. N \in Nat
  OBVIOUS
<1>2. PICK shown : shown = [n \in DOMAIN calls |-> [id |-> calls[n].id, tool |-> calls[n].tool]]
  OBVIOUS
<1>3. \A n \in 1..N : /\ calls[n].id \in Ids /\ calls[n].tool \in Tools
                       /\ shown[n] = [id |-> calls[n].id, tool |-> calls[n].tool]
  BY <1>1, <1>2 DEF PendingCalls
<1>4. /\ shown \in Seq([id : Ids, tool : Tools]) /\ Len(shown) = N /\ DOMAIN shown = 1..N
      /\ shown # <<>> /\ \A n \in 1..N : shown[n].id = calls[n].id /\ shown[n].tool = calls[n].tool
  <2>1. shown = [n \in 1..N |-> [id |-> calls[n].id, tool |-> calls[n].tool]]
    BY <1>1, <1>2
  <2>2. \A n \in 1..N : [id |-> calls[n].id, tool |-> calls[n].tool] \in [id : Ids, tool : Tools]
    BY <1>3
  <2>3. shown \in [1..N -> [id : Ids, tool : Tools]] /\ DOMAIN shown = 1..N
    BY <2>1, <2>2
  <2>4. shown \in Seq([id : Ids, tool : Tools]) /\ Len(shown) = N
    BY <1>0, <2>3, AsSequence
  <2>5. shown # <<>>
    BY <2>3, <2>4
  <2> QED
    BY <1>3, <2>3, <2>4, <2>5
<1>5. text \in 0..MaxTurns /\ messages \in Seq(Messages)
  BY TurnsAssumption DEF LlmInv, TypeOK
<1>6. PICK m : m = Assistant(text, shown)
  OBVIOUS
<1>7. m \in Messages /\ m.role = "assistant" /\ m.text = text /\ m.calls = shown
  BY <1>4, <1>5, <1>6, AssistantMessage
<1>8. PICK L \in Nat : L = Len(messages)
  BY <1>5
<1>9. /\ messages' = Append(messages, m) /\ messages' \in Seq(Messages) /\ Len(messages') = L + 1
      /\ DOMAIN messages' = 1..L + 1 /\ DOMAIN messages = 1..L
      /\ (\A n \in 1..L : messages'[n] = messages[n]) /\ messages'[L + 1] = m
  <2>1. messages' = Append(messages, m)
    BY <1>2, <1>6
  <2> QED
    BY <2>1, <1>5, <1>7, <1>8, Appended
<1>10. TypeOK'
  BY <1>9 DEF LlmInv, TypeOK, asked, stream
<1>11. Accumulated'
  BY DEF LlmInv, Accumulated, stream
<1>12. CallsAreWhole' /\ LimitMeansTools' /\ AnalysisSurvives'
  BY DEF LlmInv, Ongoing, CallsAreWhole, LimitMeansTools, AnalysisSurvives, asked, stream
<1>13. History /\ Forcing
  BY DEF LlmInv, Ongoing
<1>14. Answering(L + 1)'
  <2>1. \A k \in 1..N : (L + 1) - (L + 1) + k = k /\ ~(L + 1 + k <= L + 1)
    BY <1>1, <1>8
  <2>2. (L + 1) + N = (L + 1) + Len(calls)
    BY <1>1
  <2> QED
    BY <1>1, <1>4, <1>7, <1>9, <2>1, <2>2 DEF Answering
<1>15. ASSUME NEW n \in 1..L
       PROVE  (Role(n) = "assistant" => Answering(n))' /\ (Role(n) = "tool" => Answers1(n))'
  <2>1. messages'[n] = messages[n] /\ n \in DOMAIN messages /\ messages[n] \in Messages
    BY <1>5, <1>9
  <2>2. CASE messages[n].role = "assistant"
    <3>1. Answering(n)
      BY <1>13, <2>1, <2>2 DEF History, Role
    <3>2. PICK c \in Seq([id : Ids, tool : Tools]) : c = messages[n].calls
      BY <2>1, <2>2, AssistantTypes
    <3>3. PICK K \in Nat : Len(c) = K /\ DOMAIN c = 1..K
      OBVIOUS
    <3>4. n + K <= L
      BY <1>8, <3>1, <3>2, <3>3 DEF Answering
    <3>5. \A k \in 1..K : n + k \in 1..L /\ messages'[n + k] = messages[n + k]
      BY <1>8, <1>9, <3>4
    <3>6. messages'[n].calls = c /\ messages'[n].text = messages[n].text /\ ~(n + Len(c) > Len(messages'))
      BY <1>8, <1>9, <2>1, <3>2, <3>3, <3>4
    <3>7. /\ messages[n].text # 0 \/ c # <<>>
          /\ \A k \in 1..K : n + k <= L => messages[n + k] = Reply(c[k].id) /\ c[k].tool # "submit_review"
      BY <1>8, <3>1, <3>2, <3>3 DEF Answering
    <3>8. \A k \in 1..K : messages'[n + k] = Reply(c[k].id) /\ c[k].tool # "submit_review"
      <4> TAKE k \in 1..K
      <4>1. n + k <= L
        BY <3>5
      <4> QED
        BY <3>5, <3>7, <4>1
    <3>9. Answering(n)'
      BY <3>3, <3>6, <3>7, <3>8 DEF Answering
    <3> QED
      BY <2>1, <2>2, <3>9 DEF Role
  <2>3. CASE messages[n].role # "assistant"
    <3>1. Role(n) = "tool" => Answers1(n)
      BY <1>13, <2>1 DEF History
    <3>2. \A k \in 1..n - 1 : k \in 1..L /\ messages'[k] = messages[k]
      BY <1>8, <1>9
    <3>3. (Role(n) = "tool")' => Answers1(n)'
      BY <2>1, <3>1, <3>2 DEF Answers1, Role
    <3> QED
      BY <2>1, <2>3, <3>3 DEF Role
  <2> QED
    BY <2>2, <2>3
<1>16. History'
  <2>1. Len(messages') >= 2 /\ messages'[1] = System /\ messages'[2] = User
    BY <1>8, <1>9, <1>13 DEF History
  <2>2. Role(L + 1)' = "assistant"
    BY <1>7, <1>9 DEF Role
  <2>3. L + 1 \in DOMAIN messages' /\ L + 1 + Len(messages'[L + 1].calls) = Len(messages') + Len(pending')
    <3>1. messages'[L + 1].calls = shown /\ Len(shown) = N /\ Len(pending') = N
      BY <1>1, <1>4, <1>7, <1>9
    <3>2. L + 1 + N = Len(messages') + N /\ L + 1 \in DOMAIN messages'
      BY <1>0, <1>8, <1>9
    <3> QED
      BY <3>1, <3>2
  <2>4. \A n \in DOMAIN messages' : (Role(n) = "assistant" => Answering(n))' /\ (Role(n) = "tool" => Answers1(n))'
    <3> SUFFICES ASSUME NEW n \in 1..L + 1
                 PROVE  (Role(n) = "assistant" => Answering(n))' /\ (Role(n) = "tool" => Answers1(n))'
      BY <1>9
    <3>1. CASE n = L + 1
      BY <1>14, <2>2, <3>1
    <3>2. CASE n \in 1..L
      BY <1>15, <3>2
    <3> QED
      BY <1>8, <3>1, <3>2
  <2>5. pending' # <<>> /\ \E n \in DOMAIN messages' :
          Role(n)' = "assistant" /\ n + Len(messages'[n].calls) = Len(messages') + Len(pending')
    BY <2>2, <2>3
  <2> QED
    BY <2>1, <2>4, <2>5 DEF History
<1>17. Ongoing'
  <2>1. Forcing'
    BY <1>13 DEF Forcing, asked
  <2>2. analysis' # 0 => reminded' /\ InSaid(analysis)'
    <3>1. \A n \in DOMAIN messages : n \in DOMAIN messages' /\ messages'[n] = messages[n]
      BY <1>8, <1>9
    <3> QED
      BY <3>1 DEF InSaid, Role, LlmInv, Ongoing, asked
  <2> QED
    BY <1>16, <2>1, <2>2 DEF LlmInv, Ongoing, asked
<1> QED
  BY <1>10, <1>11, <1>12, <1>17 DEF LlmInv

\* The answer calls nothing, and is reminded of submit_review.
LEMMA RemindInv ==
  ASSUME LlmInv, phase = "stream", NEW text \in {0, turn}, Reminds, Remind(text), UNCHANGED pending
  PROVE  LlmInv'
<1>1. /\ messages' = Trimmed(text) /\ reminded' = TRUE /\ force' = TRUE /\ analysis' = text
      /\ phase' = "ask" /\ StreamDone /\ UNCHANGED <<turn, forced, result, pending>> /\ turn < MaxTurns
  BY DEF Remind, Reminds, TurnsLeft
<1>2. text \in 0..MaxTurns /\ TypeOK /\ result.kind = "none"
  BY TurnsAssumption DEF LlmInv, TypeOK, Ongoing
<1>3. PICK m : m = Assistant(text, <<>>)
  OBVIOUS
<1>4. m \in Messages /\ m.role = "assistant" /\ m.text = text /\ m.calls = <<>>
  BY <1>2, <1>3, TextMessage
<1>5. \/ text # 0 /\ messages' = <<System, User, m, User>>
      \/ text = 0 /\ messages' = <<System, User, User>>
  BY <1>1, <1>3 DEF Trimmed
<1>6. TypeOK'
  <2>1. messages' \in Seq(Messages)
    <3>1. System \in Messages /\ User \in Messages
      BY OtherMessages
    <3>2. <<System, User, m, User>> \in Seq(Messages) /\ <<System, User, User>> \in Seq(Messages)
      BY <1>4, <3>1
    <3> QED
      BY <1>5, <3>2
  <2> QED
    BY <1>1, <1>2, <2>1, EmptyStream DEF TypeOK
<1>7. History'
  <2>1. CASE text # 0
    <3>1. /\ Len(messages') = 4 /\ DOMAIN messages' = 1..4 /\ messages'[1] = System /\ messages'[2] = User
          /\ messages'[3] = m /\ messages'[4] = User
      BY <1>5, <2>1
    <3>2. Answering(3)'
      BY <1>4, <2>1, <3>1 DEF Answering
    <3> QED
      BY <1>1, <1>4, <3>1, <3>2, OtherMessages DEF History, Role, Last
  <2>2. CASE text = 0
    <3>1. /\ Len(messages') = 3 /\ DOMAIN messages' = 1..3 /\ messages'[1] = System /\ messages'[2] = User
          /\ messages'[3] = User
      BY <1>5, <2>2
    <3> QED
      BY <1>1, <3>1, OtherMessages DEF History, Role, Last
  <2> QED
    BY <2>1, <2>2
<1>8. Len(messages') > 2 /\ messages'[Len(messages')] = User
  <2>1. CASE messages' = <<System, User, m, User>>
    <3>1. Len(messages') = 4 /\ messages'[4] = User
      BY <2>1
    <3> QED
      BY <3>1
  <2>2. CASE messages' = <<System, User, User>>
    <3>1. Len(messages') = 3 /\ messages'[3] = User
      BY <2>2
    <3> QED
      BY <3>1
  <2> QED
    BY <1>5, <2>1, <2>2
<1>9. text # 0 => 3 \in DOMAIN messages' /\ messages'[3] = m
  BY <1>5
<1>10. Ongoing'
  <2>1. Forcing'
    BY <1>1, <1>8 DEF Forcing, Last
  <2>2. analysis' # 0 => reminded' /\ InSaid(analysis)'
    BY <1>1, <1>4, <1>9 DEF InSaid, Role
  <2> QED
    BY <1>1, <1>2, <1>7, <2>1, <2>2 DEF Ongoing
<1>11. AnalysisSurvives'
  <2>1. text # 0 => text \in Said(messages')
    BY <1>4, <1>9 DEF Said
  <2> QED
    BY <1>1, <1>2, <2>1 DEF AnalysisSurvives
<1>12. LimitMeansTools' /\ CallsAreWhole'
  BY <1>1, <1>2 DEF LimitMeansTools, CallsAreWhole
<1> QED
  BY <1>1, <1>2, <1>6, <1>10, <1>11, <1>12, EmptyStream DEF LlmInv

LEMMA FinishInv ==
  ASSUME LlmInv, Finish
  PROVE  LlmInv'
<1>1. phase = "stream" /\ turn \in 0..MaxTurns /\ messages \in Seq(Messages)
  BY DEF Finish, LlmInv, TypeOK
<1>2. PICK text \in {0, turn}, markup \in InText, indices \in Named :
        LET calls == IF markup # <<>> THEN Promoted(markup) ELSE Structured(indices)
        IN  IF calls # <<>>
            THEN /\ messages' = Append(messages, Assistant(text,
                      [n \in DOMAIN calls |-> [id |-> calls[n].id, tool |-> calls[n].tool]]))
                 /\ pending' = calls /\ phase' = "tools"
                 /\ UNCHANGED <<asked, stream, result>>
            ELSE /\ UNCHANGED pending
                 /\ \/ Reminds /\ Remind(text)
                    \/ /\ ~Reminds
                       /\ Fallback("no call", {text} \ {0})
                       /\ messages' = Append(messages, Assistant(text, <<>>))
                       /\ UNCHANGED asked
  BY DEF Finish
<1>3. PICK calls : calls = IF markup # <<>> THEN Promoted(markup) ELSE Structured(indices)
  OBVIOUS
<1>4. /\ calls \in Seq(PendingCalls)
      /\ \A n \in DOMAIN calls : calls[n].ok /\ calls[n].args # <<>> =>
           calls[n].args = [k \in 1..answer[calls[n].id].size |-> <<calls[n].id, k>>]
  <2>1. CASE markup # <<>>
    BY <1>3, <2>1, PromotedCalls
  <2>2. CASE markup = <<>>
    <3>1. calls = Structured(indices)
      BY <1>3, <2>2
    <3> QED
      BY <3>1, StructuredCalls
  <2> QED
    BY <2>1, <2>2
<1>5. CASE calls # <<>>
  <2>1. /\ messages' = Append(messages, Assistant(text,
                [n \in DOMAIN calls |-> [id |-> calls[n].id, tool |-> calls[n].tool]]))
        /\ pending' = calls /\ phase' = "tools" /\ UNCHANGED <<asked, stream, result>>
    BY <1>2, <1>3, <1>5
  <2> QED
    BY <1>1, <1>4, <1>5, <2>1, CallsInv
<1>6. CASE calls = <<>>
  <2>1. UNCHANGED pending
    BY <1>2, <1>3, <1>6
  <2>2. CASE Reminds /\ Remind(text)
    BY <1>1, <2>1, <2>2, RemindInv
  <2>3. CASE /\ Fallback("no call", {text} \ {0})
             /\ messages' = Append(messages, Assistant(text, <<>>)) /\ UNCHANGED asked
    <3>1. text \in 0..MaxTurns /\ {text} \ {0} \in SUBSET (1..MaxTurns) /\ "no call" \in Reasons
      BY <1>1, TurnsAssumption DEF Reasons
    <3>2. Assistant(text, <<>>) \in Messages
      BY <3>1, TextMessage
    <3>3. messages' \in Seq(Messages)
      BY <1>1, <2>3, <3>2, Appended
    <3> QED
      BY <2>1, <2>3, <3>1, <3>3, FallbackInv
  <2> QED
    BY <1>2, <1>3, <1>6, <2>2, <2>3
<1> QED
  BY <1>5, <1>6

-----------------------------------------------------------------------------
(* The calls of an answer.                                                 *)

\* A call that is not a submit_review is answered.
LEMMA AnsweredInv ==
  ASSUME LlmInv, phase = "tools", Head(pending).tool # "submit_review", Answered
  PROVE  LlmInv'
<1>1. /\ messages' = Append(messages, Reply(Head(pending).id)) /\ pending' = Tail(pending)
      /\ UNCHANGED <<asked, result>>
      /\ \/ Tail(pending) = <<>> /\ phase' = "ask" /\ StreamDone
         \/ Tail(pending) # <<>> /\ phase' = "tools" /\ UNCHANGED stream
  BY DEF Answered, Handled
<1>2. TypeOK /\ History /\ Forcing /\ messages \in Seq(Messages) /\ pending \in Seq(PendingCalls) /\ pending # <<>>
  BY DEF LlmInv, Ongoing, History, TypeOK
<1>3. PICK P \in Nat \ {0} : P = Len(pending) /\ DOMAIN pending = 1..P
  BY <1>2, Rest
<1>4. PICK L \in Nat : L = Len(messages) /\ DOMAIN messages = 1..L
  BY <1>2
<1>5. /\ pending' \in Seq(PendingCalls) /\ Len(pending') = P - 1 /\ DOMAIN pending' = 1..P - 1
      /\ (\A k \in 1..P - 1 : pending'[k] = pending[k + 1])
      /\ Head(pending) = pending[1] /\ pending[1] \in PendingCalls /\ (pending' = <<>> <=> P = 1)
  BY <1>1, <1>2, <1>3, Rest
<1>6. PICK r : r = Reply(pending[1].id)
  OBVIOUS
<1>7. r \in Messages /\ r.role = "tool" /\ r # User
  <2>1. pending[1].id \in Ids
    BY <1>5 DEF PendingCalls
  <2>2. r \in Messages /\ r.role = "tool"
    BY <1>6, <2>1, OtherMessages
  <2> QED
    BY <2>2, OtherMessages
<1>8. /\ messages' = Append(messages, r) /\ messages' \in Seq(Messages) /\ Len(messages') = L + 1
      /\ DOMAIN messages' = 1..L + 1
      /\ (\A n \in 1..L : messages'[n] = messages[n]) /\ messages'[L + 1] = r
  <2>1. messages' = Append(messages, r)
    BY <1>1, <1>5, <1>6
  <2> QED
    BY <2>1, <1>2, <1>4, <1>7, Appended
<1>9. phase' \in {"ask", "tools"} /\ (phase' = "tools" <=> P > 1)
  <2>1. pending' = Tail(pending) /\ (pending' = <<>> <=> P = 1)
    BY <1>1, <1>5
  <2>2. (Tail(pending) = <<>> /\ phase' = "ask") \/ (Tail(pending) # <<>> /\ phase' = "tools")
    BY <1>1
  <2>3. P > 1 <=> P # 1
    BY <1>3
  <2> QED
    BY <2>1, <2>2, <2>3
<1>10. TypeOK' /\ Accumulated'
  <2>1. CASE StreamDone
    BY <1>1, <1>2, <1>5, <1>8, <1>9, <2>1, EmptyStream DEF TypeOK, asked
  <2>2. CASE UNCHANGED stream
    BY <1>1, <1>2, <1>5, <1>8, <1>9, <2>2 DEF LlmInv, TypeOK, Accumulated, asked, stream
  <2> QED
    BY <1>1, <2>1, <2>2
<1>11. ASSUME NEW n \in 1..L, messages[n].role = "assistant"
       PROVE  Answering(n)'
  <2>1. messages'[n] = messages[n] /\ n \in DOMAIN messages /\ messages[n] \in Messages
    BY <1>2, <1>4, <1>8
  <2>2. Answering(n)
    BY <1>2, <1>11, <2>1 DEF History, Role
  <2>3. PICK c \in Seq([id : Ids, tool : Tools]) : c = messages[n].calls
    BY <1>11, <2>1, AssistantTypes
  <2>4. PICK K \in Nat : Len(c) = K /\ DOMAIN c = 1..K
    OBVIOUS
  <2>5. /\ messages[n].text # 0 \/ c # <<>>
        /\ \A k \in 1..K : n + k <= L => messages[n + k] = Reply(c[k].id) /\ c[k].tool # "submit_review"
        /\ n + K > L =>
             /\ n + K = L + P
             /\ \A k \in 1..P : c[L - n + k].id = pending[k].id /\ c[L - n + k].tool = pending[k].tool
    BY <1>3, <1>4, <2>2, <2>3, <2>4 DEF Answering
  <2>6. messages'[n].calls = c /\ messages'[n].text = messages[n].text
    BY <2>1, <2>3
  <2>7. ASSUME NEW k \in 1..K, n + k <= L + 1
        PROVE  messages'[n + k] = Reply(c[k].id) /\ c[k].tool # "submit_review"
    <3>1. CASE n + k <= L
      <4>1. n + k \in 1..L
        BY <3>1
      <4> QED
        BY <1>8, <2>5, <3>1, <4>1
    <3>2. CASE n + k = L + 1
      <4>1. n + K > L /\ 1 \in 1..P /\ L - n + 1 = k
        BY <1>3, <3>2
      <4>2. c[k].id = pending[1].id /\ c[k].tool = pending[1].tool
        BY <2>5, <4>1
      <4>3. pending[1].tool # "submit_review"
        BY <1>5
      <4> QED
        BY <1>6, <1>8, <3>2, <4>2, <4>3
    <3> QED
      BY <2>7, <3>1, <3>2
  <2>8. ASSUME n + K > L + 1
        PROVE  /\ phase' = "tools" /\ n + K = (L + 1) + (P - 1)
               /\ \A k \in 1..P - 1 :
                    /\ c[(L + 1) - n + k].id = pending'[k].id
                    /\ c[(L + 1) - n + k].tool = pending'[k].tool
    <3>1. n + K > L /\ n + K = L + P
      BY <2>5, <2>8
    <3>2. P > 1
      BY <2>8, <3>1
    <3>3. ASSUME NEW k \in 1..P - 1
          PROVE  c[(L + 1) - n + k].id = pending'[k].id /\ c[(L + 1) - n + k].tool = pending'[k].tool
      <4>1. k + 1 \in 1..P /\ L - n + (k + 1) = (L + 1) - n + k
        OBVIOUS
      <4>2. c[L - n + (k + 1)].id = pending[k + 1].id /\ c[L - n + (k + 1)].tool = pending[k + 1].tool
        BY <2>5, <3>1, <4>1
      <4> QED
        BY <1>5, <4>1, <4>2
    <3> QED
      BY <1>9, <3>1, <3>2, <3>3
  <2>9. \A k \in DOMAIN c : n + k <= Len(messages') =>
          messages'[n + k] = Reply(c[k].id) /\ c[k].tool # "submit_review"
    BY <1>8, <2>4, <2>7
  <2>10. n + Len(c) > Len(messages') =>
          /\ phase' = "tools" /\ n + Len(c) = Len(messages') + Len(pending')
          /\ \A k \in DOMAIN pending' :
               /\ c[Len(messages') - n + k].id = pending'[k].id
               /\ c[Len(messages') - n + k].tool = pending'[k].tool
    BY <1>5, <1>8, <2>4, <2>8
  <2> QED
    BY <2>5, <2>6, <2>9, <2>10 DEF Answering
<1>12. PICK w \in 1..L : messages[w].role = "assistant" /\ w + Len(messages[w].calls) = L + P
  BY <1>2, <1>3, <1>4 DEF History, Role
<1>13. Answers1(L + 1)'
  <2>0. messages[w] \in Messages
    BY <1>2, <1>4
  <2>1. PICK c \in Seq([id : Ids, tool : Tools]) : c = messages[w].calls
    BY <1>12, <2>0, AssistantTypes
  <2>2. Len(c) \in Nat /\ w \in 1..(L + 1) - 1 /\ (L + 1) - w <= Len(c)
    BY <1>12, <2>1
  <2>3. messages'[w] = messages[w]
    BY <1>8
  <2> QED
    BY <1>12, <2>1, <2>2, <2>3 DEF Answers1, Role
<1>14. ASSUME NEW n \in 1..L, messages[n].role = "tool"
       PROVE  Answers1(n)'
  <2>1. Answers1(n)
    BY <1>2, <1>4, <1>14 DEF History, Role
  <2>2. \A k \in 1..n - 1 : k \in 1..L /\ messages'[k] = messages[k]
    BY <1>8
  <2> QED
    BY <2>1, <2>2 DEF Answers1, Role
<1>15. History'
  <2>1. Len(messages') >= 2 /\ messages'[1] = System /\ messages'[2] = User
    BY <1>2, <1>4, <1>8 DEF History
  <2>2. ASSUME NEW n \in 1..L + 1
        PROVE  (Role(n) = "assistant" => Answering(n))' /\ (Role(n) = "tool" => Answers1(n))'
    <3>1. CASE n = L + 1
      BY <1>7, <1>8, <1>13, <3>1 DEF Role
    <3>2. CASE n \in 1..L
      BY <1>8, <1>11, <1>14, <3>2 DEF Role
    <3> QED
      BY <3>1, <3>2
  <2>3. messages'[Len(messages')].role = "tool"
    BY <1>7, <1>8
  <2>4. ASSUME phase' = "tools"
        PROVE  pending' # <<>> /\ \E n \in DOMAIN messages' :
                 messages'[n].role = "assistant" /\ n + Len(messages'[n].calls) = Len(messages') + Len(pending')
    <3>1. P > 1 /\ pending' # <<>>
      BY <1>5, <1>9, <2>4
    <3>2. w \in DOMAIN messages' /\ messages'[w] = messages[w] /\ Len(messages') + Len(pending') = L + P
      BY <1>5, <1>8
    <3> QED
      BY <1>12, <3>1, <3>2
  <2> QED
    BY <1>8, <1>9, <2>1, <2>2, <2>3, <2>4 DEF History, Role, Last
<1>16. Ongoing'
  <2>1. messages'[Len(messages')].role = "tool" /\ messages'[Len(messages')] # User
    BY <1>7, <1>8
  <2>2. Forcing'
    BY <1>1, <1>2, <1>9, <2>1 DEF Forcing, Last, asked
  <2>3. analysis' # 0 => reminded' /\ InSaid(analysis)'
    <3>1. \A n \in DOMAIN messages : n \in DOMAIN messages' /\ messages'[n] = messages[n]
      BY <1>4, <1>8
    <3> QED
      BY <1>1, <3>1 DEF InSaid, Role, LlmInv, Ongoing, asked
  <2> QED
    BY <1>1, <1>9, <1>15, <2>1, <2>2, <2>3 DEF LlmInv, Ongoing, Last, asked
<1>17. LimitMeansTools'
  BY <1>1 DEF LlmInv, Ongoing, LimitMeansTools
<1>18. AnalysisSurvives'
  <2>1. ASSUME phase' = "ask", analysis' # 0
        PROVE  analysis' \in Said(messages')
    <3>1. PICK n \in 1..L + 1 : messages'[n].role = "assistant" /\ messages'[n].text = analysis'
      BY <1>8, <1>16, <2>1 DEF Ongoing, InSaid, Role
    <3> QED
      BY <1>8, <2>1, <3>1 DEF Said
  <2>2. phase' # "stream" /\ result'.kind # "fallback"
    BY <1>1, <1>9 DEF LlmInv, Ongoing
  <2> QED
    BY <2>1, <2>2 DEF AnalysisSurvives
<1>19. CallsAreWhole'
  <2>1. ASSUME phase' = "tools", NEW k \in 1..P - 1
        PROVE  /\ pending'[k] = pending[k + 1] /\ k + 1 \in DOMAIN pending
               /\ answer' = answer
    BY <1>1, <1>3, <1>5, <1>9, <2>1 DEF stream
  <2> QED
    BY <1>5, <2>1 DEF LlmInv, CallsAreWhole
<1> QED
  BY <1>10, <1>16, <1>17, <1>18, <1>19 DEF LlmInv

LEMMA ToolsInv ==
  ASSUME LlmInv, RunTool \/ RefuseCall
  PROVE  LlmInv'
<1>1. CASE RunTool
  BY <1>1, AnsweredInv DEF RunTool
<1>2. CASE RefuseCall
  <2>1. CASE Head(pending).tool = "submit_review"
    <3>1. "malformed" \in Reasons /\ {} \in SUBSET (1..MaxTurns)
      BY DEF Reasons
    <3>2. Fallback("malformed", {}) /\ UNCHANGED <<messages, asked, pending>>
      BY <1>2, <2>1 DEF RefuseCall, OnBadSubmit
    <3>3. messages' \in Seq(Messages)
      BY <3>2 DEF LlmInv, TypeOK
    <3> QED
      BY <3>1, <3>2, <3>3, FallbackInv
  <2>2. CASE Head(pending).tool # "submit_review"
    BY <1>2, <2>2, AnsweredInv DEF RefuseCall, OnBadArguments
  <2> QED
    BY <2>1, <2>2
<1> QED
  BY <1>1, <1>2

LEMMA LlmStepInv == LlmInv /\ [Next]_vars => LlmInv'
<1> SUFFICES ASSUME LlmInv, [Next]_vars PROVE LlmInv'
  OBVIOUS
<1>1. CASE Ask
  BY <1>1, AskInv
<1>2. CASE GiveUp \/ Timeout \/ Break \/ SubmitReview
  BY <1>2, EndingsInv
<1>3. CASE Finish
  BY <1>3, FinishInv
<1>4. CASE \E i \in DOMAIN answer : Delta(i)
  BY <1>4, DeltaInv
<1>5. CASE RunTool \/ RefuseCall
  BY <1>5, ToolsInv
<1>6. CASE UNCHANGED vars
  BY <1>6 DEF vars, LlmInv, TypeOK, Accumulated, Ongoing, History, Answering, Answers1, Forcing, InSaid,
              Role, Last, CallsAreWhole, LimitMeansTools, AnalysisSurvives
<1> QED
  BY <1>1, <1>2, <1>3, <1>4, <1>5, <1>6 DEF Next

LEMMA LlmInvariant == Spec => []LlmInv
  BY LlmInitInv, LlmStepInv, PTL DEF Spec

-----------------------------------------------------------------------------
(* Theorems.                                                               *)

\* The state of a review is of the expected types: the history is a sequence of
\* messages, whatever the model sends.
THEOREM LlmTypeCorrect == Spec => []TypeOK
<1>1. LlmInv => TypeOK
  BY DEF LlmInv
<1> QED
  BY <1>1, LlmInvariant, PTL

\* Every request is one the API accepts: the calls of each message of the model are
\* answered right after it, in order, whatever else happens to them.
THEOREM HistoryIsWellFormed == Spec => []RequestsAreWellFormed
<1>1. LlmInv => RequestsAreWellFormed
  <2> SUFFICES ASSUME LlmInv, phase \in {"ask", "stream"}
               PROVE  /\ messages[1] = System /\ messages[2] = User
                      /\ messages[Len(messages)].role # "assistant"
                      /\ \A n \in DOMAIN messages :
                           LET m == messages[n] IN
                           /\ m.role = "assistant" =>
                                /\ m.text # 0 \/ m.calls # <<>>
                                /\ \A k \in DOMAIN m.calls :
                                     n + k <= Len(messages) /\ messages[n + k] = Reply(m.calls[k].id)
                           /\ m.role = "tool" =>
                                \E k \in 1..n-1 : messages[k].role = "assistant" /\ n - k <= Len(messages[k].calls)
    BY DEF RequestsAreWellFormed
  <2>1. History /\ messages \in Seq(Messages)
    BY DEF LlmInv, Ongoing, TypeOK
  <2>2. ASSUME NEW n \in DOMAIN messages, messages[n].role = "assistant", NEW k \in DOMAIN messages[n].calls
        PROVE  n + k <= Len(messages) /\ messages[n + k] = Reply(messages[n].calls[k].id)
    <3>1. messages[n] \in Messages /\ n \in Nat /\ Len(messages) \in Nat
      BY <2>1
    <3>2. PICK c \in Seq([id : Ids, tool : Tools]) : c = messages[n].calls
      BY <2>2, <3>1, AssistantTypes
    <3>3. Answering(n)
      BY <2>1, <2>2 DEF History, Role
    <3>4. n + Len(c) <= Len(messages) /\ k \in 1..Len(c)
      BY <2>2, <3>1, <3>2, <3>3 DEF Answering
    <3>5. n + k <= Len(messages)
      BY <3>1, <3>4
    <3> QED
      BY <2>2, <3>3, <3>5 DEF Answering
  <2>3. ASSUME NEW n \in DOMAIN messages, messages[n].role = "assistant"
        PROVE  messages[n].text # 0 \/ messages[n].calls # <<>>
    BY <2>1, <2>3 DEF History, Role, Answering
  <2>4. ASSUME NEW n \in DOMAIN messages, messages[n].role = "tool"
        PROVE  \E k \in 1..n-1 : messages[k].role = "assistant" /\ n - k <= Len(messages[k].calls)
    BY <2>1, <2>4 DEF History, Role, Answers1
  <2> QED
    BY <2>1, <2>2, <2>3, <2>4 DEF History, Last
<1> QED
  BY <1>1, LlmInvariant, PTL

\* No request carries a submit_review in its history: such a call ends the review.
THEOREM SubmitEndsTheReview == Spec => []SubmitIsFinal
<1>1. LlmInv => SubmitIsFinal
  <2> SUFFICES ASSUME LlmInv, phase \in {"ask", "stream"},
                      NEW n \in DOMAIN messages, messages[n].role = "assistant", NEW k \in DOMAIN messages[n].calls
               PROVE  messages[n].calls[k].tool # "submit_review"
    BY DEF SubmitIsFinal
  <2>1. History /\ messages \in Seq(Messages)
    BY DEF LlmInv, Ongoing, TypeOK
  <2>2. messages[n] \in Messages /\ n \in Nat /\ Len(messages) \in Nat
    BY <2>1
  <2>3. PICK c \in Seq([id : Ids, tool : Tools]) : c = messages[n].calls
    BY <2>2, AssistantTypes
  <2>4. Answering(n)
    BY <2>1 DEF History, Role
  <2>5. n + Len(c) <= Len(messages) /\ k \in 1..Len(c)
    BY <2>2, <2>3, <2>4 DEF Answering
  <2>6. n + k <= Len(messages)
    BY <2>2, <2>5
  <2> QED
    BY <2>4, <2>6 DEF Answering
<1> QED
  BY <1>1, LlmInvariant, PTL

\* submit_review is forced for the answer to the reminder, and for no other.
THEOREM ReminderForcesOnce == Spec => []ForcedAfterReminder
<1>1. LlmInv => ForcedAfterReminder
  BY DEF LlmInv, Ongoing, Forcing, Last, ForcedAfterReminder
<1> QED
  BY <1>1, LlmInvariant, PTL

\* The turn limit is met after tool calls only: prose on the last turn ends the review
\* with that prose.
THEOREM ProseIsNotDropped == Spec => []LimitMeansTools
<1>1. LlmInv => LimitMeansTools
  BY DEF LlmInv
<1> QED
  BY <1>1, LlmInvariant, PTL

\* The analysis a reminder refers to stays in the history, and in the summary of a
\* review that the model never finishes.
THEOREM AnalysisIsKept == Spec => []AnalysisSurvives
<1>1. LlmInv => AnalysisSurvives
  BY DEF LlmInv
<1> QED
  BY <1>1, LlmInvariant, PTL

\* Arguments that came in pieces are used only as they were sent, for the call they
\* were sent for, whatever the order of the pieces of different calls.
THEOREM ArgumentsAreWhole == Spec => []CallsAreWhole
<1>1. LlmInv => CallsAreWhole
  BY DEF LlmInv
<1> QED
  BY <1>1, LlmInvariant, PTL

-----------------------------------------------------------------------------
(* Progress: the safety half of ReviewEnds.                                *)

\* What a step uses up: a turn; a piece of the answer; the answer; the reminder; a
\* call of the answer; or it is the last step.
SpendsTurn == phase = "ask" /\ phase' = "stream" /\ turn' = turn + 1 /\ turn' <= MaxTurns

ReadsPiece ==
  /\ phase = "stream" /\ phase' = "stream" /\ UNCHANGED <<turn, reminded, answer>>
  /\ \E i \in DOMAIN answer :
       sent'[i] = sent[i] + 1 /\ sent'[i] <= answer[i].size
       /\ \A j \in DOMAIN answer \ {i} : sent'[j] = sent[j]

ReadsAnswer ==
  /\ phase = "stream" /\ UNCHANGED turn
  /\ \/ phase' = "tools" /\ UNCHANGED reminded
     \/ phase' = "ask" /\ ~reminded /\ reminded' /\ turn < MaxTurns

HandlesCall ==
  /\ phase = "tools" /\ UNCHANGED <<turn, reminded>> /\ Len(pending') = Len(pending) - 1
  /\ phase' = IF Len(pending) = 1 THEN "ask" ELSE "tools"

EachStepSpends ==
  [][SpendsTurn \/ ReadsPiece \/ ReadsAnswer \/ HandlesCall \/ (phase # "end" /\ phase' = "end")]_vars

LEMMA StepSpends ==
  ASSUME LlmInv, Next
  PROVE  SpendsTurn \/ ReadsPiece \/ ReadsAnswer \/ HandlesCall
         \/ (phase # "end" /\ phase' = "end")
<1>1. TypeOK /\ Accumulated /\ (phase = "tools" => pending # <<>>)
  BY DEF LlmInv, Ongoing, History
<1>2. turn \in Nat /\ MaxTurns \in Nat
  BY <1>1, TurnsAssumption DEF TypeOK
<1>3. CASE Ask
  BY <1>2, <1>3 DEF Ask, TurnsLeft, SpendsTurn
<1>4. CASE GiveUp \/ Timeout \/ Break
  BY <1>4 DEF GiveUp, Timeout, Break, Fallback, Return, OnTimeout
<1>5. CASE Finish
  BY <1>5 DEF Finish, Reminds, Remind, TurnsLeft, Fallback, ReadsAnswer, asked
<1>6. ASSUME NEW i \in DOMAIN answer, Delta(i) PROVE ReadsPiece
  <2>1. sent \in [DOMAIN answer -> -1..MaxPieces] /\ sent[i] \in -1..answer[i].size /\ sent[i] < answer[i].size
    BY <1>1, <1>6 DEF TypeOK, Accumulated, Delta
  <2>2. answer[i].size \in Int
    BY <1>1, BoundsAssumption DEF TypeOK, Answers, SentCalls
  <2>3. sent'[i] = sent[i] + 1 /\ sent'[i] <= answer[i].size
    BY <1>6, <2>1, <2>2 DEF Delta
  <2>4. \A j \in DOMAIN answer \ {i} : sent'[j] = sent[j]
    BY <1>6, <2>1 DEF Delta
  <2> QED
    BY <1>6, <2>3, <2>4 DEF Delta, ReadsPiece, asked
<1>7. ASSUME phase = "tools", Handled PROVE HandlesCall
  <2>1. pending \in Seq(PendingCalls) /\ pending # <<>>
    BY <1>1, <1>7 DEF TypeOK
  <2>2. Len(Tail(pending)) = Len(pending) - 1 /\ (Tail(pending) = <<>> <=> Len(pending) = 1)
    BY <2>1, Rest
  <2> QED
    BY <1>7, <2>2 DEF Handled, HandlesCall, asked
<1>8. CASE RunTool
  BY <1>7, <1>8 DEF RunTool, Answered
<1>9. CASE RefuseCall
  BY <1>7, <1>9 DEF RefuseCall, OnBadArguments, OnBadSubmit, Answered, Fallback
<1>10. CASE SubmitReview
  BY <1>10 DEF SubmitReview, Return
<1> QED
  BY <1>3, <1>4, <1>5, <1>6, <1>8, <1>9, <1>10 DEF Next

\* LLMClient.review: for any limits and whatever the model answers, each step uses up
\* one of its MaxTurns requests, a piece of the answer, a call of it or the one
\* reminder, or comes back: no answer and no order of tool calls prolongs a review.
THEOREM NothingIsFree == Spec => EachStepSpends
<1>1. LlmInv /\ [Next]_vars
        => [SpendsTurn \/ ReadsPiece \/ ReadsAnswer \/ HandlesCall
            \/ (phase # "end" /\ phase' = "end")]_vars
  BY StepSpends
<1> QED
  BY <1>1, LlmInvariant, PTL DEF Spec, EachStepSpends

=============================================================================
