--------------------------- MODULE ProviderCall ---------------------------
(***************************************************************************)
(* One conversation with one backend: each turn is a job that the gateway  *)
(* runs (gateway.rs execute_observed, from the reservation on), through    *)
(* the bearer token, the bounded retry (retry.rs), the stream and its      *)
(* chunks (adapters/*.rs), to the judgement of the answer, its accounting  *)
(* and what the caller sends back with the results of the tools it called. *)
(*                                                                         *)
(* The response is a sequence of lines.  A chunk ends after a line or in   *)
(* the middle of one, so a position in it counts half lines.               *)
(***************************************************************************)
EXTENDS ProviderRequest, FiniteSets

CONSTANTS
  Backend,       \* the dialects considered
  Answer,        \* what the model may generate: [text, functions]
  Ask,           \* what a job may ask for: [tools, schema]
  Instances,     \* tokens that are an instance of the schema
  MaxTurns,      \* bound: jobs of the conversation
  MaxAttempts,   \* MAX_ATTEMPTS
  BaseBackoff, MaxBackoff,   \* BASE_BACKOFF and MAX_BACKOFF
  Asked          \* what a Retry-After header may ask for; 0 is none

ASSUME ProviderCallAssumption ==
  /\ Backend \subseteq Dialect
  /\ Answer \subseteq [text : Seq(STRING), functions : Seq(STRING \X Seq(STRING))]
  /\ Ask \subseteq [tools : SUBSET STRING, schema : {"none", "strict", "bad"}]
  /\ MaxText \in Nat /\ MaxCalls \in Nat
  /\ MaxTurns \in Nat /\ MaxAttempts \in Nat \ {0}
  /\ BaseBackoff \in Nat /\ MaxBackoff \in Nat /\ Asked \subseteq Nat

VARIABLES
  dialect, messages,
  meant,        \* the function each tool result in messages is of
  turn, ask, pc,
  attempt,      \* of the request, the first is 1
  waited,       \* time spent on backoff in this job
  answer,       \* what the model generates: [text, calls]
  ends,         \* whether its last line ends with a newline
  repeats,      \* whether the terminal event repeats the output
  received,     \* half lines received
  torn,         \* the unfinished line was cut by a chunk boundary
  silent,       \* nothing was read of a body for a part of the read timeout
  fold,         \* the adapter's assembly
  shown,        \* text handed to the caller's on_delta
  held,         \* the reservation
  outcome, response,
  records       \* usage records of this job: did it succeed?

job  == <<ask, attempt, waited>>
wire == <<answer, ends, repeats, received, torn, fold>>
told == <<shown, outcome, response, records>>
vars == <<dialect, messages, meant, turn, pc, job, wire, silent, held, told>>

NoAnswer   == [text |-> <<>>, calls |-> <<>>]
NoResponse == Response(<<>>, <<>>, FALSE)
Lines      == Wire(dialect, answer, repeats)
Size       == 2 * Len(Lines)
Waiting    == {"bearer", "send", "backoff", "stream"}
Reading    == {"bearer", "stream"}
SignedIn   == {"code_assist", "chatgpt"}

TypeOK ==
  /\ dialect \in Backend /\ turn \in 0..MaxTurns
  /\ ask \in Ask
  /\ pc \in Waiting \cup {"idle", "done"}
  /\ attempt \in 1..MaxAttempts
  /\ waited \in 0..((MaxAttempts - 1) * MaxBackoff)
  /\ {ends, repeats, torn, silent, held} \subseteq BOOLEAN
  /\ received \in 0..Size
  /\ outcome \in {"none", "ok", "provider_error", "refused", "aborted"}
  /\ records \in Seq(BOOLEAN)
  /\ Len(meant) = Cardinality({i \in DOMAIN messages : messages[i].role = "tool"})

Init ==
  /\ dialect \in Backend
  /\ messages = <<Message("system", <<"t">>, <<>>, NoId), Message("user", <<"t">>, <<>>, NoId)>>
  /\ meant = <<>> /\ turn = 0 /\ pc = "idle" /\ held = FALSE
  /\ ask \in Ask /\ attempt = 1 /\ waited = 0
  /\ answer = NoAnswer /\ ends = TRUE /\ repeats = FALSE
  /\ received = 0 /\ torn = FALSE /\ silent = FALSE /\ fold = NoFold
  /\ shown = <<>> /\ outcome = "none" /\ response = NoResponse /\ records = <<>>

----------------------------------------------------------------------------
(* The gateway *)

\* must_buffer: an answer that is judged is not shown before.
BuffersForSchema == ask.schema = "strict"
MustBuffer       == ask.schema = "strict" \/ ask.tools # {}

\* A job ends and its reservation is dropped.
Done(how, resp, recs) ==
  /\ pc' = "done" /\ held' = FALSE /\ silent' = FALSE
  /\ outcome' = how /\ response' = resp /\ records' = recs

ProviderError == Done("provider_error", NoResponse, <<FALSE>>)
RefusedRecorded == Done("refused", NoResponse, <<TRUE>>) /\ UNCHANGED shown
Refused       == Done("refused", NoResponse, <<>>) /\ UNCHANGED shown

\* try_reserve and strict_json_schema, for the first attempt of a job.
Begin ==
  /\ pc = "idle" /\ turn < MaxTurns /\ turn' = turn + 1
  /\ \/ ask.schema = "bad" /\ Done("refused", NoResponse, <<>>) /\ UNCHANGED shown
     \/ /\ ask.schema # "bad"
        /\ pc' = IF dialect \in SignedIn THEN "bearer" ELSE "send"
        /\ held' = TRUE /\ UNCHANGED <<silent, told>>
  /\ UNCHANGED <<dialect, messages, meant, job, wire>>

AcceptedUnshown(resp) == UNCHANGED shown /\ Done("ok", resp, <<TRUE>>)

Accepted(resp) ==
  /\ shown' = IF MustBuffer THEN resp.text ELSE shown
  /\ Done("ok", resp, <<TRUE>>)

\* The tail of execute_observed: recovered tool calls, then the schema.
Judge(resp) ==
  LET markup == NormalizeMarkup(resp.text, ask.tools)
      reads  == resp.calls = <<>> /\ ask.tools # {} /\ markup.found
      read   == IF reads THEN [resp EXCEPT !.text = markup.text, !.calls = markup.calls]
                ELSE resp
  IN \/ (reads /\ ~markup.ok) /\ Refused
     \/ /\ ~(reads /\ ~markup.ok)
        /\ \/ ask.schema = "strict" /\ ~ValidJson(read.text, Instances) /\ Refused
           \/ /\ ask.schema = "strict" /\ ValidJson(read.text, Instances)
              /\ Accepted([read EXCEPT !.text = Unfenced(@)])
           \/ ask.schema # "strict" /\ Accepted(read)

\* The job's task is aborted: its reservation goes with it.
Abort ==
  /\ pc \in Waiting
  /\ Done("aborted", NoResponse, <<>>)
  /\ UNCHANGED <<dialect, messages, meant, turn, job, wire, shown>>

----------------------------------------------------------------------------
(* The request *)

\* bearer: a refresh of the access token may fail.
Bearer ==
  /\ pc = "bearer"
  /\ \/ pc' = "send" /\ silent' = FALSE /\ UNCHANGED <<held, told>>
     \/ ProviderError /\ UNCHANGED shown
  /\ UNCHANGED <<dialect, messages, meant, turn, job, wire>>

\* The provider starts to answer.
Answers ==
  /\ pc = "send" /\ pc' = "stream"
  /\ \E a \in Answer :
       answer' = [text |-> a.text,
                  calls |-> [i \in DOMAIN a.functions |->
                    Call(<<turn, i>>, a.functions[i][1], a.functions[i][2])]]
  /\ ends' \in BOOLEAN
  /\ repeats' \in (IF dialect = "chatgpt" THEN BOOLEAN ELSE {FALSE})
  /\ UNCHANGED <<dialect, messages, meant, turn, job, received, torn, fold,
                 silent, held, told>>

Doubled(n) ==
  LET doubled[i \in 1..n] == IF i = 1 THEN BaseBackoff ELSE 2 * doubled[i - 1]
  IN doubled[n]
Least(a, b) == IF a < b THEN a ELSE b

\* backoff: the provider's own answer wins, and both are clamped.
BackoffUnclamped(n, asked) == IF asked = 0 THEN Doubled(n) ELSE asked
Backoff(n, asked) == Least(IF asked = 0 THEN Doubled(n) ELSE asked, MaxBackoff)

\* 429, 503 and transport errors.
RetryForever ==
  /\ pc = "send"
  /\ waited' = Least(waited + Backoff(attempt, 0), MaxBackoff)
  /\ pc' = "backoff"
  /\ UNCHANGED <<dialect, messages, meant, turn, ask, attempt, wire, silent,
                 held, told>>

Retry ==
  /\ pc = "send"
  /\ \/ /\ attempt < MaxAttempts
        /\ \E asked \in Asked : waited' = waited + Backoff(attempt, asked)
        /\ attempt' = attempt + 1 /\ pc' = "backoff"
        /\ UNCHANGED <<silent, held, told>>
     \/ /\ attempt = MaxAttempts /\ ProviderError
        /\ UNCHANGED <<attempt, waited, shown>>
  /\ UNCHANGED <<dialect, messages, meant, turn, ask, wire>>

BackoffEnds ==
  /\ pc = "backoff" /\ pc' = "send"
  /\ UNCHANGED <<dialect, messages, meant, turn, job, wire, silent, held, told>>

\* Any other status or error is final.
Fails ==
  /\ pc = "send" /\ ProviderError
  /\ UNCHANGED <<dialect, messages, meant, turn, job, wire, shown>>

----------------------------------------------------------------------------
(* The stream *)

\* The lines that are complete at a position; a last one without a newline
\* stays in the buffer.
Complete(position) ==
  IF position = Size /\ ~ends THEN Len(Lines) - 1 ELSE position \div 2

Fed(upto) ==
  LET from == Complete(received) + 1
      line(i) == IF i = from /\ torn THEN Torn(Lines[i]) ELSE Lines[i]
      fresh == [k \in 1..(upto - from + 1) |-> line(from + k - 1)]
  IN FeedAll(dialect, fold, fresh)

\* Text that the adapter forwards as it folds it.
Shows(f) == IF MustBuffer THEN shown ELSE f.out

\* A chunk arrives: up to the middle of the next line, its end, or all there is.
Chunk ==
  /\ pc = "stream" /\ received < Size
  /\ \E to \in {received + 1, received + 2, Size} \cap 1..Size :
       /\ received' = to
       /\ fold' = Fed(Complete(to))
       /\ torn' = (to % 2 = 1 \/ (to = Size /\ ~ends /\ torn /\ received = Size - 1))
  /\ shown' = Shows(fold') /\ silent' = FALSE
  /\ UNCHANGED <<dialect, messages, meant, turn, pc, job, answer, ends, repeats,
                 held, outcome, response, records>>

\* The body ends, after the last line or, when the provider gives up, before.
\* A stream that exceeded the content cap is an error.
Remaining ==
  IF KeepsUnterminated(dialect) /\ received = Size /\ ~ends
  THEN Feed(dialect, fold, IF torn THEN Torn(Last(Lines)) ELSE Last(Lines))
  ELSE fold

EndOfStream ==
  /\ pc = "stream"
  /\ fold' = Remaining
  /\ \/ fold'.full /\ ProviderError /\ UNCHANGED shown
     \/ ~fold'.full /\ Judge(Finish(dialect, fold'))
  /\ UNCHANGED <<dialect, messages, meant, turn, job, answer, ends, repeats,
                 received, torn>>

\* The connection breaks, or OpenAI's line exceeds MAX_SSE_LINE_BYTES.
Breaks ==
  /\ pc = "stream" /\ ProviderError
  /\ UNCHANGED <<dialect, messages, meant, turn, job, wire, shown>>

\* The read timeout of http.rs is one of each read: time passes without any,
Silence ==
  /\ pc \in Reading /\ dialect # "ollama" /\ ~silent
  /\ silent' = TRUE
  /\ UNCHANGED <<dialect, messages, meant, turn, pc, job, wire, held, told>>

\* and starts again with whatever the provider sends, though it add nothing to
\* the answer: a comment that keeps the connection alive, text beyond the cap.
Drip ==
  /\ pc \in Reading /\ silent
  /\ silent' = FALSE
  /\ UNCHANGED <<dialect, messages, meant, turn, pc, job, wire, held, told>>

\* A local backend has no read timeout.  Before the headers reqwest reports it as
\* a request error, and is_transient takes that for one to retry; later it is
\* final.
ReadTimeout ==
  /\ dialect # "ollama"
  /\ \/ Retry
     \/ /\ pc \in Reading /\ silent /\ ProviderError
        /\ UNCHANGED <<dialect, messages, meant, turn, job, wire, shown>>

----------------------------------------------------------------------------
(* The caller *)

Orders(n) == {o \in [1..n -> 1..n] : \A i, j \in 1..n : o[i] = o[j] => i = j}

\* It runs the tools and continues the conversation with their results.
NextTurn ==
  /\ pc = "done" /\ outcome = "ok" /\ response.calls # <<>> /\ turn < MaxTurns
  /\ \E o \in Orders(Len(response.calls)) :
       /\ messages' = messages
            \o <<Message("assistant", response.text, response.calls, NoId)>>
            \o [i \in DOMAIN response.calls |->
                  Message("tool", <<"t">>, <<>>, response.calls[o[i]].id)]
       /\ meant' = meant \o [i \in DOMAIN response.calls |-> response.calls[o[i]].name]
  /\ pc' = "idle"
  /\ ask' \in Ask /\ attempt' = 1 /\ waited' = 0
  /\ answer' = NoAnswer /\ ends' = TRUE /\ repeats' = FALSE
  /\ received' = 0 /\ torn' = FALSE /\ fold' = NoFold
  /\ shown' = <<>> /\ outcome' = "none" /\ response' = NoResponse /\ records' = <<>>
  /\ UNCHANGED <<dialect, turn, silent, held>>

Next ==
  \/ Begin \/ Bearer \/ Answers \/ Retry \/ BackoffEnds \/ Fails \/ Chunk
  \/ EndOfStream \/ Breaks \/ Silence \/ Drip \/ ReadTimeout \/ Abort \/ NextTurn

\* The worker's own steps and timers; nothing is assumed of the provider.
Fairness ==
  /\ WF_vars(Begin) /\ WF_vars(BackoffEnds)
  /\ WF_vars(Silence) /\ WF_vars(ReadTimeout)

Spec == Init /\ [][Next]_vars /\ Fairness

----------------------------------------------------------------------------
(* Properties *)

Received == received = Size
Plain    == ask.tools = {} /\ ask.schema = "none"
\* A garbled token of the result stands for one that was cut by a chunk.
Like(t, u)      == t = u \/ (t = Garbled /\ u \in Wide)
LikeText(s, t)  == Len(s) = Len(t) /\ \A i \in DOMAIN s : Like(s[i], t[i])
LikePrefix(s, t) == Len(s) <= Len(t) /\ LikeText(s, SubSeq(t, 1, Len(s)))
LikeCall(c, d)   == c.id = d.id /\ c.name = d.name /\ LikeText(c.args, d.args)
LikeCalls(s, t)  == Len(s) = Len(t) /\ \A i \in DOMAIN s : LikeCall(s[i], t[i])

\* However the response is cut into chunks, a stream that was received whole
\* gives the response the adapter's blocking call gives: the same calls, the
\* same text and arguments but for characters cut by a chunk
\* (String::from_utf8_lossy), the same usage.  SSE adapters drop a last line
\* without a newline; Ollama's and ChatGPT's do not.  OpenAI's ignores the calls
\* beyond MAX_TOOL_CALLS, which its blocking call does not.
Capped == dialect = "openai" /\ Len(answer.calls) > MaxCalls
StreamedIsWhole ==
  outcome = "ok" /\ Plain /\ ~Capped /\ Received /\ (ends \/ KeepsUnterminated(dialect)) =>
    LET whole == Whole(dialect, answer)
    IN /\ LikeText(response.text, whole.text)
       /\ LikeCalls(response.calls, whole.calls)
       /\ response.usage = whole.usage

\* A response that ends early, or that loses its last line, is still given as a
\* complete one.  It holds the beginning of the text and of the calls, in order:
\* every call is as in the blocking call's response, but the last one where calls
\* come in fragments may have lost the end of its arguments, and Anthropic's
\* adapter makes {} of arguments of which nothing came.
LostItsEnd(d, given, call) ==
  /\ given.id = call.id /\ given.name = call.name
  /\ LikePrefix(given.args, call.args) \/ (d = "anthropic" /\ given.args = <<"{}">>)
CutIsPrefix ==
  outcome = "ok" /\ Plain =>
    LET calls == response.calls
    IN /\ LikePrefix(response.text, answer.text)
       /\ Len(calls) <= Len(answer.calls)
       /\ \A i \in DOMAIN calls :
            \/ LikeCall(calls[i], Whole(dialect, answer).calls[i])
            \/ /\ i = Len(calls) /\ dialect \in {"openai", "anthropic"}
               /\ LostItsEnd(dialect, calls[i], answer.calls[i])

\* What a caller was shown while the model generated is the answer it is given
\* at the end: reasoning is never part of it, and text that was judged, fenced
\* or rewritten is shown in its final form.  ChatGPT's terminal event may hold
\* a character that its deltas lost.
ShownIsTheAnswer ==
  outcome = "ok" =>
    IF dialect = "chatgpt"
    THEN \A i \in DOMAIN shown : i \in DOMAIN response.text /\
           (Like(shown[i], response.text[i]) \/ Like(response.text[i], shown[i]))
    ELSE shown = response.text

\* When tools or a schema are asked for, the caller sees nothing of an answer
\* that is refused, or before it is judged.
JudgedBeforeShown ==
  (ask.tools # {} \/ ask.schema = "strict") /\ outcome # "ok" => shown = <<>>

\* A job that ended has given its reservation back, and is in the usage records
\* exactly once if its provider answered or failed, never if it was aborted or
\* its answer was refused.
AccountedOnce ==
  /\ pc = "done" => /\ ~held
                    /\ records = CASE outcome = "ok" -> <<TRUE>>
                                   [] outcome = "provider_error" -> <<FALSE>>
                                   [] OTHER -> <<>>
  /\ pc \in Waiting => held /\ records = <<>>

\* Every tool result reaches the provider as the result of the function that
\* was called, through ids, names and merged turns, as long as no two calls of
\* the conversation have the same id.  Ollama is given positions only.
HistoryCalls == FlattenSeq([i \in DOMAIN messages |-> messages[i].calls])
IdsDiffer    == \A i, j \in DOMAIN HistoryCalls :
                  HistoryCalls[i].id = HistoryCalls[j].id => i = j
ResultsNamed ==
  LET request == Request(dialect, messages)
  IN /\ Len(Parts(request, "result")) = Len(meant)
     /\ \A k \in DOMAIN meant : ResultOf(dialect, request, k) = meant[k]
ToolResultsNamed == IdsDiffer /\ dialect # "ollama" => ResultsNamed

\* The same without the conditions, as build_generate_content_body documents it
\* for Gemini: results are matched to their call's function name.
ToolResultsAlwaysNamed == ResultsNamed

\* Whatever the provider answers, or fails to, a job on an external one ends,
\* unless its provider drips for ever: the cap on a completion is looked at when
\* the stream has ended (openai_compatible.rs:262) and does not end one.
CallEnds ==
  \/ (pc \in Waiting /\ dialect # "ollama") ~> pc = "done"
  \/ []<><<Drip>>_vars
=============================================================================
