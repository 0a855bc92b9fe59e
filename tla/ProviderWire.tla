--------------------------- MODULE ProviderWire ---------------------------
(***************************************************************************)
(* The dialects in which model providers stream an answer, and how each    *)
(* adapter folds the stream back into one ChatResponse (src/worker/.../    *)
(* adapters/*.rs).  Text is a sequence of tokens; a wide token holds a     *)
(* character of several bytes.  A call is [id, name, args], its arguments  *)
(* a sequence of fragments.  The id <<t, i>> is the provider's, of call i  *)
(* in turn t, and <<0, i>> is a position in the response, call_(i-1).      *)
(***************************************************************************)
EXTENDS Integers, Sequences, SequencesExt

CONSTANTS
  Wide,        \* tokens with a character of several bytes
  MaxText,     \* bound, in tokens: MAX_STREAMED_CONTENT_BYTES
  MaxCalls     \* MAX_TOOL_CALLS

Dialect == {"openai", "anthropic", "gemini", "code_assist", "ollama", "chatgpt"}
Garbled == "?"

Call(id, name, args)         == [id |-> id, name |-> name, args |-> args]
NoId                         == <<0, 0>>
NoCall                       == Call(NoId, "", <<>>)
Response(text, calls, usage) == [text |-> text, calls |-> calls, usage |-> usage]

\* Gemini and Ollama have no call ids: the position in the response is one.
Numbered(calls) == [i \in DOMAIN calls |-> [calls[i] EXCEPT !.id = <<0, i>>]]

\* An empty argument object is sent as no fragment at all.
ObjectArgs(call) == IF call.args = <<>> THEN [call EXCEPT !.args = <<"{}">>] ELSE call

----------------------------------------------------------------------------
(* What the blocking call of each adapter returns for an answer *)

OpenAIWhole(a)    == Response(a.text, a.calls, TRUE)
AnthropicWhole(a) == Response(a.text, [i \in DOMAIN a.calls |-> ObjectArgs(a.calls[i])], TRUE)
GeminiWhole(a)    == Response(a.text, Numbered(a.calls), TRUE)
OllamaWhole(a)    == Response(a.text, Numbered(a.calls), TRUE)
CodeAssistWhole(a) == GeminiWhole(a)

Whole(d, a) ==
  CASE d \in {"openai", "chatgpt"} -> OpenAIWhole(a)
    [] d = "anthropic"             -> AnthropicWhole(a)
    [] d = "gemini"                -> GeminiWhole(a)
    [] d = "code_assist"           -> CodeAssistWhole(a)
    [] d = "ollama"                -> OllamaWhole(a)

----------------------------------------------------------------------------
(* The lines a provider sends for an answer.  The first is a thought. *)

Line(kind, index, text, calls) ==
  [kind |-> kind, index |-> index, text |-> text, calls |-> calls]

Thought     == <<Line("think", 0, <<"hm">>, <<>>)>>
Texts(a)    == [i \in DOMAIN a.text |-> Line("text", 0, <<a.text[i]>>, <<>>)]
Counts      == <<Line("usage", 0, <<>>, <<>>)>>
WholeCalls(a) == [i \in DOMAIN a.calls |-> Line("call", 0, <<>>, <<a.calls[i]>>)]

\* A call in fragments: its id and name, then each piece of its arguments.
Fragments(call, index) ==
  <<Line("head", index, <<>>, <<Call(call.id, call.name, <<>>)>>)>> \o
  [i \in DOMAIN call.args |->
     Line("args", index, <<>>, <<Call(NoId, "", <<call.args[i]>>)>>)]

AllFragments(a, first) ==
  FlattenSeq([i \in DOMAIN a.calls |-> Fragments(a.calls[i], first + i - 1)])

\* The platform's terminal event repeats the output, ChatGPT's leaves it empty.
Completed(a, repeats) ==
  <<Line("completed", 0, IF repeats THEN a.text ELSE <<>>,
         IF repeats THEN a.calls ELSE <<>>)>>

Wire(d, a, repeats) ==
  CASE d = "openai" -> Thought \o Texts(a) \o AllFragments(a, 0) \o Counts
    [] d = "anthropic" ->
         \* Block 0 is the text, and content_block_start announces each block.
         Thought \o <<Line("block", 0, <<>>, <<>>)>> \o Texts(a)
           \o AllFragments(a, 1) \o Counts
    [] d \in {"gemini", "code_assist"} -> Texts(a) \o WholeCalls(a) \o Counts
    [] d = "ollama" ->
         Texts(a) \o <<Line("calls", 0, <<>>, a.calls)>> \o Counts
    [] d = "chatgpt" -> Thought \o Texts(a) \o WholeCalls(a) \o Completed(a, repeats)

----------------------------------------------------------------------------
(* Folding the lines.  out is what was handed to on_delta. *)

NoFold == [text |-> <<>>, slots |-> <<>>, calls |-> <<>>, usage |-> FALSE,
           out |-> <<>>, thoughts |-> <<>>, full |-> FALSE, final |-> <<>>,
           finalCalls |-> <<>>]

AddText(f, l)  == [f EXCEPT !.text = @ \o l.text, !.out = @ \o l.text]
AddThoughtToText(f, l) == [f EXCEPT !.thoughts = @ \o l.text, !.text = @ \o l.text]
AddThought(f, l) == [f EXCEPT !.thoughts = @ \o l.text]

\* Slots grow up to the index a fragment names.
Grown(slots, index) ==
  [i \in 1..(IF Len(slots) > index THEN Len(slots) ELSE index + 1) |->
     IF i <= Len(slots) THEN slots[i] ELSE NoCall]

Headed(slots, index, c) ==
  [Grown(slots, index) EXCEPT ![index + 1] = Call(c.id, c.name, @.args)]
Added(slots, index, c) ==
  [Grown(slots, index) EXCEPT ![index + 1] = Call(@.id, @.name, @.args \o c.args)]

AddHead(f, l) == [f EXCEPT !.slots = Headed(@, l.index, l.calls[1])]
ArgsReplaced(f, l) ==
  [f EXCEPT !.slots = [Grown(@, l.index) EXCEPT ![l.index + 1].args = l.calls[1].args]]
AddArgs(f, l) == [f EXCEPT !.slots = Added(@, l.index, l.calls[1])]

\* StreamAssembly.feed_line
OpenAIFeed(f, l) ==
  CASE l.kind = "think"                       -> AddThought(f, l)
    [] l.kind = "text" /\ Len(f.text) >= MaxText -> [f EXCEPT !.full = TRUE]
    [] l.kind = "text" /\ Len(f.text) < MaxText  -> AddText(f, l)
    [] l.kind = "head" /\ l.index < MaxCalls  -> AddHead(f, l)
    [] l.kind = "args" /\ l.index < MaxCalls  -> AddArgs(f, l)
    [] l.kind = "usage"                       -> [f EXCEPT !.usage = TRUE]
    [] OTHER                                  -> f

\* AnthropicStream.feed_line
AnthropicFeed(f, l) ==
  CASE l.kind = "think" -> AddThought(f, l)
    [] l.kind = "text"  -> AddText(f, l)
    [] l.kind = "block" -> [f EXCEPT !.slots = Grown(@, l.index)]
    [] l.kind = "head"  -> AddHead(f, l)
    [] l.kind = "args"  -> AddArgs(f, l)
    [] l.kind = "usage" -> [f EXCEPT !.usage = TRUE]
    [] OTHER            -> f

\* GeminiStream.feed_value
GeminiFeed(f, l) ==
  CASE l.kind = "text"  -> AddText(f, l)
    [] l.kind = "call"  -> [f EXCEPT !.calls = Numbered(@ \o l.calls)]
    [] l.kind = "usage" -> [f EXCEPT !.usage = TRUE]
    [] OTHER            -> f

\* parse_tool_calls
OllamaCalls(f, l) == IF l.calls = <<>> THEN f.calls ELSE Numbered(l.calls)

\* NdjsonAssembly.feed_line: the calls of an object replace earlier ones.
OllamaFeed(f, l) ==
  CASE l.kind = "text"  -> AddText(f, l)
    [] l.kind = "calls" -> [f EXCEPT !.calls = OllamaCalls(f, l)]
    [] l.kind = "usage" -> [f EXCEPT !.usage = TRUE]
    [] OTHER            -> f

\* ResponsesStream.feed_line
ChatGptFeed(f, l) ==
  CASE l.kind = "think"     -> AddThought(f, l)
    [] l.kind = "text"      -> AddText(f, l)
    [] l.kind = "call"      -> [f EXCEPT !.calls = @ \o l.calls]
    [] l.kind = "completed" -> [f EXCEPT !.usage = TRUE, !.final = l.text,
                                         !.finalCalls = l.calls]
    [] OTHER                -> f

Feed(d, f, l) ==
  CASE d = "openai"                   -> OpenAIFeed(f, l)
    [] d = "anthropic"                -> AnthropicFeed(f, l)
    [] d \in {"gemini", "code_assist"} -> GeminiFeed(f, l)
    [] d = "ollama"                   -> OllamaFeed(f, l)
    [] d = "chatgpt"                  -> ChatGptFeed(f, l)

FeedAll(d, f, lines) == FoldLeft(LAMBDA e, l : Feed(d, e, l), f, lines)

\* StreamAssembly.finish and AnthropicStream.finish keep the named slots.
KeepNamed(named, c) ==
  IF c.id # NoId \/ c.name # "" THEN Append(named, c) ELSE named
Named(slots) ==
  LET named[i \in 0..Len(slots)] ==
        IF i = 0 THEN <<>> ELSE KeepNamed(named[i - 1], slots[i])
  IN named[Len(slots)]

OpenAIFinish(f)    == Response(f.text, Named(f.slots), f.usage)
AnthropicFinish(f) ==
  LET named == Named(f.slots)
  IN Response(f.text, [i \in DOMAIN named |-> ObjectArgs(named[i])], f.usage)
GeminiFinish(f)    == Response(f.text, f.calls, f.usage)
OllamaFinish(f)    == Response(f.text, f.calls, f.usage)

\* ResponsesStream.finish prefers the terminal event where it is not empty.
ChatGptFinish(f) ==
  Response(IF f.final = <<>> THEN f.text ELSE f.final,
           IF f.finalCalls = <<>> THEN f.calls ELSE f.finalCalls, f.usage)

Finish(d, f) ==
  CASE d = "openai"                   -> OpenAIFinish(f)
    [] d = "anthropic"                -> AnthropicFinish(f)
    [] d \in {"gemini", "code_assist"} -> GeminiFinish(f)
    [] d = "ollama"                   -> OllamaFinish(f)
    [] d = "chatgpt"                  -> ChatGptFinish(f)

\* String::from_utf8_lossy on each chunk: a wide token cut by a chunk boundary
\* is lost on both sides of it, in the text of a line and in the arguments of
\* its calls.  Ids and names are ASCII.
Lossy(tokens) == [i \in DOMAIN tokens |-> IF tokens[i] \in Wide THEN Garbled ELSE tokens[i]]
LossyCalls(calls) ==
  [i \in DOMAIN calls |-> Call(calls[i].id, calls[i].name, Lossy(calls[i].args))]
Torn(l) == [l EXCEPT !.text = Lossy(@), !.calls = LossyCalls(@)]

\* What is done with a last line that has no newline.
KeepsUnterminated(d) == d \in {"ollama", "chatgpt"}
=============================================================================
