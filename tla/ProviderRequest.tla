-------------------------- MODULE ProviderRequest --------------------------
(***************************************************************************)
(* What each adapter makes of a conversation before it sends it, and what  *)
(* the gateway makes of the text that comes back (adapters/*.rs, tools.rs, *)
(* gateway.rs).  A message is [role, text, calls, answers]: answers is the *)
(* id of the call a tool message holds the result of.  A request is        *)
(* [system, turns], a turn [role, parts], a part                           *)
(* [kind, text, id, name] with the fields its dialect has.                 *)
(***************************************************************************)
EXTENDS ProviderWire

Message(role, text, calls, answers) ==
  [role |-> role, text |-> text, calls |-> calls, answers |-> answers]

Part(kind, text, id, name) ==
  [kind |-> kind, text |-> text, id |-> id, name |-> name]
Turn(role, parts) == [role |-> role, parts |-> parts]

TextPart(m)   == IF m.text = <<>> THEN <<>> ELSE <<Part("text", m.text, NoId, "")>>
CallParts(m)  == [i \in DOMAIN m.calls |->
                    Part("call", <<>>, m.calls[i].id, m.calls[i].name)]
NoIds(parts)  == [i \in DOMAIN parts |-> [parts[i] EXCEPT !.id = NoId]]

\* The elements of s that are in S, in their order: a SelectSeq that can be
\* reasoned about.
Kept(s, S)    == FlattenSeq([i \in DOMAIN s |-> IF s[i] \in S THEN <<s[i]>> ELSE <<>>])
Role(ms, r)   == Kept(ms, {m \in Range(ms) : m.role = r})
Others(ms, r) == Kept(ms, {m \in Range(ms) : m.role # r})
OfId(cs, id)  == Kept(cs, {c \in Range(cs) : c.id = id})

\* Several system messages: Anthropic and Gemini keep the last one.
LastSystem(ms) ==
  LET systems == Role(ms, "system")
  IN IF systems = <<>> THEN <<>> ELSE Last(systems).text

----------------------------------------------------------------------------

\* chat_body passes messages on as they are.
OpenAIRequest(ms) ==
  [system |-> <<>>,
   turns  |-> [i \in DOMAIN ms |->
     Turn(ms[i].role,
          IF ms[i].role = "tool"
          THEN <<Part("result", ms[i].text, ms[i].answers, "")>>
          ELSE TextPart(ms[i]) \o CallParts(ms[i]))]]

AnthropicTurnReplaces(turns, m) ==
  LET result == Turn("user", <<Part("result", m.text, m.answers, "")>>)
      merges == /\ turns # <<>> /\ Last(turns).role = "user"
                /\ Head(Last(turns).parts).kind = "result"
  IN CASE m.role = "tool" /\ merges  -> Append(Front(turns), result)
       [] m.role = "tool" /\ ~merges -> Append(turns, result)
       [] OTHER -> Append(turns, Turn(m.role, TextPart(m) \o CallParts(m)))

\* split_system: results that follow one another share a user turn.
AnthropicTurn(turns, m) ==
  LET result == Part("result", m.text, m.answers, "")
      merges == /\ turns # <<>> /\ Last(turns).role = "user"
                /\ Head(Last(turns).parts).kind = "result"
  IN CASE m.role = "tool" /\ merges ->
            Append(Front(turns), Turn("user", Append(Last(turns).parts, result)))
       [] m.role = "tool" /\ ~merges -> Append(turns, Turn("user", <<result>>))
       [] m.role = "assistant" /\ m.calls # <<>> ->
            Append(turns, Turn("assistant", TextPart(m) \o CallParts(m)))
       [] OTHER -> Append(turns, Turn(m.role, <<Part("text", m.text, NoId, "")>>))

AnthropicRequest(ms) ==
  [system |-> LastSystem(ms),
   turns  |-> FoldLeft(AnthropicTurn, <<>>, Others(ms, "system"))]

\* call_names: the function of an id, the last call that used it.
CallNames(ms) ==
  LET calls == FlattenSeq([i \in DOMAIN ms |-> ms[i].calls])
  IN [id \in {calls[i].id : i \in DOMAIN calls} |->
        Last(OfId(calls, id)).name]

\* build_generate_content_body: a result names the function it answers.
GeminiTurn(m, names) ==
  CASE m.role = "assistant" ->
         Turn("model", LET parts == TextPart(m) \o NoIds(CallParts(m))
                       IN IF parts = <<>> THEN <<Part("text", <<>>, NoId, "")>> ELSE parts)
    [] m.role = "tool" ->
         Turn("user", <<Part("result", m.text, NoId,
                IF m.answers \in DOMAIN names THEN names[m.answers] ELSE "")>>)
    [] OTHER -> Turn("user", <<Part("text", m.text, NoId, "")>>)

GeminiRequest(ms) ==
  LET rest == Others(ms, "system")
  IN [system |-> LastSystem(ms),
      turns  |-> [i \in DOMAIN rest |-> GeminiTurn(rest[i], CallNames(ms))]]

\* The same body in the envelope of Code Assist.
CodeAssistRequest(ms) == GeminiRequest(ms)

\* build_messages: no ids, neither of calls nor of results.
OllamaRequest(ms) ==
  LET plain == OpenAIRequest(ms)
  IN [plain EXCEPT !.turns =
        [i \in DOMAIN @ |-> [@[i] EXCEPT !.parts = NoIds(@)]]]

\* build_responses_body: every part is an item, system texts are joined.
ResponsesItems(m) ==
  CASE m.role = "assistant" ->
         (IF m.text # <<>> \/ m.calls = <<>> THEN <<Part("text", m.text, NoId, "")>> ELSE <<>>)
         \o CallParts(m)
    [] m.role = "tool" -> <<Part("result", m.text, m.answers, "")>>
    [] OTHER           -> <<Part("text", m.text, NoId, "")>>

ResponsesRequest(ms) ==
  LET systems == Role(ms, "system")
      rest    == Others(ms, "system")
  IN [system |-> FlattenSeq([i \in DOMAIN systems |-> systems[i].text]),
      turns  |-> [i \in DOMAIN rest |-> Turn(rest[i].role, ResponsesItems(rest[i]))]]

Request(d, ms) ==
  CASE d = "openai"      -> OpenAIRequest(ms)
    [] d = "anthropic"   -> AnthropicRequest(ms)
    [] d = "gemini"      -> GeminiRequest(ms)
    [] d = "code_assist" -> CodeAssistRequest(ms)
    [] d = "ollama"      -> OllamaRequest(ms)
    [] d = "chatgpt"     -> ResponsesRequest(ms)

----------------------------------------------------------------------------
(* What a provider can tell of the results it is sent *)

AllParts(turns) == FlattenSeq([i \in DOMAIN turns |-> turns[i].parts])
Parts(request, kind) ==
  LET parts == AllParts(request.turns)
  IN Kept(parts, {p \in Range(parts) : p.kind = kind})

\* The function a result is for: by its name, else by the call that has its id,
\* else, where there are no ids, by its position.
ResultOf(d, request, k) ==
  LET calls  == Parts(request, "call")
      result == Parts(request, "result")[k]
      called == OfId(calls, result.id)
  IN CASE d \in {"gemini", "code_assist"} -> result.name
       [] d = "ollama" -> IF k <= Len(calls) THEN calls[k].name ELSE ""
       [] OTHER        -> IF called = <<>> THEN "" ELSE Last(called).name

----------------------------------------------------------------------------
(* The text of an answer: tool markup and structured output *)

Open  == "<tool_call>"
Close == "</tool_call>"
Fence == "fence"

NoMarkup        == [found |-> FALSE, ok |-> TRUE, text |-> <<>>, calls |-> <<>>]
MarkupError     == [NoMarkup EXCEPT !.found = TRUE, !.ok = FALSE]

\* parse_tool_block, on a body that is one token: the call of a function.
Scan(offered) == [open |-> FALSE, body |-> <<>>, plain |-> <<>>, calls |-> <<>>,
                  ok |-> TRUE, offered |-> offered]

MarkupStep(s, t) ==
  CASE ~s.open /\ t = Open -> [s EXCEPT !.open = TRUE, !.body = <<>>]
    [] ~s.open /\ t # Open -> [s EXCEPT !.plain = Append(@, t)]
    [] s.open /\ t # Close -> [s EXCEPT !.body = Append(@, t)]
    [] s.open /\ t = Close ->
         IF Len(s.body) = 1 /\ s.body[1] \in s.offered
         THEN [s EXCEPT !.open = FALSE,
                        !.calls = Append(@, Call(NoId, s.body[1], <<>>))]
         ELSE [s EXCEPT !.open = FALSE, !.ok = FALSE]

\* normalize_tool_markup: all calls are well formed and offered, or none counts.
NormalizeMarkup(text, offered) ==
  LET end == FoldLeft(MarkupStep, Scan(offered), text)
  IN CASE ~Contains(text, Open)          -> NoMarkup
       [] Contains(text, Open) /\ (end.open \/ ~end.ok \/ end.calls = <<>>) -> MarkupError
       [] OTHER -> [found |-> TRUE, ok |-> TRUE, text |-> end.plain,
                    calls |-> Numbered(end.calls)]

\* validate_json_output: one instance of the schema, fenced or not.
Unfenced(text) ==
  IF Len(text) >= 2 /\ Head(text) = Fence /\ Last(text) = Fence
  THEN SubSeq(text, 2, Len(text) - 1) ELSE text
ValidJson(text, instances) == Len(Unfenced(text)) = 1 /\ Unfenced(text)[1] \in instances
=============================================================================
