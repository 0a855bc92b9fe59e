-------------------------- MODULE MCProviderCall --------------------------
\* Values for ProviderCall that a .cfg cannot write.
EXTENDS ProviderCall

F == <<"f", <<"x", "w">>>>
G == <<"g", <<>>>>
Generates(text, functions) == [text |-> text, functions |-> functions]

\* Text and arguments with a wide character, a call without arguments, more
\* text than the cap, markup of an offered and of an unknown function, JSON.
MCAnswer == {
  Generates(<<"w", "t">>, <<>>),
  Generates(<<"t">>, <<F, G>>),
  Generates(<<"t", "w", "t", "t">>, <<>>),
  Generates(<<"<tool_call>", "f", "</tool_call>">>, <<>>),
  Generates(<<"<tool_call>", "h", "</tool_call>">>, <<>>),
  Generates(<<"fence", "json", "fence">>, <<>>)}

\* Turns that call one function each.
MCCalling == {Generates(<<>>, <<F>>), Generates(<<>>, <<G>>)}

Asks(tools, schema) == [tools |-> tools, schema |-> schema]
MCAsk == {Asks({}, "none"), Asks({"f", "g"}, "none"), Asks({}, "strict"), Asks({}, "bad")}
MCPlain == {Asks({}, "none")}
=============================================================================
