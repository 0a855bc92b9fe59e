----------------------------- MODULE MCDispatch -----------------------------
\* Values for Dispatch that a .cfg cannot write.
EXTENDS Dispatch, TLC

Symmetry == Permutations(Job)

Llama == [name |-> "llama", external |-> FALSE]
Gpt   == [name |-> "gpt", external |-> TRUE]
MCBackend == {Llama, Gpt}

Operator(preference, fallback, accepts, external, pauses) ==
  [preference |-> preference, fallback |-> fallback, accepts |-> accepts,
   external |-> external, pauses |-> pauses, parallel |-> 1, perHour |-> 2]

\* Operators that allow everything, and operators that do not.  The first has
\* the RoutingPolicy a configuration has by default.
MCConfig == {
  Operator("prefer_local", FALSE, Level, {"private"}, TRUE),
  Operator("prefer_local", TRUE, Level, Level, FALSE),
  Operator("prefer_external", FALSE, Level, Level, TRUE),
  Operator("external_only", FALSE, {"public", "private"}, {"public", "private"}, TRUE),
  Operator("local_only", FALSE, Level, Level, TRUE)}

Ask(door, privacy, allow, name, local, context) ==
  [door |-> door, privacy |-> privacy, allow |-> allow, model |-> name,
   local |-> local, context |-> context]

MCRequest == {
  Ask("openai", "unset", "unset", NoModel, FALSE, FALSE),
  Ask("openai", "unset", "no", NoModel, FALSE, FALSE),
  Ask("openai", "private", "unset", NoModel, FALSE, FALSE),
  Ask("openai", "private", "no", NoModel, FALSE, FALSE),
  Ask("openai", "sensitive", "yes", NoModel, FALSE, FALSE),
  Ask("mcp", "unset", "yes", "gpt", FALSE, FALSE),
  Ask("mcp", "private", "yes", NoModel, TRUE, FALSE),
  Ask("mcp", "public", "unset", NoModel, FALSE, TRUE)}

MCPolicy == {{"public"}, Level}
=============================================================================
