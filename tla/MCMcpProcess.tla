---------------------------- MODULE MCMcpProcess ----------------------------
(* A few kinds of lines that between them take every branch.               *)
EXTENDS McpProcess

Line0(d, m, id, json, clean) ==
  [decode |-> d, method |-> m, id |-> id, json |-> json, clean |-> clean, fits |-> TRUE]

Initialize == Line0("request", "initialize", "Recovered", TRUE, TRUE)
Ping       == Line0("request", "ping", "Recovered", TRUE, TRUE)
Tool       == Line0("request", "tools/call", "Recovered", TRUE, TRUE)
ToolTwice  == Line0("request", "tools/call", "Recovered", TRUE, FALSE)
TooBig     == [Tool EXCEPT !.fits = FALSE]
Notice     == Line0("notification", "other", "Absent", TRUE, TRUE)
NullId     == Line0("notification", "other", "Unusable", TRUE, TRUE)
TwiceId    == Line0("notification", "other", "Recovered", TRUE, FALSE)
Broken     == Line0("failed", "other", "Recovered", TRUE, TRUE)
Unknown    == Line0("ignored", "other", "Absent", TRUE, TRUE)

\* Every way to open a session and to miss it, and two lines in flight.
MCStreams ==
  {<<Initialize, f, g>> : f \in {Tool, ToolTwice, TwiceId}, g \in {Tool, Broken}}
  \cup {<<f, Initialize, Tool>> : f \in {Ping, Tool, Notice, NullId, Unknown}}
  \cup {<<Ping, Tool, Initialize>>, <<Initialize, TooBig, Tool>>}
=============================================================================
