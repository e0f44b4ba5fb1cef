--------------------------- MODULE MCConfigReload ---------------------------
(* Configurations that are applied, refused by the first, a middle and the  *)
(* last fallible subscriber, invalid and torn.                              *)
EXTENDS ConfigReload

Slow == [rate |-> 1, burst |-> 1]
Wide == [rate |-> 1, burst |-> 2]

Base == [parses |-> TRUE, valid |-> TRUE, features |-> [f \in Features |-> "on"],
         auth |-> "keys", limits |-> Wide, connectors |-> {"http"},
         unknown_connector |-> FALSE, providers |-> {1, 2}, missing_key |-> FALSE]
Smaller == [Base EXCEPT !.features = [f \in Features |-> "unset"], !.limits = Slow,
                        !.auth = "off", !.connectors = {"http", "shell"}, !.providers = {2}]
SomeConfigs ==
    {Base, Smaller,
     [Smaller EXCEPT !.auth = "blank"],
     [Smaller EXCEPT !.missing_key = TRUE, !.features = [f \in Features |-> "off"]],
     [Base EXCEPT !.parses = FALSE], [Base EXCEPT !.valid = FALSE],
     [Base EXCEPT !.providers = {}]}
NoDefaults == [f \in Features |-> FALSE]
=============================================================================
