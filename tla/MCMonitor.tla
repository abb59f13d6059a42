---- MODULE MCMonitor ----
(* Two hosts, two ports; complete files, one with the other port and other         *)
(* credentials, one in which prometheus has no deploy list, and two that do not    *)
(* parse.                                                                          *)
EXTENDS Monitor

Full(port, admin) == [deploy |-> Roles, config |-> Roles, port |-> port, admin |-> admin]

MCPort == {1, 2}
MCYaml == {Full(1, TRUE), Full(2, FALSE),
           [Full(1, TRUE) EXCEPT !.deploy = {"node_exporter"}],
           [Full(1, TRUE) EXCEPT !.config = Roles \ {"monitor_sync"}],
           [Full(1, TRUE) EXCEPT !.deploy = {"prometheus", "grafana"}]}
====
