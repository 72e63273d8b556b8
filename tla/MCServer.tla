------------------------------ MODULE MCServer ------------------------------
(* Some deployments. *)
EXTENDS Server, TLC

\* Nothing optional; Kafka and tracing; Redis, and with it PubSub's
\* connections, and a replica.
SomeConfigs == {{}, {"consumer", "producer", "tracing"}, {"redis", "read"}}
=============================================================================
