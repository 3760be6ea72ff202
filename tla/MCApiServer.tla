---------------------------- MODULE MCApiServer ----------------------------
(***************************************************************************)
(* The deployments that the model checker tries: none of the optional      *)
(* dependencies, both brokers or Redis with a probe timeout that cannot be *)
(* parsed, and Redis with the limiter's counters in it beside a broker.    *)
(***************************************************************************)
EXTENDS ApiServer

Bare == [redisURL |-> "", probe |-> "2s", backend |-> "memory", kafka |-> "", rabbit |-> ""]

MCDeployments ==
    {Bare,
     [Bare EXCEPT !.probe = "", !.kafka = "host:9092", !.rabbit = "amqp://"],
     [Bare EXCEPT !.redisURL = "redis://", !.probe = ""],
     [Bare EXCEPT !.redisURL = "redis://", !.backend = "redis", !.kafka = "host:9092"]}
=============================================================================
