--------------------------------- MODULE MCBoot ---------------------------------
(* Two replicas that race for two migrations, and the worker.  The settings   *)
(* vary one at a time, the Redis URLs together.                               *)
EXTENDS Boot

CONSTANTS a1, a2, w

MCApis == {a1, a2}
MCConsumers == {w}

Careful == [environment |-> "production", careless |-> {}, limited |-> TRUE,
            migrate |-> TRUE,
            store |-> Url("redis", "redis", 0, TRUE),
            broker |-> Url("redis", "taskiq", 0, TRUE),
            backend |-> Url("redis", "taskiq", 0, TRUE)]

Careless ==
    {[Careful EXCEPT !.environment = "unknown"],
     [Careful EXCEPT !.careless = {"debug"}],
     [Careful EXCEPT !.careless = {"any_origin_with_credentials"}],
     [Careful EXCEPT !.migrate = FALSE],
     [Careful EXCEPT !.environment = "development", !.careless = {"debug"},
                     !.store = Memory, !.broker = Url("redis", "taskiq", 0, FALSE)]}

Stores ==
    {Memory, Url("redis", "redis", 6379, FALSE), Url("redis", "taskiq", 6379, TRUE),
     Url("redis", "taskiq", 6380, TRUE)}
Brokers == {Url("amqp", "taskiq", 0, TRUE), Url("redis", "taskiq", 0, FALSE),
            Url("redis", "taskiq", 0, TRUE)}
Urls ==
    {[Careful EXCEPT !.store = s, !.broker = Url("redis", "taskiq", 0, TRUE)] : s \in Stores}
    \cup {[Careful EXCEPT !.broker = b] : b \in Brokers}
    \cup {[Careful EXCEPT !.limited = FALSE, !.store = Url("redis", "taskiq", 0, TRUE)]}

MCDeployments == Careless \cup Urls
================================================================================
