----------------------------- MODULE MCService ------------------------------
(* Small instances of the process for TLC. *)
EXTENDS Service

Base ==
    [transport |-> "stdio", upstream |-> "clean", retries |-> 1, forward |-> {"x-trace"},
     upstreamTimeout |-> 1, bind |-> "clean", bodyBytes |-> 1, headerBytes |-> 1, timeouts |-> 1,
     accessLists |-> TRUE, clientCert |-> "", clientKey |-> "", tls |-> FALSE, cert |-> "", key |-> "",
     auth |-> "none", subject |-> "clean", authClient |-> "", proxyClient |-> "clean", bearer |-> 0,
     issuer |-> "https", jwks |-> "http-loopback", audience |-> "clean", claims |-> "clean",
     skew |-> 0, oidcTimeout |-> 1, refresh |-> 1, methods |-> {"RS256"},
     metrics |-> FALSE, metricsPath |-> "/", dashboard |-> TRUE, dashboardBind |-> "clean",
     port |-> 8080, token |-> "", otel |-> TRUE, endpoint |-> "clean", otelRetries |-> 1,
     storage |-> "jsonl", sign |-> TRUE, keyID |-> "clean", secret |-> "clean",
     maxSize |-> 0, maxFiles |-> 0, maxAge |-> 0, interval |-> "hourly",
     async |-> TRUE, durable |-> FALSE]

Http == [Base EXCEPT !.transport = "http", !.auth = "oidc"]
Bearer == [Base EXCEPT !.transport = "http", !.auth = "static_bearer", !.bearer = 31]

\* Configurations that are served: every transport and kind of store.
Served ==
    <<Base, Http, [Base EXCEPT !.durable = TRUE, !.dashboard = FALSE],
      [Http EXCEPT !.async = FALSE, !.otel = FALSE, !.metrics = TRUE]>>

\* And that are not: one check at a time.
Refused ==
    <<[Base EXCEPT !.transport = "tcp"], [Base EXCEPT !.upstream = ""], [Base EXCEPT !.retries = -1],
      [Base EXCEPT !.forward = {"cookie"}], [Http EXCEPT !.timeouts = 0], [Http EXCEPT !.bind = "spaced"],
      [Http EXCEPT !.clientCert = "clean"], [Base EXCEPT !.tls = TRUE], [Http EXCEPT !.tls = TRUE],
      [Http EXCEPT !.key = "clean"], [Base EXCEPT !.subject = ""], [Base EXCEPT !.bearer = 32],
      Bearer, [Http EXCEPT !.issuer = "http"], [Http EXCEPT !.methods = {"HS256"}],
      [Base EXCEPT !.auth = "oidc"], [Base EXCEPT !.metricsPath = ""], [Base EXCEPT !.port = 0],
      [Base EXCEPT !.token = "spaced"], [Base EXCEPT !.endpoint = ""], [Base EXCEPT !.storage = "csv"],
      [Base EXCEPT !.keyID = "spaced"], [Base EXCEPT !.secret = "blank"], [Base EXCEPT !.maxFiles = -1],
      [Base EXCEPT !.interval = "weekly"], [Base EXCEPT !.storage = "sqlite"]>>

Bare == [preferredSet |-> FALSE, preferred |-> "", legacy |-> "", bearer |-> 0]

MCLaunches ==
    LET configs == Served \o Refused
    IN  [k \in 1..Len(configs) |-> [file |-> "read", config |-> configs[k], env |-> Bare]]
        \o <<[file |-> "unreadable", config |-> Base, env |-> Bare],
             [file |-> "missing", config |-> [Bearer EXCEPT !.otel = FALSE, !.secret = ""],
              env |-> [Bare EXCEPT !.bearer = 32, !.legacy = "clean"]],
             [file |-> "read", config |-> Base, env |-> [Bare EXCEPT !.preferredSet = TRUE]],
             [file |-> "read", config |-> [Base EXCEPT !.sign = FALSE, !.otel = FALSE], env |-> Bare]>>
=============================================================================
