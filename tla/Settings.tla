----------------------------- MODULE Settings -------------------------------
(***************************************************************************)
(* Loading and validating the configuration (cmd/mcp-audit/main.go).       *)
(*                                                                         *)
(* A text is "" or one of the classes the checks tell apart: "blank" is    *)
(* white space only, "spaced" contains some, "clean" contains none.        *)
(* Numbers of bytes, times and ports are represented by their value.       *)
(***************************************************************************)
EXTENDS Integers

Trimmed(t) == IF t = "blank" THEN "" ELSE t
NoSpace(t) == t \in {"", "clean"}

\* validateForwardHeaders: clean names, and none that carries credentials.
validateForwardHeaders(headers) ==
    \A h \in headers : h \notin {"", "blank", "spaced", "cookie", "set-cookie", "proxy-authorization"}

rotationConfigured(c) == c.maxSize > 0 \/ c.maxFiles > 0 \/ c.interval # "" \/ c.maxAge > 0

validateStaticPrincipal(c) == c.subject # "" /\ (c.authClient # "" \/ c.proxyClient # "")

\* The parts of the URLs that are checked are their scheme and host.
validateOIDCConfig(c) ==
    /\ c.audience # "" /\ c.claims # ""
    /\ \A u \in {c.issuer, c.jwks} : u = "https" \/ u = "http-loopback"
    /\ c.skew >= 0 /\ c.oidcTimeout > 0 /\ c.refresh > 0
    /\ c.methods # {}
    /\ c.methods \subseteq {"RS256", "RS384", "RS512", "ES256", "ES384", "ES512", "EdDSA"}

validateAuthConfig(c) ==
    \/ c.auth = "none" /\ validateStaticPrincipal(c) /\ c.bearer = 0
    \/ c.auth = "static_bearer" /\ validateStaticPrincipal(c) /\ c.transport = "http" /\ c.bearer >= 32
    \/ c.auth = "oidc" /\ c.transport = "http" /\ validateOIDCConfig(c)

\* The settings only the HTTP transport checks, and incoming TLS.
validateHTTP(c) ==
    /\ c.transport = "http" =>
          /\ c.upstreamTimeout > 0 /\ NoSpace(c.bind)
          /\ c.bodyBytes > 0 /\ c.headerBytes > 0 /\ c.timeouts > 0
          /\ c.accessLists
    /\ (c.clientCert = "") = (c.clientKey = "")
    /\ IF c.tls THEN c.transport = "http" /\ c.cert # "" /\ c.key # ""
                ELSE c.cert = "" /\ c.key = ""

\* Metrics, dashboard and exporter.
validateServers(c) ==
    /\ c.metricsPath = "/"
    /\ c.dashboard => Trimmed(c.dashboardBind) # "" /\ c.port \in 1..65535 /\ NoSpace(c.token)
    /\ c.otel => c.endpoint # "" /\ c.otelRetries >= 0

validateSigning(c) == c.sign => c.keyID = "clean" /\ Trimmed(c.secret) # ""

validateStorage(c) ==
    /\ c.storage \in {"jsonl", "sqlite"}
    /\ c.maxSize >= 0 /\ c.maxFiles >= 0 /\ c.maxAge >= 0
    /\ c.interval \in {"", "hourly", "daily"}
    /\ c.storage = "sqlite" => ~rotationConfigured(c)

validateConfig(c) ==
    /\ c.transport \in {"stdio", "http"}
    /\ c.upstream # ""
    /\ c.retries >= 0
    /\ validateForwardHeaders(c.forward)
    /\ validateHTTP(c)
    /\ validateAuthConfig(c)
    /\ validateServers(c)
    /\ validateSigning(c)
    /\ validateStorage(c)

\* The environment has the last word about the signing secret: the legacy
\* variable unless it is empty, then the preferred one even when it is.
resolveSigningSecret(c, env) ==
    [c EXCEPT !.secret = IF env.preferredSet THEN env.preferred
                         ELSE IF env.legacy # "" THEN env.legacy ELSE @]

\* A bearer token in the environment replaces the configured one.
resolveConfig(c, env) ==
    resolveSigningSecret([c EXCEPT !.bearer = IF env.bearer > 0 THEN env.bearer ELSE @], env)

\* Mutant: the configuration is validated before the environment is looked at.
loadConfigEarly(file, c, env) == file # "unreadable" /\ validateConfig(c)

\* A missing file leaves the defaults, flags and environment in force (in c).
loadConfig(file, c, env) == file # "unreadable" /\ validateConfig(resolveConfig(c, env))
=============================================================================
