------------------------------- MODULE Policy -------------------------------
(***************************************************************************)
(* The policy engine (internal/policy/policy.go) and the rate limiter      *)
(* (internal/middleware/ratelimit.go) that decide about every message.     *)
(*                                                                         *)
(* A request gives each selector the set of its values: one for the        *)
(* selectors with a single value, any number for roles and scopes.  A rule *)
(* gives each selector a pattern, Wildcard for "" and "*".                 *)
(***************************************************************************)
EXTENDS Naturals, Sequences, FiniteSetsExt

CONSTANTS Wildcard,           \* the pattern that matches every value
          Engine,             \* [enabled, scope, default, rules]
          RequestsPerMinute   \* rate of the limiter and size of its buckets

Selectors == {"client_id", "method", "name", "tool_name", "role"}
Actions == {"allow", "deny"}

\* NewEngine accepts only these.
ASSUME PolicyAssumption ==
    /\ Engine.enabled \in BOOLEAN
    /\ Engine.scope \in {"tools_only", "all_operations"}
    /\ Engine.default \in Actions
    /\ Len(Engine.rules) \in Nat
    /\ \A i \in 1..Len(Engine.rules) : Engine.rules[i].action \in Actions
    /\ RequestsPerMinute \in Nat \ {0}

matches(pattern, values) == pattern = Wildcard \/ pattern \in values

\* The rules that select the request.
Matching(request) ==
    {i \in 1..Len(Engine.rules) :
        \A s \in Selectors : matches(Engine.rules[i].match[s], request[s])}

\* Evaluate: the first matching rule decides, or the default action.
Evaluate(request) ==
    CASE ~Engine.enabled -> "allow"
      [] Engine.enabled /\ Engine.scope = "tools_only" /\ request["method"] # {"tools/call"} -> "allow"
      [] OTHER -> IF Matching(request) = {}
                  THEN Engine.default
                  ELSE Engine.rules[Min(Matching(request))].action

-----------------------------------------------------------------------------
(* The limiter keeps one token bucket per client and tool, made full when  *)
(* the pair is first seen.  The bucket itself is golang.org/x/time/rate.   *)

VARIABLE limiters   \* bucket name -> tokens

Bucket(key) == IF key \in DOMAIN limiters THEN limiters[key] ELSE RequestsPerMinute

SetBucket(key, tokens) ==
    limiters' = [k \in DOMAIN limiters \cup {key} |-> IF k = key THEN tokens ELSE limiters[k]]

\* Allow(client, tool) = TRUE takes a token.
Take(key) ==
    /\ Bucket(key) > 0
    /\ SetBucket(key, Bucket(key) - 1)

\* Allow(client, tool) = FALSE; the bucket is there from now on.
Limited(key) ==
    /\ Bucket(key) = 0
    /\ SetBucket(key, 0)

\* Time gives a bucket one token, up to its size.
Refill(key) ==
    /\ key \in DOMAIN limiters
    /\ limiters[key] < RequestsPerMinute
    /\ limiters' = [limiters EXCEPT ![key] = @ + 1]
=============================================================================
