---------------------------- MODULE MCHTTPProxy -----------------------------
(* Two handlers of the HTTP proxy, for TLC. *)
EXTENDS HTTPProxy

Call(i, tool) == [method |-> "tools/call", id |-> i, name |-> tool]
List(i) == [method |-> "tools/list", id |-> i, name |-> ""]
Note == [method |-> "notifications/progress", id |-> NoId, name |-> ""]
Answer(i) == [method |-> "", id |-> i, name |-> ""]
Post(msgs) == [method |-> "POST", client |-> "c1", msgs |-> msgs]

Select(tool, action) ==
    [action |-> action,
     match |-> [s \in Selectors |-> IF s = "tool_name" THEN tool ELSE Wildcard]]

\* Tool b is denied, then everything on its name is allowed.
MCEngine == [enabled |-> TRUE, scope |-> "tools_only", default |-> "allow",
             rules |-> <<Select("b", "deny"), Select("b", "allow"), Select("a", "allow")>>]

MCRetryPolicy == [maxRetries |-> 2, initial |-> 2, max |-> 5, statuses |-> {429, 503}]

MCMaxEvents == [h \in Handlers |-> IF h = "h1" THEN 2 ELSE 0]

\* One handler gets every shape of a POST, the other competes for the tokens.
MCInbox == [h \in Handlers |->
    IF h = "h1"
    THEN {Post(<<>>), Post(<<List("i1")>>), Post(<<List("i1"), Call("i2", "a")>>),
          Post(<<Answer("i1"), Note, Call("i1", "a")>>),
          Post(<<List("i1"), Call("i1", "a")>>), Post(<<Call("i1", "a"), Call("i2", "b")>>)}
    ELSE {Post(<<Call("i1", "a")>>)}]
=============================================================================
