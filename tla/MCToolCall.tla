----------------------------- MODULE MCToolCall -----------------------------
(* An instance of ToolCall for TLC: every operation, and a capability for     *)
(* each kind of SDK method the executor tells apart.                          *)
EXTENDS ToolCall

Req(n) == [name |-> n, default |-> FALSE]
Opt(n) == [name |-> n, default |-> TRUE]

Method(verb, paths, curated, named, hides) ==
  [verb |-> verb, paths |-> paths, required |-> {paths[i] : i \in DOMAIN paths},
   versioned |-> TRUE, curated |-> curated, offered |-> TRUE, named |-> named, hides |-> hides]

Two == <<"site_id", "element_id">>
Version == <<Opt("tenant_id"), Opt("api_version")>>
Hidden == {"args", "kwargs"}

\* Methods that name their paths and their body, that hide some of them or all
\* behind *args and **kwargs (tests/test_executor.py:23), one whose path has
\* another name, and one that the SDK does not have
MCCapabilities ==
  {Method("GET", Two, FALSE, <<Req("site_id"), Req("element_id")>> \o Version, {}),
   Method("GET", <<"site_id">>, TRUE, <<Req("id")>> \o Version, {}),
   Method("GET", Two, FALSE, <<>>, Hidden),
   Method("GET", Two, TRUE, <<>>, {"kwargs"}),
   Method("GET", <<>>, TRUE, Version, {}),
   Method("POST", <<>>, FALSE, <<Req("data")>> \o Version, {}),
   Method("POST", <<"site_id">>, FALSE, <<Req("site_id"), Req("payload")>> \o Version, {}),
   Method("POST", Two, FALSE, <<Req("data")>>, Hidden),
   Method("POST", Two, FALSE, <<>>, Hidden),
   Method("POST", Two, TRUE, <<>>, {"kwargs"}),
   [Method("GET", <<>>, TRUE, Version, {}) EXCEPT !.offered = FALSE]}

MCBodyNames == {"data", "body", "payload", "request", "request_body", "query", "query_body"}

AllOperations == DOMAIN Plans
=============================================================================
