--------------------------- MODULE MCRunCommands ---------------------------
(* Instances of RunCommands for TLC: batches of two and three commands, and  *)
(* what callers and configurations get wrong on the way to them.             *)
EXTENDS RunCommands, TLC

CONSTANTS PagesOfA, PagesOfB, BytesOfA, BytesOfB

MCBatch == <<"a", "b">>
MCBatch3 == <<"a", "b", "c">>
MCPages == [c \in {"a", "b"} |-> IF c = "a" THEN PagesOfA ELSE PagesOfB]
MCPages3 == [c \in {"a", "b", "c"} |-> IF c = "b" THEN PagesOfB ELSE PagesOfA]
MCBytes == [c \in {"a", "b"} |-> IF c = "a" THEN BytesOfA ELSE BytesOfB]
MCBytes3 == [c \in {"a", "b", "c"} |-> IF c = "b" THEN BytesOfB ELSE BytesOfA]

\* Commands: one of each approved form, and one for each reason to deny it
Cmd(root, words) ==
  [string |-> TRUE, trimmed |-> TRUE, printable |-> TRUE, spaced |-> TRUE, root |-> root,
   words |-> words]
Dump == Cmd("dump", <<"word", "pipe", "grep", "flag", "pattern">>)
Inspect == [Cmd("inspect", <<"word", "word">>) EXCEPT !.spaced = FALSE]
Ping == Cmd("ping", <<"word", "word", "count">>)
TcpPing == Cmd("tcpping", <<"word", "endpoint">>)
Dig == Cmd("dig", <<"word", "word", "word">>)
Denied ==
  {[Dump EXCEPT !.string = FALSE], [Dump EXCEPT !.trimmed = FALSE],
   [Dump EXCEPT !.printable = FALSE], [Ping EXCEPT !.spaced = FALSE],
   Cmd("other", <<"word">>), Cmd("dump", <<>>), Cmd("dump", <<"word", "pipe", "word", "word">>),
   Cmd("dump", <<"word", "pipe", "grep", "flag">>), Cmd("inspect", <<"word", "pattern">>),
   Cmd("ping", <<"word", "word", "other">>), Cmd("tcpping", <<"word", "endpoint_range">>),
   Cmd("dig", <<"word", "word">>)}

Fine3 == {<<Dump, Ping, TcpPing>>, <<Inspect, Dig, Dump>>}
Lists3 == Fine3 \cup {<<>>, <<Dump, Dump, Dump, Dump>>} \cup {<<Dump, c, Ping>> : c \in Denied}

\* Settings
V(kind) == [kind |-> kind, number |-> 0]
Number(n) == [kind |-> "number", number |-> n]
Short(value) == <<value, Unset>>
Long(value) == <<Unset, value>>
Nothing == [s \in Settings |-> <<Unset, Unset>>]
WithPassword ==
  ("username" :> Short(V("word")) @@ "password" :> Short(V("word"))) @@ Nothing
\* The file that .env.example makes: blank where nothing is configured
Stock ==
  [s \in Settings |-> IF s \in {"username", "password"} THEN <<V("empty"), V("word")>>
                      ELSE Short(V("empty"))]
WithKey(value) ==
  ("username" :> Short(V("word")) @@ "private_key" :> <<V("blank"), value>>
     @@ "passphrase" :> Short(V("word"))) @@ Nothing

GoodEnvironments == {WithPassword, Stock, WithKey(V("word"))}
BadEnvironments ==
  {Nothing, WithKey(V("junk")), "private_key" :> Short(V("word")) @@ WithPassword,
   "username" :> Short(V("blank")) @@ WithPassword,
   "passphrase" :> Long(V("word")) @@ WithPassword,
   "port" :> Short(Number(65536)) @@ WithPassword}
    \cup {s :> Short(V("word")) @@ WithPassword : s \in {"port", "max_commands", "timeout"}}
    \cup {s :> Short(Number(0)) @@ WithPassword : s \in {"port", "max_commands", "max_output"}}
    \cup {"max_commands" :> <<V("blank"), Number(2)>> @@ WithPassword,
          "max_output" :> Long(V("blank")) @@ WithPassword}

Call3(commands, env, element, host) ==
  [list |-> TRUE, commands |-> commands, env |-> env, element |-> element, host |-> host]
MCRequests3 ==
  {Call3(b, WithPassword, TRUE, FALSE) : b \in Lists3}
    \cup {[Call3(<<>>, e, TRUE, FALSE) EXCEPT !.list = FALSE] : e \in BadEnvironments}
    \cup {Call3(b, e, TRUE, TRUE) : b \in Fine3, e \in GoodEnvironments \cup BadEnvironments}
    \cup {Call3(<<Dump, Ping, Dig>>, e, a, FALSE) : e \in {Stock} \cup BadEnvironments, a \in BOOLEAN}
MCRequests == {Call3(<<Dump, Ping>>, WithPassword, FALSE, TRUE)}
=============================================================================
