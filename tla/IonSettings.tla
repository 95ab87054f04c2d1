---------------------------- MODULE IonSettings ----------------------------
(***************************************************************************)
(* The settings of the CLI lane (src/prisma_sdwan_mcp/config.py): each may *)
(* be spelled in two ways, short and long, and a value may be missing, may *)
(* be there and say nothing, or may be no number where one is needed.      *)
(***************************************************************************)
EXTENDS Naturals, Sequences

\* Values of an environment variable.  NAME= is empty, a value of blanks only is
\* blank; junk is a private key that no key class can parse
ValueKinds == {"unset", "empty", "blank", "number", "word", "junk"}
Values == [kind : ValueKinds, number : Nat]
Says(value) == value.kind \notin {"unset", "empty", "blank"}
Unset == [kind |-> "unset", number |-> 0]

\* The two spellings of a setting, the short one first; the three timeouts are one
Settings == {"username", "password", "private_key", "passphrase", "port", "max_commands",
             "max_output", "timeout"}
Environments == [Settings -> Values \X Values]

-----------------------------------------------------------------------------
\* _first_set: blank is absent
FirstSet(spelled) ==
  IF Says(spelled[1]) THEN spelled[1]
  ELSE IF Says(spelled[2]) THEN spelled[2] ELSE Unset

\* _pick: the long spelling counts when the short one says nothing
Pick(spelled) == IF Says(spelled[1]) THEN spelled[1] ELSE spelled[2]

\* _int_env raises for what is no number, blanks included, and for a number
\* below 1, the minimum of every setting here
Raises(spelled) ==
  LET raw == Pick(spelled)
  IN raw.kind \notin {"unset", "empty"} /\ ~(raw.kind = "number" /\ raw.number >= 1)
IntEnv(spelled, default) ==
  LET raw == Pick(spelled) IN IF raw.kind = "number" THEN raw.number ELSE default

Given(env, setting) == FirstSet(env[setting]) # Unset

\* _configured_credentials: a user name, and a password or a key but not both
Configured(env) ==
  /\ Given(env, "username")
  /\ ~(Given(env, "password") <=> Given(env, "private_key"))

\* build_connection_kwargs: a port that exists, and a passphrase only for a key,
\* which can be parsed
Usable(env) ==
  /\ IntEnv(env["port"], 22) \in 1..65535
  /\ Given(env, "passphrase") => Given(env, "private_key")
  /\ FirstSet(env["private_key"]).kind # "junk"
=============================================================================
