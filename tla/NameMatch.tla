----------------------------- MODULE NameMatch -----------------------------
(***************************************************************************)
(* How a name or an ID given by the caller is matched with records:        *)
(* resolver.find (src/prisma_sdwan_mcp/resolver.py) and match_named        *)
(* (src/prisma_sdwan_mcp/tools/common.py).                                 *)
(*                                                                         *)
(* Texts are opaque; what the code computes of them, str.strip, str.lower  *)
(* and substring, are given as constant operators.  A record has an id and *)
(* the set of the texts its match fields hold.                             *)
(***************************************************************************)
CONSTANTS Strip(_), Lower(_), Within(_, _)

ExactId(rs, text) == {r \in rs : r.id = text}
ExactName(rs, text) == {r \in rs : \E n \in r.names : Lower(n) = Lower(text)}
Substring(rs, text) == {r \in rs : \E n \in r.names : Within(Lower(text), Lower(n))}

\* Mutant: the exact name is only one of the substring matches
TieredNoExactName(rs, key, text) ==
  IF ExactId(rs, key) # {} THEN ExactId(rs, key) ELSE Substring(rs, text)

\* Exact ID, then exact name, then substring; key is what IDs are compared with
Tiered(rs, key, text) ==
  IF ExactId(rs, key) # {} THEN ExactId(rs, key)
  ELSE IF ExactName(rs, text) # {} THEN ExactName(rs, text)
  ELSE Substring(rs, text)

\* resolver.find, for a value that is not blank
Find(rs, value) == Tiered(rs, Strip(value), Strip(value))

\* match_named compares IDs with the value as it was given
MatchNamed(rs, value) == Tiered(rs, value, Strip(value))
=============================================================================
