--------------------------- MODULE MCSiteElement ---------------------------
(* Instances of SiteElement for TLC: names of one another's prefix, in two   *)
(* cases and padded, and an element whose ID is another one's name.          *)
EXTENDS SiteElement

MCStrip(t) == IF t = " e1" THEN "e1" ELSE IF t = " " THEN "" ELSE t
MCLower(t) == IF t = "LAN" THEN "lan" ELSE t
MCWithin(t, u) == t = u \/ <<t, u>> \in {<<"1", "17">>, <<"1", "e1">>}

MCValues == {"absent", " ", "1", "17", "lan", " e1", "s1"}

MCNames == {{"1"}, {"17"}, {"LAN"}}
MCElementsAt(id) ==
  {{}} \cup {{[id |-> id, names |-> n, site |-> s]} : n \in MCNames, s \in {"s1", "s2", "none"}}
MCElementLists == {a \cup b \cup c : a \in MCElementsAt("e1"), b \in MCElementsAt("e2"),
                                    c \in MCElementsAt("1")}

MCSite(id, name) == [id |-> id, names |-> {name}]
MCSiteLists == {{MCSite("s1", "1"), MCSite("s2", "17")}, {MCSite("s1", "LAN"), MCSite("s2", "lan")}}
=============================================================================
