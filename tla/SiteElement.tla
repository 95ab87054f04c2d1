---------------------------- MODULE SiteElement ----------------------------
(***************************************************************************)
(* resolver.site_element (src/prisma_sdwan_mcp/resolver.py): from the site *)
(* and element a caller names to one element, or an error.  The two lists  *)
(* are fetched one after the other and either fetch may be answered by an  *)
(* error.                                                                  *)
(***************************************************************************)
EXTENDS NameMatch, Naturals

CONSTANTS
  SiteLists,      \* sites the controller may list
  ElementLists,   \* elements it may list; a record's site may be None
  Values,         \* what a caller may pass for site or element
  Absent,         \* an argument left out, or ""
  Blank,          \* the text of white space only, stripped
  None            \* no site_id

ASSUME SiteElementAssumption ==
  /\ Absent \in Values
  /\ \A rs \in SiteLists : None \notin {r.id : r \in rs}

VARIABLES
  sites, elements,            \* the controller's lists
  siteArg, elementArg,        \* what the caller passed
  pc,                         \* "site", "element" or "done"
  site,                       \* id of the site resolved, or None
  outcome

vars == <<sites, elements, siteArg, elementArg, pc, site, outcome>>
inputs == <<sites, elements, siteArg, elementArg>>

NoOutcome == [kind |-> "none"]

TypeOK ==
  /\ sites \in SiteLists /\ elements \in ElementLists
  /\ siteArg \in Values /\ elementArg \in Values
  /\ pc \in {"site", "element", "done"}
  /\ site = None \/ \E r \in sites : site = r.id
  /\ outcome.kind \in {"none", "resolved", "site_only", "error"}
  /\ pc = "done" <=> outcome.kind # "none"

-----------------------------------------------------------------------------
(* The ends of the resolution                                                *)

\* handle_error names an error by whether it carries candidates
ErrorCode(candidates) == IF candidates # {} THEN "ambiguous_match" ELSE "not_found"

\* Mutant: the call goes on after an error or a result
FinishNot(o) == outcome' = o /\ UNCHANGED <<pc, site>>

Finish(o) == pc' = "done" /\ outcome' = o /\ UNCHANGED site

Fail(why, candidates) ==
  Finish([kind |-> "error", why |-> why, code |-> ErrorCode(candidates)])

Several(matches) == \E r, q \in matches : r # q

\* require_one on the matches of the site argument
RequireSite(matches) ==
  \/ /\ matches = {}
     /\ Fail("none", {})
  \/ /\ Several(matches)
     /\ Fail("several", matches)
  \/ \E r \in matches :
       /\ matches = {r}
       /\ site' = r.id
       /\ pc' = "element"
       /\ UNCHANGED outcome

\* The fetch of a list fails: find raises ResolutionError without candidates
FetchFails(arg) ==
  /\ arg # Absent /\ Strip(arg) # Blank
  /\ Fail("upstream", {})

ResolveSite ==
  /\ pc = "site"
  /\ \/ /\ siteArg = Absent
        /\ pc' = "element" /\ UNCHANGED <<site, outcome>>
     \/ /\ siteArg # Absent /\ Strip(siteArg) = Blank
        /\ Fail("blank", {})
     \/ /\ siteArg # Absent /\ Strip(siteArg) # Blank
        /\ RequireSite(Find(sites, siteArg))
     \/ FetchFails(siteArg)
  /\ UNCHANGED inputs

\* Mutant: the site does not scope the matches
ScopedAnywhere(matches) == matches

\* Matches that may be at the site: those known to be, or else those whose
\* site is not known
Scoped(matches) ==
  IF site = None THEN matches
  ELSE LET there == {m \in matches : m.site = site}
       IN IF there # {} THEN there ELSE {m \in matches : m.site = None}

\* Mutant: several matches, the first is taken
RequireFirst(matches) ==
  \/ /\ matches # {} /\ Scoped(matches) = {}
     /\ Fail("other site", {})
  \/ /\ matches = {}
     /\ Fail("none", {})
  \/ \E m \in Scoped(matches) : Finish([kind |-> "resolved", element |-> m, site |-> site])

\* The site an element implies when the caller gave none
SiteOf(m) == IF site = None THEN m.site ELSE site

RequireElement(matches) ==
  \/ /\ matches # {} /\ Scoped(matches) = {}
     /\ Fail("other site", {})
  \/ /\ matches = {}
     /\ Fail("none", {})
  \/ /\ Several(Scoped(matches))
     /\ Fail("several", Scoped(matches))
  \/ \E m \in Scoped(matches) :
       /\ Scoped(matches) = {m}
       /\ Finish([kind |-> "resolved", element |-> m, site |-> SiteOf(m)])

\* No element argument: the site alone
ResolveElement ==
  /\ pc = "element"
  /\ \/ /\ elementArg = Absent
        /\ Finish([kind |-> "site_only", site |-> site])
     \/ /\ elementArg # Absent /\ Strip(elementArg) = Blank
        /\ Fail("blank", {})
     \/ /\ elementArg # Absent /\ Strip(elementArg) # Blank
        /\ RequireElement(Find(elements, elementArg))
     \/ FetchFails(elementArg)
  /\ UNCHANGED inputs

Init ==
  /\ sites \in SiteLists /\ elements \in ElementLists
  /\ siteArg \in Values /\ elementArg \in Values
  /\ pc = "site" /\ site = None /\ outcome = NoOutcome

Next == ResolveSite \/ ResolveElement
Spec == Init /\ [][Next]_vars

-----------------------------------------------------------------------------
(* Properties *)

Resolved == outcome.kind = "resolved"

\* An element of another site is never returned for the site that was named.
NeverOtherSite ==
  Resolved /\ siteArg # Absent => outcome.element.site \in {None, site}

\* How exactly a record matches the element argument, and which records
\* compete with m: those that may be at the site, as surely as m is
Exactness(r, text) ==
  IF r \in ExactId(elements, text) THEN 3
  ELSE IF r \in ExactName(elements, text) THEN 2
  ELSE IF r \in Substring(elements, text) THEN 1 ELSE 0

Competes(r, m) == site = None \/ r.site \in {site, m.site}

\* Multiple hits are never auto-picked: nothing that competes with the element
\* returned matches as exactly as it does.
NeverAutoPicked ==
  Resolved =>
    \A r \in elements \ {outcome.element} :
      Competes(r, outcome.element) =>
        Exactness(r, Strip(elementArg)) < Exactness(outcome.element, Strip(elementArg))

\* The call had its lists, and an element to look for
Looked ==
  /\ pc = "done" /\ elementArg # Absent /\ Strip(elementArg) # Blank
  /\ siteArg = Absent \/ site # None
  /\ ~(outcome.kind = "error" /\ outcome.why = "upstream")

\* An element that the argument fits, at the site if one was named, is the one
\* returned, unless another element fits it more exactly, an ID before a name and a
\* name before a part of one; or it is refused, with an error that says so, because
\* another in scope fits as exactly.  The elements are matched before they are scoped,
\* so the one that fits more exactly may be at another site.
PassedOverForABetter ==
  \A e \in elements :
    LET exact(r) == Exactness(r, Strip(elementArg)) IN
    Looked /\ exact(e) > 0 /\ (site = None \/ e.site = site) =>
      \/ Resolved /\ outcome.element = e
      \/ \E r \in elements : exact(r) > exact(e)
      \/ /\ outcome.kind = "error" /\ outcome.why = "several"
         /\ \E r \in elements \ {e} : Competes(r, e) /\ exact(r) = exact(e)

\* Every error but rate_limited is permanent, not_found too: a list that could
\* not be fetched is not reported as one without a match.  It does not hold, so
\* no run checks it.
NotFoundIsPermanent ==
  outcome.kind = "error" /\ outcome.code = "not_found" => outcome.why # "upstream"

\* match_named applies the same precedence as the shared resolver.  It does
\* not hold for an ID with white space around it, so no run checks it.
SamePrecedence ==
  elementArg # Absent /\ Strip(elementArg) # Blank =>
    MatchNamed(elements, elementArg) = Find(elements, elementArg)
=============================================================================
