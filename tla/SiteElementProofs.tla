------------------------- MODULE SiteElementProofs -------------------------
(***************************************************************************)
(* Proofs about SiteElement: for any lists, arguments and texts, the       *)
(* element returned is at the site that was named, or at none that is      *)
(* known, it is the only one that matches so exactly, and one that matches *)
(* is passed over only for a better one, or refused as one of several.     *)
(***************************************************************************)
EXTENDS SiteElement, TLAPS

\* The inductive invariant: an element is returned because it was the only one
\* in scope among the best matches of the element argument.
IInv ==
  /\ TypeOK
  /\ siteArg # Absent /\ pc = "element" => site # None
  /\ Resolved =>
       /\ siteArg # Absent => site # None
       /\ Scoped(Find(elements, elementArg)) = {outcome.element}

\* An element in scope is a match, at the site or at none that is known.
LEMMA ScopedInScope ==
  ASSUME NEW ms, NEW m \in Scoped(ms)
  PROVE  m \in ms /\ (site # None => m.site \in {site, None})
BY DEF Scoped

\* A match in scope that competes with the one chosen would have been a second.
LEMMA CompetitorIsScoped ==
  ASSUME NEW ms, NEW m, Scoped(ms) = {m}, NEW r \in ms, Competes(r, m)
  PROVE  r = m
<1>1. CASE site = None
  BY <1>1 DEF Scoped
<1>2. CASE site # None
  <2> DEFINE there == {q \in ms : q.site = site}
  <2>1. m \in ms
    BY ScopedInScope
  <2>2. CASE there # {}
    <3>1. Scoped(ms) = there
      BY <1>2, <2>2 DEF Scoped
    <3>2. m.site = site
      BY <3>1
    <3>3. r.site = site
      BY <1>2, <3>2 DEF Competes
    <3> QED
      BY <3>1, <3>3
  <2>3. CASE there = {}
    <3>1. Scoped(ms) = {q \in ms : q.site = None}
      BY <1>2, <2>3 DEF Scoped
    <3>2. m.site = None
      BY <3>1
    <3>3. r.site = None
      BY <1>2, <2>3, <3>2 DEF Competes
    <3> QED
      BY <3>1, <3>3
  <2> QED
    BY <2>2, <2>3
<1> QED
  BY <1>1, <1>2

\* What does not belong to the matches of Find matches less exactly than those
\* that do.
LEMMA FindIsBest ==
  ASSUME NEW value, NEW m \in Find(elements, value), NEW r \in elements,
         r \notin Find(elements, value)
  PROVE  Exactness(r, Strip(value)) < Exactness(m, Strip(value))
<1> DEFINE text == Strip(value)
<1>1. CASE ExactId(elements, text) # {}
  <2>1. m \in ExactId(elements, text) /\ r \notin ExactId(elements, text)
    BY <1>1 DEF Find, Tiered
  <2> QED
    BY <2>1 DEF Exactness
<1>2. CASE ExactId(elements, text) = {} /\ ExactName(elements, text) # {}
  <2>1. m \in ExactName(elements, text) /\ r \notin ExactName(elements, text)
    BY <1>2 DEF Find, Tiered
  <2> QED
    BY <1>2, <2>1 DEF Exactness
<1>3. CASE ExactId(elements, text) = {} /\ ExactName(elements, text) = {}
  <2>1. m \in Substring(elements, text) /\ r \notin Substring(elements, text)
    BY <1>3 DEF Find, Tiered
  <2> QED
    BY <1>3, <2>1 DEF Exactness
<1> QED
  BY <1>1, <1>2, <1>3

\* IInv implies the properties the runs check.
LEMMA IInvConsequences ==
  ASSUME IInv
  PROVE  TypeOK /\ NeverOtherSite /\ NeverAutoPicked
<1>1. NeverOtherSite
  BY ScopedInScope DEF IInv, NeverOtherSite
<1>2. NeverAutoPicked
  <2> SUFFICES ASSUME Resolved, NEW r \in elements \ {outcome.element},
                      Competes(r, outcome.element)
               PROVE  Exactness(r, Strip(elementArg))
                        < Exactness(outcome.element, Strip(elementArg))
    BY DEF NeverAutoPicked
  <2>1. Scoped(Find(elements, elementArg)) = {outcome.element}
    BY DEF IInv
  <2>2. outcome.element \in Find(elements, elementArg)
    BY <2>1, ScopedInScope
  <2>3. r \notin Find(elements, elementArg)
    BY <2>1, CompetitorIsScoped
  <2> QED
    BY <2>2, <2>3, FindIsBest
<1> QED
  BY <1>1, <1>2 DEF IInv

\* A resolution begins with nothing resolved.
LEMMA InitIInv == Init => IInv
BY DEF Init, IInv, TypeOK, NoOutcome, Resolved

\* The site step: it ends the call, or goes on with the one site that matches.
LEMMA SiteIInv == IInv /\ ResolveSite => IInv'
<1> SUFFICES ASSUME IInv, ResolveSite PROVE IInv'
  OBVIOUS
<1>1. pc = "site" /\ UNCHANGED <<sites, elements, siteArg, elementArg>>
  BY DEF ResolveSite, inputs
<1>2. outcome.kind = "none"
  BY <1>1 DEF IInv, TypeOK
<1>3. ASSUME NEW why, NEW cs, Fail(why, cs) PROVE IInv'
  BY <1>1, <1>3 DEF Fail, Finish, IInv, TypeOK, Resolved
<1>4. CASE siteArg = Absent /\ pc' = "element" /\ UNCHANGED <<site, outcome>>
  BY <1>1, <1>2, <1>4 DEF IInv, TypeOK, Resolved
<1>5. ASSUME siteArg # Absent, NEW r \in Find(sites, siteArg),
             site' = r.id, pc' = "element", UNCHANGED outcome
      PROVE  IInv'
  <2>1. r \in sites
    BY <1>5 DEF Find, Tiered, ExactId, ExactName, Substring
  <2>2. site' # None
    BY <1>5, <2>1, SiteElementAssumption DEF IInv, TypeOK
  <2> QED
    BY <1>1, <1>2, <1>5, <2>1, <2>2 DEF IInv, TypeOK, Resolved
<1> QED
  BY <1>3, <1>4, <1>5 DEF ResolveSite, RequireSite, FetchFails

\* The element step ends the call, in an error or in the one element in scope.
LEMMA ElementIInv == IInv /\ ResolveElement => IInv'
<1> SUFFICES ASSUME IInv, ResolveElement PROVE IInv'
  OBVIOUS
<1>1. pc = "element" /\ UNCHANGED <<sites, elements, siteArg, elementArg>>
  BY DEF ResolveElement, inputs
<1>2. ASSUME NEW why, NEW cs, Fail(why, cs) PROVE IInv'
  BY <1>1, <1>2 DEF Fail, Finish, IInv, TypeOK, Resolved
<1>3. CASE Finish([kind |-> "site_only", site |-> site])
  BY <1>1, <1>3 DEF Finish, IInv, TypeOK, Resolved
<1>4. ASSUME NEW m, Scoped(Find(elements, elementArg)) = {m},
             Finish([kind |-> "resolved", element |-> m, site |-> SiteOf(m)])
      PROVE  IInv'
  <2>1. outcome'.kind = "resolved" /\ outcome'.element = m /\ pc' = "done" /\ site' = site
    BY <1>4 DEF Finish
  <2>2. Scoped(Find(elements, elementArg))' = {m}
    BY <1>1, <1>4, <2>1 DEF Scoped, Find, Tiered, ExactId, ExactName, Substring
  <2>3. TypeOK'
    BY <1>1, <2>1 DEF IInv, TypeOK
  <2> QED
    BY <1>1, <2>1, <2>2, <2>3 DEF IInv, Resolved
<1> QED
  BY <1>2, <1>3, <1>4 DEF ResolveElement, RequireElement, FetchFails

\* Every step keeps the invariant.
LEMMA NextIInv == IInv /\ [Next]_vars => IInv'
<1> SUFFICES ASSUME IInv, [Next]_vars PROVE IInv'
  OBVIOUS
<1>1. CASE UNCHANGED vars
  BY <1>1 DEF vars, IInv, TypeOK, Resolved, Scoped, Find, Tiered, ExactId, ExactName, Substring
<1> QED
  BY <1>1, SiteIInv, ElementIInv DEF Next

\* The invariant holds of every resolution.
LEMMA Invariance == Spec => []IInv
  BY InitIInv, NextIInv, PTL DEF Spec

\* Type correctness; the call ends exactly when it has an outcome.
THEOREM TypeCorrect == Spec => []TypeOK
<1>1. IInv => TypeOK
  BY IInvConsequences
<1> QED
  BY <1>1, Invariance, PTL

\* The element returned is at the site that was named, or at none that is known.
THEOREM OtherSitesExcluded == Spec => []NeverOtherSite
<1>1. IInv => NeverOtherSite
  BY IInvConsequences
<1> QED
  BY <1>1, Invariance, PTL

\* The element returned has no competitor that matches as exactly.
THEOREM OnlyBestMatch == Spec => []NeverAutoPicked
<1>1. IInv => NeverAutoPicked
  BY IInvConsequences
<1> QED
  BY <1>1, Invariance, PTL

-----------------------------------------------------------------------------
(* What fits best is returned, or refused as one of several *)

Upstream == outcome.kind = "error" /\ outcome.why = "upstream"
Ambiguous == outcome.kind = "error" /\ outcome.why = "several"
Chosen == Scoped(Find(elements, elementArg))

\* A call that looked for an element has the only match in scope, or there was none
\* or several, and it said so.
Decided ==
  /\ pc = "site" => site = None
  /\ Looked =>
       \/ Resolved /\ Chosen = {outcome.element}
       \/ Chosen = {}
       \/ Several(Chosen) /\ Ambiguous

\* Every step keeps it: a site that is not resolved ends the call before it looks.
LEMMA DecidedInductive == Decided /\ [Next]_vars => Decided'
<1> SUFFICES ASSUME Decided, [Next]_vars PROVE Decided'
  OBVIOUS
<1>1. CASE UNCHANGED vars
  BY <1>1 DEF vars, Decided, Looked, Ambiguous, Chosen, Several, Resolved, Scoped, Find, Tiered,
              ExactId, ExactName, Substring
<1>2. CASE ResolveSite
  <2>1. pc = "site" /\ site = None /\ siteArg' = siteArg
    BY <1>2 DEF ResolveSite, Decided, inputs
  <2>2. pc' = "element" \/ (pc' = "done" /\ site' = site /\ siteArg # Absent)
    BY <1>2 DEF ResolveSite, RequireSite, FetchFails, Fail, Finish
  <2> QED
    BY <2>1, <2>2 DEF Decided, Looked
<1>3. CASE ResolveElement
  <2>1. pc' = "done" /\ site' = site /\ UNCHANGED <<sites, elements, siteArg, elementArg>>
    BY <1>3 DEF ResolveElement, RequireElement, FetchFails, Fail, Finish, inputs
  <2>2. Chosen' = Chosen
    BY <2>1 DEF Chosen, Scoped, Find, Tiered, ExactId, ExactName, Substring
  <2> SUFFICES ASSUME elementArg # Absent, Strip(elementArg) # Blank, ~Upstream'
               PROVE  \/ (Resolved /\ Chosen = {outcome.element})'
                      \/ Chosen = {} \/ (Several(Chosen) /\ Ambiguous')
    BY <2>1, <2>2 DEF Decided, Looked, Several, Upstream
  <2>3. RequireElement(Find(elements, elementArg))
    <3>1. ~FetchFails(elementArg)
      BY DEF FetchFails, Fail, Finish, Upstream
    <3> QED
      BY <1>3, <3>1 DEF ResolveElement
  <2>4. Find(elements, elementArg) = {} => Chosen = {}
    BY DEF Chosen, Scoped
  <2>5. ASSUME NEW m \in Chosen, Chosen = {m},
               Finish([kind |-> "resolved", element |-> m, site |-> SiteOf(m)])
        PROVE  (Resolved /\ Chosen = {outcome.element})'
    BY <2>2, <2>5 DEF Finish, Resolved
  <2>6. Fail("several", Chosen) => Ambiguous'
    BY DEF Fail, Finish, Ambiguous
  <2>7. \/ Chosen = {} \/ Find(elements, elementArg) = {}
        \/ Several(Chosen) /\ Fail("several", Chosen)
        \/ \E m \in Chosen : /\ Chosen = {m}
                            /\ Finish([kind |-> "resolved", element |-> m, site |-> SiteOf(m)])
    BY <2>3 DEF RequireElement, Chosen
  <2> QED
    BY <2>4, <2>5, <2>6, <2>7
<1> QED
  BY <1>1, <1>2, <1>3 DEF Next

\* The matches of Find fit equally well, and are elements.
LEMMA FindIsEven ==
  ASSUME NEW value, NEW m \in Find(elements, value)
  PROVE  /\ m \in elements
         /\ \A r \in Find(elements, value) :
              Exactness(r, Strip(value)) = Exactness(m, Strip(value))
<1> DEFINE text == Strip(value)
<1>1. CASE ExactId(elements, text) # {}
  BY <1>1 DEF Find, Tiered, Exactness, ExactId
<1>2. CASE ExactId(elements, text) = {} /\ ExactName(elements, text) # {}
  <2>1. Find(elements, value) = ExactName(elements, text)
    BY <1>2 DEF Find, Tiered
  <2> QED
    BY <1>2, <2>1 DEF Exactness, ExactName
<1>3. CASE ExactId(elements, text) = {} /\ ExactName(elements, text) = {}
  <2>1. Find(elements, value) = Substring(elements, text)
    BY <1>3 DEF Find, Tiered
  <2> QED
    BY <1>3, <2>1 DEF Exactness, Substring
<1> QED
  BY <1>1, <1>2, <1>3

\* What fits is among the matches of Find, unless another fits better.
LEMMA BestIsFound ==
  ASSUME NEW value, NEW e \in elements, Exactness(e, Strip(value)) > 0,
         \A r \in elements : ~(Exactness(r, Strip(value)) > Exactness(e, Strip(value)))
  PROVE  e \in Find(elements, value)
<1> DEFINE text == Strip(value)
<1> SUFFICES ASSUME e \notin Find(elements, value) PROVE FALSE
  OBVIOUS
<1>1. \/ e \in ExactId(elements, text) \/ e \in ExactName(elements, text)
      \/ e \in Substring(elements, text)
  BY DEF Exactness
<1>2. PICK m : m \in Find(elements, value)
  BY <1>1 DEF Find, Tiered
<1>3. m \in elements
  BY <1>2, FindIsEven
<1>4. Exactness(e, text) < Exactness(m, text)
  BY <1>2, FindIsBest
<1>5. Exactness(e, text) \in Nat /\ Exactness(m, text) \in Nat
  BY DEF Exactness
<1> QED
  BY <1>3, <1>4, <1>5

\* An element that the argument fits at the site is passed over only for one that fits
\* more exactly, and refused only with one that fits as exactly (find and site_element).
THEOREM BestIsReturned == Spec => []PassedOverForABetter
<1>1. Init => Decided
  BY DEF Init, Decided, Looked
<1>2. Decided => PassedOverForABetter
  <2> DEFINE Exact(r) == Exactness(r, Strip(elementArg))
  <2> SUFFICES ASSUME Decided, NEW e \in elements, Looked, Exact(e) > 0,
                      site = None \/ e.site = site,
                      \A r \in elements : ~(Exact(r) > Exact(e))
               PROVE  \/ Resolved /\ outcome.element = e
                      \/ /\ Ambiguous
                         /\ \E r \in elements \ {e} : Competes(r, e) /\ Exact(r) = Exact(e)
    BY DEF PassedOverForABetter, Ambiguous
  <2>1. e \in Find(elements, elementArg)
    BY BestIsFound
  <2>2. e \in Chosen
    BY <2>1 DEF Chosen, Scoped
  <2>3. ASSUME NEW r \in Chosen
        PROVE  r \in Find(elements, elementArg) /\ Competes(r, e)
    BY <2>1, <2>3 DEF Chosen, Scoped, Competes
  <2>4. CASE Resolved /\ Chosen = {outcome.element}
    BY <2>2, <2>4
  <2>5. CASE Several(Chosen) /\ Ambiguous
    <3>1. PICK r \in Chosen : r # e
      BY <2>5 DEF Several
    <3>2. r \in elements /\ Exact(r) = Exact(e)
      BY <2>1, <2>3, <3>1, FindIsEven
    <3> QED
      BY <2>3, <2>5, <3>1, <3>2
  <2> QED
    BY <2>2, <2>4, <2>5 DEF Decided
<1> QED
  BY <1>1, <1>2, DecidedInductive, PTL DEF Spec
=============================================================================
