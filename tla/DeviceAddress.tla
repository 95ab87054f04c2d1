--------------------------- MODULE DeviceAddress ---------------------------
(***************************************************************************)
(* resolve_device_address (src/prisma_sdwan_mcp/cli/address.py): from an   *)
(* element to the one address run_commands opens a session to.  It lists   *)
(* the element's interfaces, then asks the controller for the status of    *)
(* those in a management role, one request each, role by role.  Between    *)
(* two requests interfaces go up and down, and any request may be answered *)
(* by an error, which is a value here and not an exception.                *)
(***************************************************************************)
EXTENDS Naturals, Sequences

CONSTANTS
  Interfaces,      \* the element's interfaces
  Addresses,       \* IPv4 addresses
  SharedSpace,     \* those _is_shared_address_space recognises
  Uses,            \* values of used_for
  StatusFails,     \* whether a status request may be answered by an error
  MaxFlaps         \* bound on the changes of state during one resolution

\* MANAGEMENT_ROLES, most preferred first
Roles == <<"controller", "lan">>

ASSUME AddressAssumption ==
  /\ SharedSpace \subseteq Addresses
  /\ {"controller", "lan"} \subseteq Uses
  /\ StatusFails \in BOOLEAN
  /\ MaxFlaps \in Nat

VARIABLES
  usedFor,     \* role of each interface, as listed
  addresses,   \* live addresses of each interface
  state,       \* operational_state of each interface, now
  flaps,       \* changes of state so far
  pc,          \* "listing", "asking" or "done"
  role,        \* index of the role being examined
  pending,     \* interfaces of the list not yet examined for that role
  seen,        \* candidates learnt of, in any state
  candidates,  \* those of the role that are up and routable
  outcome,     \* what the call returns or raises
  live         \* history: what was live when its status was asked for

vars == <<usedFor, addresses, state, flaps, pc, role, pending, seen, candidates,
          outcome, live>>

network == <<usedFor, addresses, state, flaps>>

Candidate == [interface : Interfaces, address : Addresses, state : {"up", "down"}]
NoOutcome == [kind |-> "none"]

TypeOK ==
  /\ usedFor \in [Interfaces -> Uses]
  /\ addresses \in [Interfaces -> SUBSET Addresses]
  /\ state \in [Interfaces -> {"up", "down"}]
  /\ pc \in {"listing", "asking", "done"}
  /\ role \in 1..Len(Roles)
  /\ pending \subseteq Interfaces
  /\ seen \subseteq Candidate /\ candidates \subseteq seen
  /\ outcome.kind \in {"none", "address", "ambiguous", "no_live_address"}

-----------------------------------------------------------------------------
(* The candidates an answered status request yields *)

CandidatesOf(i) == {[interface |-> i, address |-> a, state |-> state[i]] : a \in addresses[i]}
Eligible(found) == {c \in found : c.state = "up" /\ c.address \notin SharedSpace}

InRole == {i \in pending : usedFor[i] = Roles[role]}

-----------------------------------------------------------------------------
Init ==
  /\ usedFor \in [Interfaces -> Uses]
  /\ addresses \in [Interfaces -> SUBSET Addresses]
  /\ state \in [Interfaces -> {"up", "down"}]
  /\ flaps = 0
  /\ pc = "listing" /\ role = 1 /\ pending = {}
  /\ seen = {} /\ candidates = {} /\ live = {}
  /\ outcome = NoOutcome

\* sites_devices.interfaces; an error is read as an empty list by records()
ListInterfaces ==
  /\ pc = "listing"
  /\ pc' = "asking"
  /\ pending' \in {Interfaces, {}}
  /\ UNCHANGED <<network, role, seen, candidates, outcome, live>>

\* Mutant: what is eligible is not added to seen
AskStatusUnseen ==
  /\ pc = "asking"
  /\ \E i \in InRole :
       /\ pending' = pending \ {i}
       /\ live' = live \cup Eligible(CandidatesOf(i))
       /\ seen' = seen \cup (CandidatesOf(i) \ Eligible(CandidatesOf(i)))
       /\ candidates' = candidates \cup Eligible(CandidatesOf(i))
  /\ UNCHANGED <<network, pc, role, outcome>>

\* _live_addresses: an answer, or an error taken for an interface without
\* addresses
AskStatus ==
  /\ pc = "asking"
  /\ \E i \in InRole :
       /\ pending' = pending \ {i}
       /\ live' = live \cup Eligible(CandidatesOf(i))
       /\ \/ /\ seen' = seen \cup CandidatesOf(i)
             /\ candidates' = candidates \cup Eligible(CandidatesOf(i))
          \/ /\ StatusFails
             /\ UNCHANGED <<seen, candidates>>
  /\ UNCHANGED <<network, pc, role, outcome>>

\* The role has been examined: one candidate is the answer, several are an
\* ambiguity, none leaves it to the next role
Choose ==
  /\ \E c \in candidates :
       /\ candidates = {c}
       /\ outcome' = [kind |-> "address", candidate |-> c]
  /\ pc' = "done"
  /\ UNCHANGED <<role, candidates>>

Refuse ==
  /\ \E c, d \in candidates : c # d
  /\ outcome' = [kind |-> "ambiguous", candidates |-> candidates]
  /\ pc' = "done"
  /\ UNCHANGED <<role, candidates>>

\* Mutant: several candidates leave it to the next role too
NextRoleOnTie ==
  /\ \A c \in candidates : candidates # {c}
  /\ role < Len(Roles)
  /\ role' = role + 1
  /\ candidates' = {}
  /\ UNCHANGED <<pc, outcome>>

NextRole ==
  /\ candidates = {}
  /\ role < Len(Roles)
  /\ role' = role + 1
  /\ candidates' = {}
  /\ UNCHANGED <<pc, outcome>>

NoneFound ==
  /\ candidates = {}
  /\ role = Len(Roles)
  /\ outcome' = [kind |-> "no_live_address", candidates |-> seen]
  /\ pc' = "done"
  /\ UNCHANGED <<role, candidates>>

Decide ==
  /\ pc = "asking"
  /\ InRole = {}
  /\ Choose \/ Refuse \/ NextRole \/ NoneFound
  /\ UNCHANGED <<network, pending, seen, live>>

\* Between two requests an interface changes state
Flap ==
  /\ pc = "asking"
  /\ flaps < MaxFlaps
  /\ \E i \in Interfaces :
       state' = [state EXCEPT ![i] = IF @ = "up" THEN "down" ELSE "up"]
  /\ flaps' = flaps + 1
  /\ UNCHANGED <<usedFor, addresses, pc, role, pending, seen, candidates, outcome, live>>

Resolve == ListInterfaces \/ AskStatus \/ Decide
Next == Resolve \/ Flap
Spec == Init /\ [][Next]_vars

-----------------------------------------------------------------------------
(* Properties *)

InRoleNow(cs, r) == {c \in cs : usedFor[c.interface] = Roles[r]}

\* The address returned was the only live, routable one among those the
\* controller answered for in its role: the choice is never one of several.
OnlyOneAnswered ==
  outcome.kind = "address" => InRoleNow(Eligible(seen), role) = {outcome.candidate}

\* Never guesses: the address returned was the only live, routable one among
\* those its role had when their status was asked for.  No run checks it, for it
\* does not hold when a status request is answered by an error, which hides the
\* interface.
NeverGuesses ==
  outcome.kind = "address" => InRoleNow(live, role) = {outcome.candidate}

\* A tie in the preferred role does not fall through: when an address is
\* returned, no preferred role had answered with a live address.
PreferredRoleWins ==
  outcome.kind = "address" =>
    \A r \in 1..(role - 1) : InRoleNow(Eligible(seen), r) = {}

\* Never a guess of its own: the choice is justified by all the controller
\* answered, in the role it was made in and in those before it, although the
\* answers came one by one while interfaces changed state.
AddressJustified == OnlyOneAnswered /\ PreferredRoleWins

\* Giving up explains itself: every address the controller reported is among
\* the rejected candidates, with the state that rejected it.
RejectionsExplained ==
  outcome.kind = "no_live_address" =>
    /\ outcome.candidates = seen
    /\ \A c \in seen : c.state = "down" \/ c.address \in SharedSpace

=============================================================================
