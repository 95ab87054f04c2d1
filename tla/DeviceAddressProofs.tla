------------------------ MODULE DeviceAddressProofs ------------------------
(***************************************************************************)
(* Proofs about DeviceAddress: for any interfaces and addresses, a tie in  *)
(* the preferred role never falls through, and as long as the controller   *)
(* answers every status request the resolution never guesses.              *)
(***************************************************************************)
EXTENDS DeviceAddress, TLAPS

\* The inductive invariant.  The candidates are exactly the eligible ones seen
\* in the current role; earlier roles had none and later ones were not asked;
\* without errors what was live when asked for is what was seen to be.
IInv ==
  /\ TypeOK
  /\ candidates = InRoleNow(Eligible(seen), role)
  /\ \A r \in 1..(role - 1) : InRoleNow(Eligible(seen), r) = {}
  /\ \A c \in seen : \E r \in 1..role : usedFor[c.interface] = Roles[r]
  /\ ~StatusFails => live = Eligible(seen)
  /\ outcome.kind = "address" => pc = "done" /\ candidates = {outcome.candidate}
  /\ outcome.kind = "no_live_address" =>
       /\ pc = "done" /\ outcome.candidates = seen
       /\ role = Len(Roles) /\ candidates = {}

\* Roles is a list of two different roles.
LEMMA TwoRoles == Len(Roles) = 2 /\ Roles[1] = "controller" /\ Roles[2] = "lan"
BY DEF Roles

\* IInv implies the properties the runs check.
LEMMA IInvConsequences ==
  ASSUME IInv
  PROVE  TypeOK /\ PreferredRoleWins /\ RejectionsExplained /\ OnlyOneAnswered
         /\ (~StatusFails => NeverGuesses)
<1>1. TypeOK /\ PreferredRoleWins /\ OnlyOneAnswered
  BY DEF IInv, PreferredRoleWins, OnlyOneAnswered
<1>2. ~StatusFails => NeverGuesses
  BY DEF IInv, NeverGuesses
<1>3. RejectionsExplained
  <2> SUFFICES ASSUME outcome.kind = "no_live_address", NEW c \in seen
               PROVE  c.state = "down" \/ c.address \in SharedSpace
    BY DEF RejectionsExplained, IInv
  <2>1. role = 2 /\ InRoleNow(Eligible(seen), 1) = {} /\ InRoleNow(Eligible(seen), 2) = {}
    BY TwoRoles DEF IInv
  <2>2. \E r \in {1, 2} : usedFor[c.interface] = Roles[r]
    BY <2>1 DEF IInv
  <2>3. c \notin Eligible(seen)
    BY <2>1, <2>2 DEF InRoleNow
  <2>4. c \in Candidate
    BY DEF IInv, TypeOK
  <2> QED
    BY <2>3, <2>4 DEF Eligible, Candidate
<1> QED
  BY <1>1, <1>2, <1>3

\* A resolution begins with nothing seen.
LEMMA InitIInv == Init => IInv
<1> SUFFICES ASSUME Init PROVE IInv
  OBVIOUS
<1>1. TypeOK
  BY TwoRoles DEF Init, TypeOK, NoOutcome
<1>2. seen = {} /\ candidates = {} /\ live = {} /\ role = 1 /\ outcome.kind = "none"
  BY DEF Init, NoOutcome
<1>3. Eligible(seen) = {} /\ InRoleNow({}, role) = {}
  BY <1>2 DEF Eligible, InRoleNow
<1> QED
  BY <1>1, <1>2, <1>3 DEF IInv

\* Asking about one more interface of the role.
LEMMA AskIInv == IInv /\ AskStatus => IInv'
<1> SUFFICES ASSUME IInv, AskStatus PROVE IInv'
  OBVIOUS
<1>1. PICK i \in InRole :
        /\ pending' = pending \ {i}
        /\ live' = live \cup Eligible(CandidatesOf(i))
        /\ \/ /\ seen' = seen \cup CandidatesOf(i)
              /\ candidates' = candidates \cup Eligible(CandidatesOf(i))
           \/ StatusFails /\ UNCHANGED <<seen, candidates>>
  BY DEF AskStatus
<1>2. pc = "asking" /\ UNCHANGED <<usedFor, addresses, state, flaps, pc, role, outcome>>
  BY DEF AskStatus, network
<1>3. i \in Interfaces /\ usedFor[i] = Roles[role]
  BY DEF InRole, IInv, TypeOK
<1>4. outcome.kind # "address" /\ outcome.kind # "no_live_address"
  BY <1>2 DEF IInv
<1>5. CASE StatusFails /\ UNCHANGED <<seen, candidates>>
  BY <1>1, <1>2, <1>4, <1>5 DEF IInv, TypeOK, InRoleNow, Eligible
<1>6. CASE /\ seen' = seen \cup CandidatesOf(i)
           /\ candidates' = candidates \cup Eligible(CandidatesOf(i))
  <2>1. \A c \in CandidatesOf(i) : c \in Candidate /\ c.interface = i
    BY <1>3 DEF CandidatesOf, Candidate, IInv, TypeOK
  <2>2. TypeOK'
    BY <1>1, <1>2, <1>6, <2>1 DEF IInv, TypeOK, Eligible
  <2>3. Eligible(seen') = Eligible(seen) \cup Eligible(CandidatesOf(i))
    BY <1>6 DEF Eligible
  <2>4. candidates' = InRoleNow(Eligible(seen), role)' 
    BY <1>2, <1>3, <1>6, <2>1, <2>3 DEF IInv, InRoleNow, Eligible
  <2>5. (\A r \in 1..(role - 1) : InRoleNow(Eligible(seen), r) = {})'
    <3> SUFFICES ASSUME NEW r \in 1..(role - 1), NEW c \in Eligible(seen'),
                        usedFor[c.interface] = Roles[r]
                 PROVE  FALSE
      BY <1>2 DEF InRoleNow, Eligible
    <3>1. role = 2 /\ r = 1
      BY TwoRoles DEF IInv, TypeOK
    <3>2. c \notin Eligible(CandidatesOf(i))
      BY <1>3, <2>1, <3>1, TwoRoles DEF Eligible
    <3> QED
      BY <2>3, <3>2 DEF IInv, InRoleNow
  <2>6. (\A c \in seen : \E r \in 1..role : usedFor[c.interface] = Roles[r])'
    BY <1>2, <1>3, <1>6, <2>1, TwoRoles DEF IInv, TypeOK
  <2>7. ~StatusFails => live' = Eligible(seen')
    BY <1>1, <2>3 DEF IInv
  <2> QED
    BY <1>2, <1>4, <2>2, <2>4, <2>5, <2>6, <2>7 DEF IInv, Eligible
<1> QED
  BY <1>1, <1>5, <1>6

\* Deciding about a role once it has been examined.
LEMMA DecideIInv == IInv /\ Decide => IInv'
<1> SUFFICES ASSUME IInv, Decide PROVE IInv'
  OBVIOUS
<1>1. UNCHANGED <<usedFor, addresses, state, flaps, pending, seen, live>>
  BY DEF Decide, network
<1>2. Eligible(seen)' = Eligible(seen)
  BY <1>1 DEF Eligible
<1>3. \A r : InRoleNow(Eligible(seen), r)' = InRoleNow(Eligible(seen), r)
  BY <1>1 DEF InRoleNow, Eligible
<1>4. CASE Choose
  <2>1. PICK c \in candidates : candidates = {c} /\ outcome' = [kind |-> "address", candidate |-> c]
    BY <1>4 DEF Choose
  <2>2. pc' = "done" /\ UNCHANGED <<role, candidates>>
    BY <1>4 DEF Choose
  <2> QED
    BY <1>1, <1>2, <1>3, <2>1, <2>2 DEF IInv, TypeOK, InRoleNow
<1>5. CASE Refuse
  BY <1>1, <1>2, <1>3, <1>5 DEF Refuse, IInv, TypeOK, InRoleNow
<1>6. CASE NoneFound
  BY <1>1, <1>2, <1>3, <1>6 DEF NoneFound, IInv, TypeOK, InRoleNow
<1>7. CASE NextRole
  <2>1. role = 1 /\ role' = 2 /\ candidates = {} /\ candidates' = {} /\ UNCHANGED <<pc, outcome>>
    BY <1>7, TwoRoles DEF NextRole, IInv, TypeOK
  <2>2. TypeOK'
    BY <1>1, <2>1, TwoRoles DEF IInv, TypeOK
  <2>3. \A c \in seen : usedFor[c.interface] = Roles[1]
    BY <2>1 DEF IInv
  <2>4. InRoleNow(Eligible(seen), 2) = {} /\ InRoleNow(Eligible(seen), 1) = {}
    BY <2>1, <2>3, TwoRoles DEF InRoleNow, Eligible, IInv
  <2>5. candidates' = InRoleNow(Eligible(seen), role)'
    BY <1>1, <2>1, <2>4 DEF InRoleNow, Eligible
  <2>6. (\A r \in 1..(role - 1) : InRoleNow(Eligible(seen), r) = {})'
    BY <1>3, <2>1, <2>4
  <2>7. pc = "asking"
    BY DEF Decide
  <2> QED
    BY <1>1, <1>2, <2>1, <2>2, <2>3, <2>5, <2>6, <2>7 DEF IInv
<1> QED
  BY <1>4, <1>5, <1>6, <1>7 DEF Decide

\* Every step keeps the invariant.
LEMMA NextIInv == IInv /\ [Next]_vars => IInv'
<1> SUFFICES ASSUME IInv, [Next]_vars PROVE IInv'
  OBVIOUS
<1>1. CASE ListInterfaces
  BY <1>1 DEF ListInterfaces, network, IInv, TypeOK, InRoleNow, Eligible
<1>2. CASE AskStatus
  BY <1>2, AskIInv
<1>3. CASE Decide
  BY <1>3, DecideIInv
<1>4. CASE Flap
  <2>1. state' \in [Interfaces -> {"up", "down"}]
    BY <1>4 DEF Flap, IInv, TypeOK
  <2> QED
    BY <1>4, <2>1 DEF Flap, IInv, TypeOK, InRoleNow, Eligible
<1>5. CASE UNCHANGED vars
  BY <1>5 DEF vars, IInv, TypeOK, InRoleNow, Eligible
<1> QED
  BY <1>1, <1>2, <1>3, <1>4, <1>5 DEF Next, Resolve

\* The invariant holds of every resolution.
LEMMA Invariance == Spec => []IInv
  BY InitIInv, NextIInv, PTL DEF Spec

\* Type correctness of the resolution.
THEOREM TypeCorrect == Spec => []TypeOK
<1>1. IInv => TypeOK
  BY IInvConsequences
<1> QED
  BY <1>1, Invariance, PTL

\* A tie or an answer in the preferred role is never passed over for the next
\* one, whatever the controller answers or fails to answer.
THEOREM TiesDoNotFallThrough == Spec => []PreferredRoleWins
<1>1. IInv => PreferredRoleWins
  BY IInvConsequences
<1> QED
  BY <1>1, Invariance, PTL

\* A failed resolution names every address the controller reported.
THEOREM FailureIsExplained == Spec => []RejectionsExplained
<1>1. IInv => RejectionsExplained
  BY IInvConsequences
<1> QED
  BY <1>1, Invariance, PTL

\* The address returned was the only live one the controller answered with in
\* its role: several are refused, also when they are learnt of one by one while
\* interfaces change state.
THEOREM OneAnswerChosen == Spec => []OnlyOneAnswered
<1>1. IInv => OnlyOneAnswered
  BY IInvConsequences
<1> QED
  BY <1>1, Invariance, PTL

\* Both together: no choice is a guess of the tool's own.
THEOREM AddressIsJustified == Spec => []AddressJustified
<1>1. IInv => AddressJustified
  BY IInvConsequences DEF AddressJustified
<1> QED
  BY <1>1, Invariance, PTL

\* If every status request is answered, the address returned was the only live
\* one of its role.
THEOREM AnsweredNeverGuesses == ASSUME ~StatusFails PROVE Spec => []NeverGuesses
<1>1. IInv => NeverGuesses
  BY IInvConsequences
<1> QED
  BY <1>1, Invariance, PTL
=============================================================================
