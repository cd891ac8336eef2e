--------------------------- MODULE CallHubProofs ---------------------------
(***************************************************************************)
(* Proofs about CallHub for any set of phones, any timers and any number   *)
(* of calls: its types, and as long as phones use transfer or conference   *)
(* but not both, that every phone's focus is a live call it is a party of, *)
(* that the call table and the media hub agree with the states of the      *)
(* calls and that an ended call stays ended.  (With both features the focus *)
(* can be lost, see BusyMeansInCall.)  That phones are reachable and keep  *)
(* their conversation is proved for plain calls: dial, answer, hold,       *)
(* resume, hang up, auto-answer and the IVR.                               *)
(***************************************************************************)
EXTENDS CallHub, WellFoundedInduction, TLAPS

-----------------------------------------------------------------------------
(* Operators on calls *)

(* A non-empty set of naturals has a least element.                         *)
LEMMA LeastNatural ==
  ASSUME NEW S \in SUBSET Nat, S # {}
  PROVE  \E n \in S : \A m \in S : n <= m
<1> DEFINE Less == {ss \in Nat \X Nat : ss[1] < ss[2]}
<1>1. IsWellFoundedOn(Less, Nat)
  BY NatLessThanWellFounded DEF OpToRel
<1>2. PICK n \in S : \A m \in S : ~ (<<m, n>> \in Less)
  <2> HIDE DEF Less
  <2> QED BY <1>1, WFMin
<1>3. \A m \in S : ~ (m < n)
  BY <1>2
<1> QED
  BY <1>3

(* _pick_focus_call returns one of the calls it is given: the sort by state *)
(* and then by newest call_ref always has a first element.                  *)
LEMMA FocusIsOneOf ==
  ASSUME TypeOK, NEW C \in SUBSET Refs, C # {}
  PROVE  Focus(C) \in C
<1> DEFINE rank(r) == Rank[calls[r].state]
<1>0. \A r \in Refs : r \in Nat /\ r <= MaxCalls /\ rank(r) \in Nat
  <2>1. \A r \in Refs : calls[r].state \in States
    BY DEF TypeOK, Call
  <2>2. \A r \in Refs : r \in Nat /\ r <= MaxCalls
    BY HubAssumption DEF Refs
  <2>3. \A st \in States : Rank[st] \in Nat
    BY DEF States, Rank
  <2> QED
    BY <2>1, <2>2, <2>3
<1> HIDE DEF rank
<1>1. PICK best \in {rank(r) : r \in C} : \A n \in {rank(r) : r \in C} : best <= n
  <2>1. {rank(r) : r \in C} \in SUBSET Nat /\ {rank(r) : r \in C} # {}
    BY <1>0
  <2> QED
    BY <2>1, LeastNatural
<1> DEFINE B == {r \in C : rank(r) = best}
<1>2. PICK back \in {MaxCalls - r : r \in B} :
        \A n \in {MaxCalls - r : r \in B} : back <= n
  <2>1. {MaxCalls - r : r \in B} \in SUBSET Nat /\ {MaxCalls - r : r \in B} # {}
    BY <1>0, <1>1, HubAssumption
  <2> QED
    BY <2>1, LeastNatural
<1>3. PICK r \in B : back = MaxCalls - r
  BY <1>2
<1>4. \A q \in C : rank(r) < rank(q) \/ (rank(r) = rank(q) /\ r >= q)
  <2> TAKE q \in C
  <2>1. rank(r) = best /\ best <= rank(q) /\ rank(r) \in Nat /\ rank(q) \in Nat
    BY <1>0, <1>1
  <2>2. CASE rank(q) = best
    <3>1. q \in B /\ MaxCalls - r <= MaxCalls - q
      BY <1>2, <1>3, <2>2
    <3> QED
      BY <1>0, <2>1, <2>2, <3>1, HubAssumption
  <2>3. CASE rank(q) # best
    BY <2>1, <2>3
  <2> QED
    BY <2>2, <2>3
<1>5. \A q \in C : Before(r, q)
  BY <1>4 DEF Before, rank
<1> QED
  BY <1>5 DEF Focus

CallsType == [Refs -> Call]
ActiveType == [Phones -> Refs \cup {NoCall}]

LEMMA SetTyped ==
  ASSUME NEW c \in Call
  PROVE  /\ \A st \in States : [c EXCEPT !.state = st] \in Call
         /\ [c EXCEPT !.state = "ended", !.ports = {}] \in Call
BY DEF Call, States

(* Holding and resuming change a SimCall into a SimCall.                    *)
LEMMA HoldTyped ==
  ASSUME NEW c \in Call, NEW p \in Phones
  PROVE  OnHold(c, p) \in Call /\ Resumed(c) \in Call
BY DEF OnHold, Resumed, Call, States

LEMMA NewCallTyped ==
  ASSUME NEW p \in Phones, NEW st \in States
  PROVE  NewCallBy(p, st) \in Call
BY DEF NewCallBy, Call, Dialed

LEMMA AddDigitTyped ==
  ASSUME NEW str \in Dialed, NEW d \in Digits
  PROVE  AddDigit(str, d) \in Dialed
BY DEF AddDigit, Dialed, Digits

(* _try_complete_dial turns well-formed state into well-formed state.       *)
LEMMA DialTyped ==
  ASSUME TypeOK, NEW cs \in CallsType, NEW r \in Refs, NEW c \in Call,
         NEW act \in ActiveType, TryCompleteDial(cs, r, c, act)
  PROVE  /\ calls' \in CallsType
         /\ active' \in ActiveType
         /\ ringTimers' \subseteq AutoAnswer
         /\ ivrTimers' \subseteq Refs
<1>1. Dialled(c, act) \in Call
  <2>1. CASE c.dialed \in IvrDns
    <3>1. Dialled(c, act) = [c EXCEPT !.ivr = TRUE, !.state = "ringing"]
      BY <2>1, HubAssumption DEF Dialled, Rings
    <3> QED
      BY <3>1 DEF Call, States
  <2>2. CASE c.dialed \notin IvrDns /\ Rings(c, act)
    <3>1. Dialled(c, act) = [c EXCEPT !.callee = c.dialed, !.state = "ringing"]
      BY <2>2 DEF Dialled
    <3>2. c.dialed \in Phones
      BY <2>2 DEF Rings
    <3> QED
      BY <3>1, <3>2 DEF Call, States
  <2>3. CASE c.dialed \notin IvrDns /\ ~Rings(c, act)
    BY <2>3 DEF Dialled
  <2> QED
    BY <2>1, <2>2, <2>3
<1>2. calls' \in CallsType
  BY <1>1 DEF TryCompleteDial, CallsType
<1>3. active' \in ActiveType
  BY DEF TryCompleteDial, ActiveType, Rings
<1>4. ringTimers' \subseteq AutoAnswer
  BY DEF TryCompleteDial, RingTimer, TypeOK
<1>5. ivrTimers' \subseteq Refs
  BY DEF TryCompleteDial, TypeOK
<1> QED
  BY <1>2, <1>3, <1>4, <1>5

(* end_call and the cancelled consult leg give each phone one of its calls, *)
(* or none.                                                                 *)
LEMMA EndCallTyped ==
  ASSUME TypeOK, NEW r \in Refs, EndCall(r)
  PROVE  TypeOK'
<1>1. calls' \in CallsType
  <2>1. calls' = [calls EXCEPT ![r] = [calls[r] EXCEPT !.state = "ended"]]
    BY DEF EndCall
  <2>2. [calls[r] EXCEPT !.state = "ended"] \in Call
    BY SetTyped DEF TypeOK, States
  <2> QED
    BY <2>1, <2>2 DEF TypeOK, CallsType
<1>2. \A p \in Phones : OtherCalls(p, r) # {} => Focus(OtherCalls(p, r)) \in Refs
  <2> TAKE p \in Phones
  <2>1. OtherCalls(p, r) \in SUBSET Refs
    BY DEF OtherCalls, CallsOf, TypeOK
  <2> QED
    BY <2>1, FocusIsOneOf
<1>3. active' \in ActiveType
  BY <1>2 DEF EndCall, TypeOK, ActiveType
<1> QED
  BY <1>1, <1>3 DEF EndCall, StopMedia, TypeOK, CallsType, ActiveType

LEMMA LegTyped ==
  ASSUME TypeOK, NEW p \in Refs, NEW K \in SUBSET Refs
  PROVE  LegCalls(K) \in CallsType /\ LegActive(p, K) \in ActiveType
<1>1. LegCalls(K) \in CallsType
  <2>1. \A r \in Refs : [calls[r] EXCEPT !.state = "ended", !.ports = {}] \in Call
    BY SetTyped DEF TypeOK
  <2>2. \A r \in Refs : calls[r] \in Call
    BY DEF TypeOK
  <2> DEFINE over(r) == [calls[r] EXCEPT !.state = "ended", !.ports = {}]
  <2> HIDE DEF over
  <2>3. [r \in Refs |-> IF r \in K THEN over(r) ELSE calls[r]] \in [Refs -> Call]
    BY <2>1, <2>2 DEF over
  <2> QED
    BY <2>3 DEF LegCalls, CallsType, over
<1>2. LegActive(p, K) \in ActiveType
  BY DEF TypeOK, LegActive, ActiveType
<1> QED
  BY <1>1, <1>2

LEMMA FeatureOffTyped ==
  ASSUME TypeOK, NEW m \in Modes, NEW p \in Refs, NEW K
  PROVE  FeatureOff(m, p, K) \in [Modes -> [Refs -> Feature]]
<1>1. \A f \in Feature : Forgotten(f, K) \in Feature
  BY DEF Feature, Forgotten
<1>2. \A f \in Feature : SwitchedOff(f) \in Feature
  BY DEF Feature, Dialed, SwitchedOff
<1>3. \A n \in Modes :
        [feature[n] EXCEPT ![p] =
           IF n = m THEN SwitchedOff(Forgotten(@, K)) ELSE Forgotten(@, K)]
          \in [Refs -> Feature]
  BY <1>1, <1>2 DEF TypeOK
<1> QED
  BY <1>3 DEF FeatureOff

-----------------------------------------------------------------------------
(* Type correctness *)

(* Completing a consultation writes well-formed records.                    *)
LEMMA CompleteTyped ==
  ASSUME TypeOK, NEW m \in Modes, NEW p \in Refs, NEW k \in Refs, NEW s \in Phones,
         Complete(m, p, k, s)
  PROVE  TypeOK'
<1>1. CASE m = "transfer"
  <2> DEFINE remaining == Other(calls[p], s)
             target == calls[k].callee
             over == [calls[k] EXCEPT !.state = "ended", !.ports = {}]
             joined(c) == [c EXCEPT !.caller = remaining, !.callee = target,
                                    !.state = "connected", !.dialed = target,
                                    !.ivr = FALSE, !.menu = FALSE,
                                    !.heldBy = NoPhone, !.ports = {}]
  <2>1. CompleteTransfer(p, k, s)
    BY <1>1 DEF Complete
  <2>2. remaining \in Phones /\ target \in Phones
    BY <2>1 DEF CompleteTransfer, TypeOK, Call, Other
  <2>3. over \in Call
    BY SetTyped DEF TypeOK
  <2>4. \A c \in Call : joined(c) \in Call
    <3> HIDE DEF remaining, target
    <3> QED
      BY <2>2 DEF Call, States, Dialed
  <2>5. calls' \in [Refs -> Call]
    <3>1. calls' = [calls EXCEPT ![k] = over, ![p] = joined(@)]
      BY <2>1 DEF CompleteTransfer
    <3> HIDE DEF over, joined
    <3>2. [calls EXCEPT ![k] = over] \in [Refs -> Call]
      BY <2>3 DEF TypeOK
    <3> QED
      BY <2>4, <3>1, <3>2
  <2>6. feature' \in [Modes -> [Refs -> Feature]]
    BY <2>1, FeatureOffTyped DEF CompleteTransfer, Modes
  <2> QED
    BY <2>1, <2>2, <2>5, <2>6 DEF CompleteTransfer, TypeOK, StopMedia
<1>2. CASE m # "transfer"
  <2> DEFINE held == Other(calls[p], s)
             newcomer == calls[k].callee
             over == [calls[k] EXCEPT !.state = "ended", !.ports = {}]
             joined(c) == [c EXCEPT !.conf = TRUE, !.third = newcomer,
                                    !.state = "connected", !.heldBy = NoPhone,
                                    !.ports = {}]
  <2>1. CompleteConference(p, k, s)
    BY <1>2 DEF Complete
  <2>2. held \in Phones /\ newcomer \in Phones
    BY <2>1 DEF CompleteConference, TypeOK, Call, Other
  <2>3. over \in Call
    BY SetTyped DEF TypeOK
  <2>4. \A c \in Call : joined(c) \in Call
    <3> HIDE DEF newcomer
    <3> QED
      BY <2>2 DEF Call, States
  <2>5. calls' \in [Refs -> Call]
    <3>1. calls' = [calls EXCEPT ![k] = over, ![p] = joined(@)]
      BY <2>1 DEF CompleteConference
    <3> HIDE DEF over, joined
    <3>2. [calls EXCEPT ![k] = over] \in [Refs -> Call]
      BY <2>3 DEF TypeOK
    <3> QED
      BY <2>4, <3>1, <3>2
  <2>6. feature' \in [Modes -> [Refs -> Feature]]
    BY <2>1, FeatureOffTyped DEF CompleteConference, Modes
  <2> QED
    BY <2>1, <2>2, <2>5, <2>6 DEF CompleteConference, TypeOK, StopMedia
<1> QED
  BY <1>1, <1>2

(* A blind transfer makes the remaining party the caller of the same record. *)
LEMMA BlindTyped ==
  ASSUME TypeOK, NEW p \in Refs, BlindTransfer(p)
  PROVE  TypeOK'
<1> DEFINE f == feature["transfer"][p]
           remaining == Other(calls[p], f.by)
           K == ConsultOf("transfer", p)
           act == [LegActive(p, K) EXCEPT ![f.by] = NoCall, ![remaining] = p]
           c == [calls[p] EXCEPT
                   !.caller = remaining, !.callee = NoPhone,
                   !.dialed = f.digits, !.state = "dialing",
                   !.ivr = FALSE, !.menu = FALSE, !.ports = {}]
<1>1. /\ remaining # NoPhone
      /\ TryCompleteDial(LegCalls(K), p, c, act)
      /\ live' = live \ K
      /\ media' = StopMedia(K \cup {p})
      /\ feature' = FeatureOff("transfer", p, K)
      /\ nextRef' = nextRef
  BY DEF BlindTransfer
<1>2. f \in Feature /\ calls[p] \in Call
  BY DEF TypeOK, Modes
<1>3. remaining \in Phones /\ f.digits \in Dialed
  BY <1>1, <1>2 DEF Call, Feature, Other
<1>4. c \in Call
  <2> HIDE DEF f, remaining
  <2> QED
    BY <1>2, <1>3 DEF Call, States
<1>5. K \in SUBSET Refs
  BY DEF ConsultOf, TypeOK
<1>6. act \in ActiveType /\ LegCalls(K) \in CallsType
  <2> HIDE DEF f, remaining, K
  <2> QED
    BY <1>3, <1>5, LegTyped DEF ActiveType
<1>7. /\ calls' \in CallsType /\ active' \in ActiveType
      /\ ringTimers' \subseteq AutoAnswer /\ ivrTimers' \subseteq Refs
  <2> HIDE DEF f, K, act, c
  <2> QED
    BY <1>1, <1>4, <1>6, DialTyped
<1>8. feature' \in [Modes -> [Refs -> Feature]]
  BY <1>1, FeatureOffTyped DEF Modes
<1> QED
  BY <1>1, <1>7, <1>8 DEF TypeOK, CallsType, ActiveType, StopMedia

(* Giving a feature up keeps the records well-formed.                       *)
LEMMA GiveUpTyped ==
  ASSUME TypeOK, NEW m \in Modes, NEW p \in Refs, GiveUp(m, p)
  PROVE  TypeOK'
<1>1. CASE CancelTransfer(p)
  BY <1>1, FeatureOffTyped DEF CancelTransfer, TypeOK, Modes
<1>2. CASE BlindTransfer(p)
  BY <1>2, BlindTyped
<1>3. CASE AbortConference(p)
  <2> DEFINE f == feature["conference"][p]
             holder == IF calls[p].heldBy # NoPhone THEN calls[p].heldBy ELSE f.by
             K == ConsultOf("conference", p)
             cs == LegCalls(K)
             act == LegActive(p, K)
             r == act[holder]
  <2>1. /\ \/ calls' = cs
           \/ r # NoCall /\ calls' = [cs EXCEPT ![r] = Resumed(@)]
        /\ live' = live \ K
        /\ active' = act
        /\ media' = StopMedia(K)
        /\ feature' = FeatureOff("conference", p, K)
        /\ UNCHANGED <<ringTimers, ivrTimers, nextRef>>
    BY <1>3 DEF AbortConference
  <2>2. K \in SUBSET Refs
    BY DEF ConsultOf, TypeOK
  <2>3. cs \in [Refs -> Call] /\ act \in [Phones -> Refs \cup {NoCall}]
    BY <2>2, LegTyped DEF CallsType, ActiveType
  <2>4. \A q \in Refs : Resumed(cs[q]) \in Call
    <3> HIDE DEF cs
    <3> QED
      BY <2>3 DEF Resumed, Call, States
  <2>5. calls' \in [Refs -> Call]
    <3> HIDE DEF cs, r
    <3> QED
      BY <2>1, <2>3, <2>4
  <2>6. feature' \in [Modes -> [Refs -> Feature]]
    BY <2>1, FeatureOffTyped DEF Modes
  <2> QED
    <3> HIDE DEF cs, act, K, r
    <3> QED
      BY <2>1, <2>3, <2>5, <2>6 DEF TypeOK, StopMedia
<1> QED
  BY <1>1, <1>2, <1>3 DEF GiveUp

LEMMA FinishTyped ==
  ASSUME TypeOK, NEW m \in Modes, NEW p \in Refs, NEW s \in Phones, Finish(m, p, s)
  PROVE  TypeOK'
<1>1. CASE IsConnected(feature[m][p].consult)
  BY <1>1, CompleteTyped DEF Finish, IsConnected, TypeOK
<1>2. CASE ~ IsConnected(feature[m][p].consult)
  BY <1>2, GiveUpTyped DEF Finish
<1> QED
  BY <1>1, <1>2

(* Starting a feature writes well-formed bookkeeping.                       *)
LEMMA BeginTyped ==
  ASSUME TypeOK, NEW m \in Modes, NEW r \in Refs, NEW p \in Phones,
         BeginFeature(m, r, p)
  PROVE  TypeOK'
<1> DEFINE begun(f) == [f EXCEPT !.on = TRUE, !.by = p, !.digits = NoDigits]
<1>1. \A f \in Feature : begun(f) \in Feature
  BY DEF Feature, Dialed
<1>2. feature' = [feature EXCEPT ![m][r] = begun(@)]
  BY DEF BeginFeature
<1> HIDE DEF begun
<1>3. feature' \in [Modes -> [Refs -> Feature]]
  BY <1>1, <1>2 DEF TypeOK
<1> QED
  BY <1>3 DEF BeginFeature, TypeOK

LEMMA FeatureKeyTyped ==
  ASSUME TypeOK, NEW m \in Modes, NEW p \in Phones, NEW r \in Refs,
         FeatureKey(m, p, r)
  PROVE  TypeOK'
<1> DEFINE prim == feature[m][r].primary
<1>1. \/ prim \in live /\ Complete(m, prim, r, p)
      \/ prim \in live /\ GiveUp(m, prim)
      \/ Finish(m, r, p)
      \/ BeginFeature(m, r, p)
  BY DEF FeatureKey
<1>2. prim \in live => prim \in Refs
  BY DEF TypeOK
<1> HIDE DEF prim
<1> QED
  BY <1>1, <1>2, CompleteTyped, GiveUpTyped, FinishTyped, BeginTyped

LEMMA FeatureDigitTyped ==
  ASSUME TypeOK, NEW p \in Phones, NEW d \in Digits, FeatureDigit(p, d)
  PROVE  TypeOK'
<1> DEFINE r == active[p]
           m == FeatureMode(r)
           typed(g) == [g EXCEPT !.digits = AddDigit(@, d)]
<1>1. r \in Refs /\ m \in Modes
  BY DEF FeatureDigit, Entering, TypeOK, FeatureMode, Modes
<1>2. \A g \in Feature : typed(g) \in Feature
  BY AddDigitTyped DEF Feature
<1>3. feature' = [feature EXCEPT ![m][r] = typed(feature[m][r])]
  BY DEF FeatureDigit
<1> HIDE DEF typed, r, m
<1>4. feature' \in [Modes -> [Refs -> Feature]]
  BY <1>1, <1>2, <1>3 DEF TypeOK
<1> QED
  BY <1>4 DEF FeatureDigit, TypeOK

(* The consult leg is a well-formed call, and so is the primary it holds.   *)
LEMMA ConsultDialTyped ==
  ASSUME TypeOK, NEW p \in Phones, NEW d \in Digits, ConsultDial(p, d)
  PROVE  TypeOK'
<1> DEFINE r == active[p]
           m == FeatureMode(r)
           f == [feature[m][r] EXCEPT !.digits = AddDigit(@, d)]
           leg == [NewCallBy(p, "ringing") EXCEPT !.callee = f.digits,
                                                  !.dialed = f.digits]
           parked(c) == IF c.state = "held" THEN c ELSE OnHold(c, p)
           based(g) == [g EXCEPT !.primary = r]
           linked == [f EXCEPT !.consult = nextRef]
<1>1. r \in Refs /\ m \in Modes /\ nextRef \in Refs
  BY DEF ConsultDial, Entering, TypeOK, FeatureMode, Modes
<1>2. f \in Feature
  <2>1. \A g \in Feature : [g EXCEPT !.digits = AddDigit(@, d)] \in Feature
    BY AddDigitTyped DEF Feature
  <2> QED
    BY <1>1, <2>1 DEF TypeOK
<1>3. /\ f.digits \in Phones
      /\ calls' = [calls EXCEPT ![r] = parked(@), ![nextRef] = leg]
      /\ live' = live \cup {nextRef}
      /\ active' = [active EXCEPT ![p] = nextRef, ![f.digits] = nextRef]
      /\ feature' = [feature EXCEPT ![m][r] = linked, ![m][nextRef].primary = r]
      /\ media' = StopMedia({r})
      /\ ringTimers' = ringTimers \cup RingTimer(f.digits)
      /\ nextRef' = nextRef + 1
      /\ ivrTimers' = ivrTimers
  BY DEF ConsultDial, Consultable
<1>4. leg \in Call
  <2> HIDE DEF f
  <2>1. \A c \in Call : [c EXCEPT !.callee = f.digits, !.dialed = f.digits] \in Call
    BY <1>3 DEF Call, Dialed
  <2> QED
    BY <2>1, NewCallTyped DEF States
<1>5. \A c \in Call : parked(c) \in Call
  BY HoldTyped
<1>6. linked \in Feature /\ \A g \in Feature : based(g) \in Feature
  <2> HIDE DEF f, r
  <2> QED
    BY <1>1, <1>2 DEF Feature
<1> DEFINE g == [feature EXCEPT ![m][r] = linked]
           gm == g[m]
<1>7. g \in [Modes -> [Refs -> Feature]]
  <2> HIDE DEF r, m, linked
  <2> QED
    BY <1>1, <1>6 DEF TypeOK
<1>8. feature' = [g EXCEPT ![m] = [gm EXCEPT ![nextRef] = based(gm[nextRef])]]
  BY <1>3
<1> HIDE DEF f, leg, parked, based, linked, r, m, g
<1>9. calls' \in [Refs -> Call]
  BY <1>1, <1>3, <1>4, <1>5 DEF TypeOK
<1>10. feature' \in [Modes -> [Refs -> Feature]]
  BY <1>1, <1>6, <1>7, <1>8
<1>11. nextRef' \in 1..(MaxCalls + 1)
  BY <1>1, <1>3, HubAssumption DEF Refs
<1> QED
  BY <1>1, <1>3, <1>9, <1>10, <1>11 DEF TypeOK, StopMedia, RingTimer

(* Answering, by hand or by timer, connects a call the phone has.           *)
LEMMA AnsweredTyped ==
  ASSUME TypeOK, NEW p \in Phones
  PROVE  Answered(p) \in [Refs -> Call]
<1>1. \A r \in Refs : [calls[r] EXCEPT !.state = "connected"] \in Call
  BY SetTyped DEF TypeOK, States
<1> DEFINE up(c) == [c EXCEPT !.state = "connected"]
<1>2. Answered(p) = IF InState(p, "ringing") /\ p = calls[active[p]].callee
                    THEN [calls EXCEPT ![active[p]] = up(@)] ELSE calls
  BY DEF Answered
<1>3. \A r \in Refs : up(calls[r]) \in Call
  BY <1>1
<1> HIDE DEF up
<1> QED
  BY <1>2, <1>3 DEF TypeOK, InState

(* Dialing a digit of a plain call.                                         *)
LEMMA DialDigitTyped ==
  ASSUME TypeOK, NEW p \in Phones, NEW d \in Digits,
         DialDigit(p, d) \/ DialHash(p)
  PROVE  TypeOK'
<1> DEFINE r == active[p]
           typed(c) == [c EXCEPT !.dialed = AddDigit(@, d)]
<1>1. r \in Refs
  BY DEF DialDigit, DialHash, InState, TypeOK
<1>2. \A c \in Call : typed(c) \in Call
  BY AddDigitTyped DEF Call
<1>3. \/ TryCompleteDial(calls, r, typed(calls[r]), active)
      \/ TryCompleteDial(calls, r, calls[r], active)
  BY DEF DialDigit, DialHash
<1> HIDE DEF r, typed
<1>4. calls \in CallsType /\ active \in ActiveType
  BY DEF TypeOK, CallsType, ActiveType
<1>5. /\ calls' \in CallsType /\ active' \in ActiveType
      /\ ringTimers' \subseteq AutoAnswer /\ ivrTimers' \subseteq Refs
  BY <1>1, <1>2, <1>3, <1>4, DialTyped DEF CallsType
<1> QED
  BY <1>5 DEF DialDigit, DialHash, TypeOK, CallsType, ActiveType

(* Every action of the hub keeps every field of its state well-formed.      *)
LEMMA TypePreserved == TypeOK /\ [Next]_vars => TypeOK'
<1> SUFFICES ASSUME TypeOK, [Next]_vars PROVE TypeOK'
  OBVIOUS
<1>1. CASE UNCHANGED vars
  BY <1>1 DEF vars, TypeOK
<1>2. ASSUME NEW p \in Phones, NewCall(p) PROVE TypeOK'
  <2>1. NewCallBy(p, "dialing") \in Call
    BY NewCallTyped DEF States
  <2>2. nextRef' \in 1..(MaxCalls + 1) /\ nextRef \in Refs
    BY <1>2, HubAssumption DEF NewCall, Refs
  <2> QED
    BY <1>2, <2>1, <2>2 DEF NewCall, TypeOK, StopMedia
<1>3. ASSUME NEW p \in Phones, Answer(p) PROVE TypeOK'
  BY <1>3, AnsweredTyped DEF Answer, TypeOK
<1>4. ASSUME NEW p \in Phones, AutoAnswerFires(p) PROVE TypeOK'
  BY <1>4, AnsweredTyped DEF AutoAnswerFires, TypeOK
<1>5. ASSUME NEW p \in Phones, Hold(p) PROVE TypeOK'
  <2>1. active[p] \in Refs /\ calls' = [calls EXCEPT ![active[p]] = OnHold(@, p)]
    BY <1>5 DEF Hold, InState, TypeOK
  <2>2. OnHold(calls[active[p]], p) \in Call
    BY <2>1, HoldTyped DEF TypeOK
  <2> QED
    BY <1>5, <2>1, <2>2 DEF Hold, TypeOK
<1>6. ASSUME NEW p \in Phones, Resume(p) PROVE TypeOK'
  <2>1. active[p] \in Refs /\ calls' = [calls EXCEPT ![active[p]] = Resumed(@)]
    BY <1>6 DEF Resume, InState, TypeOK
  <2>2. Resumed(calls[active[p]]) \in Call
    BY <2>1, HoldTyped DEF TypeOK
  <2> QED
    BY <1>6, <2>1, <2>2 DEF Resume, TypeOK
<1>7. ASSUME NEW p \in Phones, MediaAck(p) PROVE TypeOK'
  <2> DEFINE r == active[p]
             c == [calls[r] EXCEPT !.ports = @ \cup {p}]
             up == MediaHub /\ MediaReady(c, p)
             noted == [c EXCEPT !.menu = @ \/ (c.ivr /\ up)]
  <2>1. r \in Refs /\ calls' = [calls EXCEPT ![r] = noted]
    BY <1>7 DEF MediaAck, InState, TypeOK
  <2>2. c \in Call
    <3>1. \A x \in Call : [x EXCEPT !.ports = @ \cup {p}] \in Call
      BY DEF Call
    <3> QED
      BY <2>1, <3>1 DEF TypeOK
  <2>3. noted \in Call
    <3> HIDE DEF c, up
    <3> QED
      BY <2>2 DEF Call
  <2> QED
    <3> HIDE DEF noted
    <3> QED
      BY <1>7, <2>1, <2>3 DEF MediaAck, TypeOK
<1>8. ASSUME NEW p \in Phones, HangUp(p) PROVE TypeOK'
  BY <1>8, EndCallTyped DEF HangUp, TypeOK
<1>9. ASSUME NEW p \in Phones, DialHash(p) PROVE TypeOK'
  BY <1>9, DialDigitTyped DEF Digits
<1>10. ASSUME NEW p \in Phones, NEW d \in Digits, DialDigit(p, d) PROVE TypeOK'
  BY <1>10, DialDigitTyped
<1>11. ASSUME NEW p \in Phones, FeatureHash(p) PROVE TypeOK'
  BY <1>11, FinishTyped DEF FeatureHash, Entering, FeatureMode, Modes, TypeOK
<1>12. ASSUME NEW p \in Phones, NEW d \in Digits,
              FeatureDigit(p, d) \/ ConsultDial(p, d)
       PROVE TypeOK'
  BY <1>12, FeatureDigitTyped, ConsultDialTyped
<1>13. ASSUME NEW p \in Phones, NEW m \in Offered, NEW r \in Refs,
              FeatureKey(m, p, r)
       PROVE TypeOK'
  BY <1>13, FeatureKeyTyped, HubAssumption DEF Modes
<1>14. ASSUME NEW r \in Refs, IvrConnects(r) PROVE TypeOK'
  <2>1. [calls[r] EXCEPT !.state = "connected"] \in Call
    BY SetTyped DEF TypeOK, States
  <2>2. calls' \in [Refs -> Call]
    BY <1>14, <2>1 DEF IvrConnects, IvrConnected, TypeOK
  <2> QED
    BY <1>14, <2>2 DEF IvrConnects, TypeOK
<1>15. ASSUME NEW r \in Refs, IvrHangsUp(r) PROVE TypeOK'
  BY <1>15, EndCallTyped DEF IvrHangsUp
<1> QED
  BY <1>1, <1>2, <1>3, <1>4, <1>5, <1>6, <1>7, <1>8, <1>9, <1>10, <1>11, <1>12,
     <1>13, <1>14, <1>15
     DEF Next, PhoneStep, TimerStep

LEMMA InitTyped == Init => TypeOK
BY HubAssumption
   DEF Init, TypeOK, NewCallBy, NoFeature, Call, Feature, States, Dialed, Refs

(* The hub's tables, focus pointers, timers and SimCall records keep their  *)
(* types, for any number of phones and calls and any timing.                *)
THEOREM HubTypeOK == Spec => []TypeOK
BY InitTyped, TypePreserved, PTL DEF Spec

-----------------------------------------------------------------------------
(* Phones that use at most one of the two features *)

OneFeature == Offered # Modes

-----------------------------------------------------------------------------
(* The inductive invariant *)

(* call_refs that were never allocated stand for no call and no feature.    *)
FreshUnused ==
  \A r \in Refs : r >= nextRef =>
    /\ calls[r].state = "idle"
    /\ \A m \in Modes : /\ feature[m][r].primary = NoCall
                        /\ feature[m][r].consult = NoCall
                        /\ ~ feature[m][r].on
    /\ \A m \in Modes, q \in Refs :
         feature[m][q].consult # r /\ feature[m][q].primary # r

(* Only NewCall and a blind transfer leave a call dialing: nobody is on the *)
(* other side of it yet.                                                    *)
DialingIsAlone ==
  \A r \in Refs : calls[r].state \in {"idle", "dialing"} =>
    calls[r].callee = NoPhone

(* A third party makes a call a conference; no call has a feature under way *)
(* that the phones do not use.                                              *)
ThirdIsConference ==
  \A r \in Refs :
    /\ calls[r].third # NoPhone => calls[r].conf
    /\ calls[r].conf => "conference" \in Offered

UnofferedIsOff ==
  \A m \in Modes \ Offered, r \in Refs :
    ~ feature[m][r].on /\ feature[m][r].consult = NoCall
      /\ feature[m][r].primary = NoCall

(* A call with a feature under way is no consult leg, and a consult leg is  *)
(* no conference; the digits of a live leg are still there.                 *)
LegsAreLeaves ==
  \A m \in Modes, r \in Refs :
    /\ feature[m][r].on => feature[m][r].primary = NoCall
    /\ feature[m][r].primary # NoCall => ~ calls[r].conf
    /\ m = "conference" /\ feature[m][r].on => ~ calls[r].conf
    /\ feature[m][r].consult \in live => feature[m][r].digits # NoDigits
    /\ feature[m][r].consult # r

SafeInv ==
  /\ TypeOK
  /\ FreshUnused
  /\ TableMatchesState
  /\ FocusIsLive
  /\ FocusIsMine
  /\ MediaOnlyWhileLive
  /\ DialingIsAlone
  /\ ThirdIsConference
  /\ UnofferedIsOff
  /\ LegsAreLeaves
  /\ ConsultLinked
  /\ FeatureByParty

LEMMA InitSafe == Init => SafeInv
<1> SUFFICES ASSUME Init PROVE SafeInv
  OBVIOUS
<1>1. TypeOK
  BY InitTyped
<1>2. FreshUnused /\ UnofferedIsOff /\ LegsAreLeaves /\ ConsultLinked /\ FeatureByParty
  BY HubAssumption
     DEF Init, NewCallBy, NoFeature, FreshUnused, UnofferedIsOff, LegsAreLeaves,
         ConsultLinked, FeatureByParty, Refs
<1>3. TableMatchesState /\ FocusIsLive /\ FocusIsMine /\ MediaOnlyWhileLive
        /\ DialingIsAlone /\ ThirdIsConference
  BY DEF Init, NewCallBy, TableMatchesState, FocusIsLive, FocusIsMine,
         MediaOnlyWhileLive, DialingIsAlone, ThirdIsConference
<1> QED
  BY <1>1, <1>2, <1>3 DEF SafeInv

-----------------------------------------------------------------------------
(* Steps on one call *)

(* The parties and the third-party status of every call stay what they are. *)
SameParties ==
  \A r \in Refs : /\ calls'[r].caller = calls[r].caller
                  /\ calls'[r].callee = calls[r].callee
                  /\ calls'[r].third = calls[r].third
                  /\ calls'[r].conf = calls[r].conf

(* Steps that move live calls between ringing, connected and held, and touch *)
(* neither the call table, the focus calls nor the features, are harmless.   *)
LEMMA QuietStep ==
  ASSUME SafeInv, TypeOK', SameParties,
         \A r \in Refs :
           \/ calls'[r].state = calls[r].state
           \/ r \in live /\ calls'[r].state \notin {"idle", "ended", "dialing"},
         live' = live, active' = active, feature' = feature, nextRef' = nextRef,
         media' \subseteq live
  PROVE  SafeInv'
<1>1. (FreshUnused /\ TableMatchesState /\ DialingIsAlone /\ MediaOnlyWhileLive)'
  <2>1. \A r \in Refs : calls[r].state = "idle" => calls'[r].state = "idle"
    BY DEF SafeInv, TableMatchesState
  <2>2. FreshUnused'
    BY <2>1 DEF SafeInv, FreshUnused
  <2>3. TableMatchesState'
    BY DEF SafeInv, TableMatchesState
  <2>4. DialingIsAlone'
    BY DEF SafeInv, DialingIsAlone, SameParties
  <2> QED
    BY <2>2, <2>3, <2>4 DEF MediaOnlyWhileLive
<1>2. \A r \in Refs : Parties(calls'[r]) = Parties(calls[r])
  BY DEF SameParties, Parties
<1>3. (FocusIsLive /\ FocusIsMine /\ ThirdIsConference)'
  BY <1>2 DEF SafeInv, TypeOK, SameParties, FocusIsLive, FocusIsMine,
              ThirdIsConference
<1>4. (UnofferedIsOff /\ LegsAreLeaves /\ ConsultLinked /\ FeatureByParty)'
  BY <1>2 DEF SafeInv, TypeOK, SameParties, UnofferedIsOff, LegsAreLeaves,
              ConsultLinked, FeatureByParty
<1> QED
  BY <1>1, <1>3, <1>4 DEF SafeInv

LEMMA AnsweredSafe ==
  ASSUME SafeInv, TypeOK', NEW p \in Phones, calls' = Answered(p),
         live' = live, active' = active, feature' = feature, nextRef' = nextRef,
         media' = media
  PROVE  SafeInv'
<1> DEFINE up(c) == [c EXCEPT !.state = "connected"]
<1>1. calls' = IF InState(p, "ringing") /\ p = calls[active[p]].callee
               THEN [calls EXCEPT ![active[p]] = up(@)] ELSE calls
  BY DEF Answered
<1>2. \A r \in Refs : /\ up(calls[r]).caller = calls[r].caller
                      /\ up(calls[r]).callee = calls[r].callee
                      /\ up(calls[r]).third = calls[r].third
                      /\ up(calls[r]).conf = calls[r].conf
                      /\ up(calls[r]).state = "connected"
  BY DEF SafeInv, TypeOK, Call
<1> HIDE DEF up
<1>3. InState(p, "ringing") => active[p] \in Refs /\ active[p] \in live
  BY DEF InState, SafeInv, TypeOK, FocusIsLive
<1>4. SameParties
  BY <1>1, <1>2, <1>3 DEF SameParties, SafeInv, TypeOK
<1>5. \A r \in Refs :
        \/ calls'[r].state = calls[r].state
        \/ r \in live /\ calls'[r].state \notin {"idle", "ended", "dialing"}
  BY <1>1, <1>2, <1>3 DEF SafeInv, TypeOK
<1> QED
  BY <1>4, <1>5, QuietStep DEF SafeInv, MediaOnlyWhileLive

(* Hold and Resume. *)
LEMMA HoldSafe ==
  ASSUME SafeInv, TypeOK', NEW p \in Phones, Hold(p) \/ Resume(p)
  PROVE  SafeInv'
<1> DEFINE r == active[p]
           parked(c) == OnHold(c, p)
<1>1. \A c \in Call :
        /\ parked(c).caller = c.caller /\ parked(c).callee = c.callee
        /\ parked(c).third = c.third /\ parked(c).conf = c.conf
        /\ parked(c).state = "held"
  BY DEF OnHold, Call
<1>2. \A c \in Call :
        /\ Resumed(c).caller = c.caller /\ Resumed(c).callee = c.callee
        /\ Resumed(c).third = c.third /\ Resumed(c).conf = c.conf
        /\ Resumed(c).state = "connected"
  BY DEF Resumed, Call
<1>3. r \in Refs /\ r \in live
  BY DEF Hold, Resume, InState, SafeInv, TypeOK, FocusIsLive
<1>4. calls' = [calls EXCEPT ![r] = parked(@)] \/ calls' = [calls EXCEPT ![r] = Resumed(@)]
  BY DEF Hold, Resume
<1>5. \A q \in Refs : calls[q] \in Call
  BY DEF SafeInv, TypeOK
<1> HIDE DEF parked, r
<1>6. SameParties
  BY <1>1, <1>2, <1>3, <1>4, <1>5 DEF SameParties, SafeInv, TypeOK
<1>7. \A q \in Refs :
        \/ calls'[q].state = calls[q].state
        \/ q \in live /\ calls'[q].state \notin {"idle", "ended", "dialing"}
  BY <1>1, <1>2, <1>3, <1>4, <1>5 DEF SafeInv, TypeOK
<1> QED
  BY <1>6, <1>7, QuietStep DEF Hold, Resume, SafeInv, MediaOnlyWhileLive

(* An ack is booked only on a connected call, so media starts only on one.  *)
LEMMA MediaAckSafe ==
  ASSUME SafeInv, TypeOK', NEW p \in Phones, MediaAck(p)
  PROVE  SafeInv'
<1> DEFINE r == active[p]
           c == [calls[r] EXCEPT !.ports = @ \cup {p}]
           up == MediaHub /\ MediaReady(c, p)
           noted == [c EXCEPT !.menu = @ \/ (c.ivr /\ up)]
<1>1. /\ r \in Refs /\ r \in live
      /\ calls' = [calls EXCEPT ![r] = noted]
      /\ media' = IF up THEN media \cup {r} ELSE media
      /\ live' = live /\ active' = active /\ feature' = feature
      /\ nextRef' = nextRef
  BY DEF MediaAck, InState, SafeInv, TypeOK, FocusIsLive
<1>2. calls[r] \in Call
  BY <1>1 DEF SafeInv, TypeOK
<1>3. /\ noted.caller = calls[r].caller /\ noted.callee = calls[r].callee
      /\ noted.third = calls[r].third /\ noted.conf = calls[r].conf
      /\ noted.state = calls[r].state
  BY <1>2 DEF Call
<1> HIDE DEF noted, up, r
<1>4. SameParties /\ \A q \in Refs : calls'[q].state = calls[q].state
  BY <1>1, <1>3 DEF SameParties, SafeInv, TypeOK
<1>5. media' \subseteq live
  BY <1>1 DEF SafeInv, MediaOnlyWhileLive
<1> QED
  BY <1>1, <1>4, <1>5, QuietStep

LEMMA IvrConnectsSafe ==
  ASSUME SafeInv, TypeOK', NEW r \in Refs, IvrConnects(r)
  PROVE  SafeInv'
<1> DEFINE up(c) == [c EXCEPT !.state = "connected"]
<1>1. calls' = IF r \in live THEN [calls EXCEPT ![r] = up(@)] ELSE calls
  BY DEF IvrConnects, IvrConnected
<1>2. \A c \in Call :
        /\ up(c).caller = c.caller /\ up(c).callee = c.callee
        /\ up(c).third = c.third /\ up(c).conf = c.conf
        /\ up(c).state = "connected"
  BY DEF Call
<1>3. \A q \in Refs : calls[q] \in Call
  BY DEF SafeInv, TypeOK
<1> HIDE DEF up
<1>4. SameParties
  BY <1>1, <1>2, <1>3 DEF SameParties, SafeInv, TypeOK
<1>5. \A q \in Refs :
        \/ calls'[q].state = calls[q].state
        \/ q \in live /\ calls'[q].state \notin {"idle", "ended", "dialing"}
  BY <1>1, <1>2, <1>3 DEF SafeInv, TypeOK
<1> QED
  BY <1>4, <1>5, QuietStep DEF IvrConnects, SafeInv, MediaOnlyWhileLive

-----------------------------------------------------------------------------
(* Calls placed and ended *)

(* A new call takes a call_ref that no call or feature has used.            *)
LEMMA NewCallSafe ==
  ASSUME SafeInv, TypeOK', NEW p \in Phones, NewCall(p)
  PROVE  SafeInv'
<1> DEFINE c == NewCallBy(p, "dialing")
<1>1. /\ nextRef \in Refs /\ nextRef' = nextRef + 1
      /\ calls' = [calls EXCEPT ![nextRef] = c]
      /\ live' = live \cup {nextRef}
      /\ active' = [active EXCEPT ![p] = nextRef]
      /\ media' \subseteq media /\ feature' = feature
  BY DEF NewCall, StopMedia
<1>2. /\ c.caller = p /\ c.callee = NoPhone /\ c.third = NoPhone
      /\ c.conf = FALSE /\ c.state = "dialing"
  BY DEF NewCallBy
<1>3. /\ calls'[nextRef] = c
      /\ \A r \in Refs \ {nextRef} : calls'[r] = calls[r]
      /\ calls[nextRef].state = "idle" /\ nextRef \notin live
  BY <1>1 DEF SafeInv, TypeOK, FreshUnused, TableMatchesState, Refs
<1>4. p \in Parties(calls'[nextRef])
  BY <1>2, <1>3, HubAssumption DEF Parties
<1> HIDE DEF c
<1>5. FreshUnused'
  BY <1>1, <1>3, HubAssumption DEF SafeInv, FreshUnused, Refs
<1>6. (TableMatchesState /\ MediaOnlyWhileLive /\ DialingIsAlone
         /\ ThirdIsConference)'
  BY <1>1, <1>2, <1>3
     DEF SafeInv, TableMatchesState, MediaOnlyWhileLive, DialingIsAlone,
         ThirdIsConference
<1>7. (FocusIsLive /\ FocusIsMine)'
  BY <1>1, <1>3, <1>4 DEF SafeInv, TypeOK, FocusIsLive, FocusIsMine
<1>8. (UnofferedIsOff /\ LegsAreLeaves)'
  <2>1. UnofferedIsOff'
    BY <1>1 DEF SafeInv, UnofferedIsOff
  <2>2. \A r \in Refs : calls'[r].conf => calls[r].conf
    BY <1>2, <1>3
  <2>3. \A m \in Modes, r \in Refs : feature[m][r].consult \in live'
          => feature[m][r].consult \in live
    BY <1>1, HubAssumption DEF SafeInv, FreshUnused, Refs
  <2> QED
    BY <1>1, <2>1, <2>2, <2>3 DEF SafeInv, LegsAreLeaves
<1>9. ConsultLinked'
  <2>1. \A m \in Modes, r \in Refs :
          /\ feature[m][r].consult # nextRef /\ feature[m][r].primary # nextRef
          /\ feature[m][nextRef].consult = NoCall
          /\ feature[m][nextRef].primary = NoCall
    BY <1>1 DEF SafeInv, FreshUnused, Refs
  <2>2. NoCall \notin Refs /\ live \subseteq Refs
    BY HubAssumption DEF Refs, SafeInv, TypeOK
  <2> QED
    BY <1>1, <1>3, <2>1, <2>2 DEF SafeInv, ConsultLinked
<1>10. FeatureByParty'
  BY <1>1, <1>3 DEF SafeInv, TypeOK, FeatureByParty, FreshUnused, Refs
<1> QED
  BY <1>5, <1>6, <1>7, <1>8, <1>9, <1>10 DEF SafeInv

(* Digits of a plain call: only a free phone is rung, and on a call that    *)
(* had no callee.  Also the second half of a blind transfer, so it is       *)
(* stated for the calls cs and the focus act that dialing starts from.      *)
LEMMA DialledFields ==
  ASSUME NEW c \in Call, NEW act \in ActiveType
  PROVE  LET d == Dialled(c, act) IN
         /\ d.caller = c.caller /\ d.third = c.third /\ d.conf = c.conf
         /\ Rings(c, act) => d.callee = c.dialed /\ d.state = "ringing"
         /\ ~ Rings(c, act) => d.callee = c.callee
         /\ d.state # c.state => d.state = "ringing"
<1> DEFINE rung(x) == [x EXCEPT !.callee = x.dialed, !.state = "ringing"]
           ivr(x) == [x EXCEPT !.ivr = TRUE, !.state = "ringing"]
<1>1. /\ rung(c).caller = c.caller /\ rung(c).third = c.third
      /\ rung(c).conf = c.conf /\ rung(c).callee = c.dialed
      /\ rung(c).state = "ringing"
  BY DEF Call
<1>2. /\ ivr(c).caller = c.caller /\ ivr(c).third = c.third
      /\ ivr(c).conf = c.conf /\ ivr(c).callee = c.callee
      /\ ivr(c).state = "ringing"
  BY DEF Call
<1>3. Rings(c, act) => c.dialed \notin IvrDns
  BY HubAssumption DEF Rings
<1>4. /\ c.dialed \in IvrDns => Dialled(c, act) = ivr(c)
      /\ Rings(c, act) => Dialled(c, act) = rung(c)
      /\ c.dialed \notin IvrDns /\ ~ Rings(c, act) => Dialled(c, act) = c
  BY <1>3 DEF Dialled
<1> HIDE DEF rung, ivr
<1> QED
  BY <1>1, <1>2, <1>3, <1>4

LEMMA DialSafe ==
  ASSUME SafeInv, TypeOK', NEW p \in Phones, NEW d \in Digits,
         DialDigit(p, d) \/ DialHash(p)
  PROVE  SafeInv'
<1> DEFINE r == active[p]
           typed(x) == [x EXCEPT !.dialed = AddDigit(@, d)]
<1>1. /\ r \in Refs /\ r \in live /\ calls[r].state = "dialing"
      /\ calls[r].callee = NoPhone /\ calls[r] \in Call
  BY DEF DialDigit, DialHash, InState, SafeInv, TypeOK, FocusIsLive, DialingIsAlone
<1>2. \A x \in Call : /\ typed(x).caller = x.caller /\ typed(x).callee = x.callee
                      /\ typed(x).third = x.third /\ typed(x).conf = x.conf
                      /\ typed(x).state = x.state /\ typed(x) \in Call
  BY AddDigitTyped DEF Call
<1>3. PICK c \in Call : /\ TryCompleteDial(calls, r, c, active)
                        /\ c.caller = calls[r].caller /\ c.callee = NoPhone
                        /\ c.third = calls[r].third /\ c.conf = calls[r].conf
                        /\ c.state = "dialing"
  <2> HIDE DEF typed
  <2>1. \/ TryCompleteDial(calls, r, typed(calls[r]), active)
        \/ TryCompleteDial(calls, r, calls[r], active)
    BY DEF DialDigit, DialHash, typed
  <2> HIDE DEF r
  <2> QED
    BY <1>1, <1>2, <2>1
<1>4. live' = live /\ feature' = feature /\ media' = media /\ nextRef' = nextRef
  BY DEF DialDigit, DialHash
<1> DEFINE e == Dialled(c, active)
<1> HIDE DEF r, typed, e
<1>5. /\ calls' = [calls EXCEPT ![r] = e]
      /\ active' = IF Rings(c, active) THEN [active EXCEPT ![c.dialed] = r] ELSE active
  BY <1>3 DEF TryCompleteDial, e
<1>6. active \in ActiveType /\ calls \in [Refs -> Call]
  BY DEF SafeInv, TypeOK, ActiveType
<1>7. /\ e.caller = calls[r].caller /\ e.third = calls[r].third
      /\ e.conf = calls[r].conf /\ e.state \in {"dialing", "ringing"}
      /\ Rings(c, active) => e.callee = c.dialed /\ e.state = "ringing"
      /\ ~ Rings(c, active) => e.callee = NoPhone
  BY <1>3, <1>6, DialledFields DEF e
<1>8. /\ calls'[r] = e /\ \A q \in Refs \ {r} : calls'[q] = calls[q]
  BY <1>1, <1>5, <1>6
<1>9. \A q \in Refs : Parties(calls[q]) \subseteq Parties(calls'[q])
  BY <1>1, <1>7, <1>8 DEF Parties
<1>10. Rings(c, active) => /\ c.dialed \in Phones
                           /\ c.dialed \in Parties(calls'[r])
  BY <1>7, <1>8, HubAssumption DEF Rings, Parties
<1>11. (FocusIsLive /\ FocusIsMine)'
  <2> SUFFICES ASSUME NEW q \in Phones, active'[q] # NoCall
               PROVE  active'[q] \in live' /\ q \in Parties(calls'[active'[q]])
    BY DEF FocusIsLive, FocusIsMine
  <2>1. CASE Rings(c, active) /\ q = c.dialed
    BY <2>1, <1>1, <1>4, <1>5, <1>6, <1>10 DEF ActiveType
  <2>2. CASE ~ (Rings(c, active) /\ q = c.dialed)
    <3>1. active'[q] = active[q]
      BY <2>2, <1>5, <1>6, <1>10 DEF ActiveType
    <3>2. active[q] \in live /\ q \in Parties(calls[active[q]]) /\ active[q] \in Refs
      BY <3>1 DEF SafeInv, FocusIsLive, FocusIsMine, TypeOK
    <3> QED
      BY <3>1, <3>2, <1>4, <1>9
  <2> QED
    BY <2>1, <2>2
<1>12. (FreshUnused /\ TableMatchesState /\ MediaOnlyWhileLive /\ DialingIsAlone
          /\ ThirdIsConference)'
  <2>1. FreshUnused'
    BY <1>1, <1>4, <1>8 DEF SafeInv, FreshUnused
  <2>2. TableMatchesState'
    BY <1>1, <1>4, <1>7, <1>8 DEF SafeInv, TableMatchesState
  <2>3. DialingIsAlone'
    BY <1>7, <1>8 DEF SafeInv, DialingIsAlone
  <2>4. ThirdIsConference'
    BY <1>1, <1>7, <1>8 DEF SafeInv, ThirdIsConference
  <2> QED
    BY <1>4, <2>1, <2>2, <2>3, <2>4 DEF SafeInv, MediaOnlyWhileLive
<1>13. (UnofferedIsOff /\ LegsAreLeaves /\ ConsultLinked /\ FeatureByParty)'
  <2>1. \A q \in Refs : /\ calls'[q].conf = calls[q].conf
                        /\ calls'[q].caller = calls[q].caller
    BY <1>7, <1>8
  <2>2. live \subseteq Refs
    BY DEF SafeInv, TypeOK
  <2>3. UnofferedIsOff' /\ LegsAreLeaves'
    BY <1>4, <2>1 DEF SafeInv, UnofferedIsOff, LegsAreLeaves
  <2>4. ConsultLinked'
    BY <1>4, <2>1, <2>2 DEF SafeInv, ConsultLinked
  <2>5. FeatureByParty'
    BY <1>4, <1>9, <2>2 DEF SafeInv, FeatureByParty
  <2> QED
    BY <2>3, <2>4, <2>5
<1> QED
  BY <1>11, <1>12, <1>13 DEF SafeInv

(* end_call: whoever has the call in focus is a party of it, and is given   *)
(* another of its live calls or none.                                       *)
LEMMA EndCallSafe ==
  ASSUME SafeInv, TypeOK', NEW r \in Refs, EndCall(r)
  PROVE  SafeInv'
<1> DEFINE over(x) == [x EXCEPT !.state = "ended"]
<1>1. /\ r \in live /\ live' = live \ {r} /\ media' = media \ {r}
      /\ calls' = [calls EXCEPT ![r] = over(@)]
      /\ feature' = feature /\ nextRef' = nextRef
  BY DEF EndCall, StopMedia
<1>2. active' = [p \in Phones |->
         IF p \notin Cleared(r)         THEN active[p]
         ELSE IF OtherCalls(p, r) # {} THEN Focus(OtherCalls(p, r))
         ELSE IF active[p] = r         THEN NoCall
         ELSE active[p]]
  BY DEF EndCall
<1>3. /\ over(calls[r]).caller = calls[r].caller
      /\ over(calls[r]).callee = calls[r].callee
      /\ over(calls[r]).third = calls[r].third
      /\ over(calls[r]).conf = calls[r].conf
      /\ over(calls[r]).state = "ended"
  BY DEF SafeInv, TypeOK, Call
<1> HIDE DEF over
<1>4. calls'[r] = over(calls[r]) /\ \A q \in Refs \ {r} : calls'[q] = calls[q]
  BY <1>1 DEF SafeInv, TypeOK
<1>5. \A q \in Refs : Parties(calls'[q]) = Parties(calls[q])
  BY <1>3, <1>4 DEF Parties
<1>6. (FocusIsLive /\ FocusIsMine)'
  <2> SUFFICES ASSUME NEW p \in Phones, active'[p] # NoCall
               PROVE  active'[p] \in live' /\ p \in Parties(calls'[active'[p]])
    BY DEF FocusIsLive, FocusIsMine
  <2>1. CASE p \in Cleared(r) /\ OtherCalls(p, r) # {}
    <3>1. active'[p] = Focus(OtherCalls(p, r))
      BY <1>2, <2>1
    <3>2. OtherCalls(p, r) \in SUBSET Refs
      BY DEF OtherCalls, CallsOf, SafeInv, TypeOK
    <3>3. active'[p] \in OtherCalls(p, r)
      BY <2>1, <3>1, <3>2, FocusIsOneOf DEF SafeInv
    <3> QED
      BY <1>1, <1>5, <3>2, <3>3 DEF OtherCalls, CallsOf
  <2>2. CASE ~ (p \in Cleared(r) /\ OtherCalls(p, r) # {})
    <3>1. active'[p] = active[p] /\ (p \in Cleared(r) => active[p] # r)
      BY <1>2, <2>2
    <3>2. active[p] \in live /\ p \in Parties(calls[active[p]]) /\ active[p] \in Refs
      BY <3>1 DEF SafeInv, FocusIsLive, FocusIsMine, TypeOK
    <3>3. active[p] # r
      BY <3>1, <3>2 DEF Cleared
    <3> QED
      BY <1>1, <1>5, <3>1, <3>2, <3>3
  <2> QED
    BY <2>1, <2>2
<1>7. (FreshUnused /\ TableMatchesState /\ MediaOnlyWhileLive /\ DialingIsAlone
         /\ ThirdIsConference)'
  <2>1. FreshUnused'
    BY <1>1, <1>4 DEF SafeInv, FreshUnused, TableMatchesState
  <2>2. TableMatchesState'
    BY <1>1, <1>3, <1>4 DEF SafeInv, TableMatchesState
  <2>3. DialingIsAlone'
    BY <1>3, <1>4 DEF SafeInv, DialingIsAlone
  <2>4. ThirdIsConference'
    BY <1>3, <1>4 DEF SafeInv, ThirdIsConference
  <2> QED
    BY <1>1, <2>1, <2>2, <2>3, <2>4 DEF SafeInv, MediaOnlyWhileLive
<1>8. (UnofferedIsOff /\ LegsAreLeaves /\ ConsultLinked /\ FeatureByParty)'
  <2>1. \A q \in Refs : /\ calls'[q].conf = calls[q].conf
                        /\ calls'[q].caller = calls[q].caller
    BY <1>3, <1>4
  <2>2. live \subseteq Refs
    BY DEF SafeInv, TypeOK
  <2>3. UnofferedIsOff' /\ LegsAreLeaves'
    BY <1>1, <2>1 DEF SafeInv, UnofferedIsOff, LegsAreLeaves
  <2>4. ConsultLinked'
    BY <1>1, <2>1, <2>2 DEF SafeInv, ConsultLinked
  <2>5. FeatureByParty'
    BY <1>1, <1>5, <2>2 DEF SafeInv, FeatureByParty
  <2> QED
    BY <2>3, <2>4, <2>5
<1> QED
  BY <1>6, <1>7, <1>8 DEF SafeInv

-----------------------------------------------------------------------------
(* Features *)

(* A step of the features alone: calls, focus and media stay put.           *)
LEMMA FeatureStep ==
  ASSUME SafeInv, TypeOK',
         UNCHANGED <<calls, live, active, media, nextRef>>,
         (UnofferedIsOff /\ LegsAreLeaves /\ ConsultLinked /\ FeatureByParty)',
         FreshUnused'
  PROVE  SafeInv'
<1>1. (TableMatchesState /\ FocusIsLive /\ FocusIsMine /\ MediaOnlyWhileLive
         /\ DialingIsAlone /\ ThirdIsConference)'
  BY DEF SafeInv, TableMatchesState, FocusIsLive, FocusIsMine, MediaOnlyWhileLive,
         DialingIsAlone, ThirdIsConference
<1> QED
  BY <1>1 DEF SafeInv

LEMMA BeginSafe ==
  ASSUME SafeInv, TypeOK', NEW m \in Offered, NEW r \in Refs, NEW p \in Phones,
         BeginFeature(m, r, p), r \in Targets(m, p),
         ~ feature[m][r].on, feature[m][r].primary = NoCall
  PROVE  SafeInv'
<1> DEFINE begun(f) == [f EXCEPT !.on = TRUE, !.by = p, !.digits = NoDigits]
<1>1. \A f \in Feature : /\ begun(f).on = TRUE /\ begun(f).by = p
                         /\ begun(f).digits = NoDigits
                         /\ begun(f).consult = f.consult
                         /\ begun(f).primary = f.primary
  BY DEF Feature
<1>2. feature' = [feature EXCEPT ![m][r] = begun(@)]
  BY DEF BeginFeature
<1> HIDE DEF begun
<1>3. m \in Modes /\ \A n \in Modes, q \in Refs : feature[n][q] \in Feature
  BY HubAssumption DEF Modes, SafeInv, TypeOK
<1>4. /\ feature'[m][r] = begun(feature[m][r])
      /\ \A n \in Modes, q \in Refs : n # m \/ q # r => feature'[n][q] = feature[n][q]
  BY <1>2, <1>3 DEF SafeInv, TypeOK
<1>5. /\ UNCHANGED <<calls, live, active, media, nextRef>>
      /\ calls[r].state = "connected" /\ (m = "conference" => ~ calls[r].conf)
  BY DEF BeginFeature
<1>6. r \in live /\ live \subseteq Refs
  BY <1>5 DEF SafeInv, TypeOK, TableMatchesState
<1>7. p \in Parties(calls[r])
  BY DEF Targets, CallsOf, SafeInv, FocusIsMine
<1>8. \A n \in Modes, q \in Refs :
        /\ feature'[n][q].consult = feature[n][q].consult
        /\ feature'[n][q].primary = feature[n][q].primary
  BY <1>1, <1>3, <1>4
<1>9. feature[m][r].consult \notin live
  BY <1>3, <1>6 DEF SafeInv, ConsultLinked
<1>10. FreshUnused'
  BY <1>4, <1>5, <1>8 DEF SafeInv, FreshUnused
<1>11. UnofferedIsOff'
  BY <1>4, <1>8 DEF SafeInv, UnofferedIsOff
<1>12. LegsAreLeaves'
  BY <1>1, <1>3, <1>4, <1>5, <1>8, <1>9 DEF SafeInv, LegsAreLeaves
<1>13. ConsultLinked'
  BY <1>3, <1>4, <1>5, <1>6, <1>8, <1>9 DEF SafeInv, ConsultLinked
<1>14. FeatureByParty'
  BY <1>1, <1>3, <1>4, <1>5, <1>6, <1>7 DEF SafeInv, FeatureByParty
<1> QED
  BY <1>5, <1>10, <1>11, <1>12, <1>13, <1>14, FeatureStep

LEMMA FeatureDigitSafe ==
  ASSUME SafeInv, TypeOK', NEW p \in Phones, NEW d \in Digits, FeatureDigit(p, d)
  PROVE  SafeInv'
<1> DEFINE r == active[p]
           m == FeatureMode(r)
           typed(f) == [f EXCEPT !.digits = AddDigit(@, d)]
<1>1. r \in Refs /\ m \in Modes
  BY DEF FeatureDigit, Entering, SafeInv, TypeOK, FeatureMode, Modes
<1>2. /\ feature' = [feature EXCEPT ![m][r] = typed(feature[m][r])]
      /\ feature[m][r].on
      /\ UNCHANGED <<calls, live, active, media, nextRef>>
  BY DEF FeatureDigit, Entering, FeatureOn, FeatureMode, Modes
<1>3. \A f \in Feature : /\ typed(f).on = f.on /\ typed(f).by = f.by
                         /\ typed(f).digits # NoDigits
                         /\ typed(f).consult = f.consult
                         /\ typed(f).primary = f.primary
  BY HubAssumption DEF Feature, AddDigit, Digits
<1> HIDE DEF typed, r, m
<1>4. \A n \in Modes, q \in Refs : feature[n][q] \in Feature
  BY DEF SafeInv, TypeOK
<1>5. /\ feature'[m][r] = typed(feature[m][r])
      /\ \A n \in Modes, q \in Refs : n # m \/ q # r => feature'[n][q] = feature[n][q]
  BY <1>1, <1>2 DEF SafeInv, TypeOK
<1>6. \A n \in Modes, q \in Refs :
        /\ feature'[n][q].on = feature[n][q].on
        /\ feature'[n][q].by = feature[n][q].by
        /\ feature'[n][q].consult = feature[n][q].consult
        /\ feature'[n][q].primary = feature[n][q].primary
        /\ feature'[n][q].digits = NoDigits => feature[n][q].digits = NoDigits
  BY <1>1, <1>3, <1>4, <1>5
<1>7. live \subseteq Refs
  BY DEF SafeInv, TypeOK
<1>8. (FreshUnused /\ UnofferedIsOff /\ LegsAreLeaves)'
  BY <1>2, <1>6 DEF SafeInv, FreshUnused, UnofferedIsOff, LegsAreLeaves
<1>9. (ConsultLinked /\ FeatureByParty)'
  BY <1>2, <1>6, <1>7 DEF SafeInv, ConsultLinked, FeatureByParty
<1> QED
  BY <1>2, <1>8, <1>9, FeatureStep

(* The consult leg is a fresh call between the initiator and a free phone;   *)
(* both of them turn to it, and nobody else's focus changes.                *)
LEMMA ConsultDialSafe ==
  ASSUME SafeInv, TypeOK', NEW p \in Phones, NEW d \in Digits, ConsultDial(p, d)
  PROVE  SafeInv'
<1> DEFINE r == active[p]
           k == nextRef
           m == FeatureMode(r)
           f == [feature[m][r] EXCEPT !.digits = AddDigit(@, d)]
           t == f.digits
           leg == [NewCallBy(p, "ringing") EXCEPT !.callee = t, !.dialed = t]
           parked(c) == IF c.state = "held" THEN c ELSE OnHold(c, p)
           based(g) == [g EXCEPT !.primary = r]
           linked == [f EXCEPT !.consult = k]
           g == [feature EXCEPT ![m][r] = linked]
           gm == g[m]
<1>1. /\ r \in Refs /\ m \in Modes /\ k \in Refs /\ r \in live
      /\ feature[m][r].on /\ feature[m][r].by = p
  BY DEF ConsultDial, Entering, SafeInv, TypeOK, FeatureMode, FeatureOn, Modes,
         FocusIsLive
<1>2. /\ t \in Phones \ {p} /\ f.consult = NoCall
      /\ calls' = [calls EXCEPT ![r] = parked(@), ![k] = leg]
      /\ live' = live \cup {k}
      /\ active' = [active EXCEPT ![p] = k, ![t] = k]
      /\ feature' = [g EXCEPT ![m] = [gm EXCEPT ![k] = based(gm[k])]]
      /\ media' = media \ {r}
      /\ nextRef' = k + 1
  BY DEF ConsultDial, Consultable, StopMedia
<1>3. /\ f.on /\ f.by = p /\ f.primary = feature[m][r].primary
      /\ feature[m][r].consult = NoCall
  <2>1. \A x \in Feature :
          LET y == [x EXCEPT !.digits = AddDigit(@, d)] IN
          /\ y.on = x.on /\ y.by = x.by /\ y.primary = x.primary
          /\ y.consult = x.consult
    BY DEF Feature
  <2>2. feature[m][r] \in Feature
    BY <1>1 DEF SafeInv, TypeOK
  <2>3. /\ f.on = feature[m][r].on /\ f.by = feature[m][r].by
        /\ f.primary = feature[m][r].primary /\ f.consult = feature[m][r].consult
    <3> HIDE DEF r, m
    <3> QED
      BY <2>1, <2>2
  <2> QED
    BY <1>1, <1>2, <2>3
<1>4. f \in Feature /\ linked \in Feature
  <2>1. f \in Feature
    <3>1. \A x \in Feature : [x EXCEPT !.digits = AddDigit(@, d)] \in Feature
      BY AddDigitTyped DEF Feature
    <3> QED
      BY <1>1, <3>1 DEF SafeInv, TypeOK
  <2> HIDE DEF f
  <2> QED
    BY <1>1, <2>1 DEF Feature
<1>5. /\ linked.on /\ linked.by = p /\ linked.digits = t
      /\ linked.consult = k /\ linked.primary = feature[m][r].primary
  <2> HIDE DEF f, k, r, m
  <2> QED
    BY <1>3, <1>4 DEF Feature
<1>6. \A x \in Feature : /\ based(x).on = x.on /\ based(x).by = x.by
                         /\ based(x).digits = x.digits
                         /\ based(x).consult = x.consult /\ based(x).primary = r
  BY DEF Feature
<1>7. /\ leg.caller = p /\ leg.callee = t /\ leg.third = NoPhone
      /\ leg.conf = FALSE /\ leg.state = "ringing"
  BY DEF NewCallBy
<1>8. \A c \in Call : /\ parked(c).caller = c.caller /\ parked(c).callee = c.callee
                      /\ parked(c).third = c.third /\ parked(c).conf = c.conf
                      /\ parked(c).state = "held"
  BY DEF OnHold, Call
<1> HIDE DEF f, leg, parked, based, linked, r, m, k, t
<1>9. /\ k \notin live /\ k # r /\ calls[k].state = "idle" /\ k \in Nat
      /\ ~ feature[m][k].on
      /\ \A n \in Modes : /\ feature[n][k].consult = NoCall
                          /\ feature[n][k].primary = NoCall
      /\ \A n \in Modes, q \in Refs : /\ feature[n][q].consult # k
                                      /\ feature[n][q].primary # k
  BY <1>1, HubAssumption DEF SafeInv, FreshUnused, TableMatchesState, Refs, k
<1>10. /\ calls'[k] = leg /\ calls'[r] = parked(calls[r])
       /\ \A q \in Refs \ {r, k} : calls'[q] = calls[q]
  BY <1>1, <1>2, <1>9 DEF SafeInv, TypeOK
<1>11. /\ calls'[r].caller = calls[r].caller /\ calls'[r].callee = calls[r].callee
       /\ calls'[r].third = calls[r].third /\ calls'[r].conf = calls[r].conf
       /\ calls'[r].state = "held"
  BY <1>1, <1>8, <1>10 DEF SafeInv, TypeOK
<1>12. /\ feature'[m][r] = linked /\ feature'[m][k] = based(feature[m][k])
       /\ \A n \in Modes, q \in Refs :
            n # m \/ q \notin {r, k} => feature'[n][q] = feature[n][q]
  <2>1. /\ g \in [Modes -> [Refs -> Feature]]
        /\ g[m][r] = linked
        /\ \A n \in Modes, q \in Refs : n # m \/ q # r => g[n][q] = feature[n][q]
    BY <1>1, <1>4 DEF SafeInv, TypeOK
  <2> HIDE DEF g
  <2> QED
    BY <1>1, <1>2, <1>9, <2>1
<1>13. \A q \in Refs \ {k} : Parties(calls'[q]) = Parties(calls[q])
  BY <1>10, <1>11 DEF Parties
<1>14. p \in Parties(calls'[k]) /\ t \in Parties(calls'[k])
  BY <1>2, <1>7, <1>10, HubAssumption DEF Parties
<1>15. live \subseteq Refs /\ \A n \in Modes, q \in Refs : feature[n][q] \in Feature
  BY DEF SafeInv, TypeOK
<1>16. (FocusIsLive /\ FocusIsMine)'
  <2> SUFFICES ASSUME NEW q \in Phones, active'[q] # NoCall
               PROVE  active'[q] \in live' /\ q \in Parties(calls'[active'[q]])
    BY DEF FocusIsLive, FocusIsMine
  <2>1. CASE q \in {p, t}
    BY <2>1, <1>2, <1>14 DEF SafeInv, TypeOK
  <2>2. CASE q \notin {p, t}
    <3>1. active'[q] = active[q]
      BY <2>2, <1>2 DEF SafeInv, TypeOK
    <3>2. active[q] \in live /\ q \in Parties(calls[active[q]])
      BY <3>1 DEF SafeInv, FocusIsLive, FocusIsMine
    <3>3. active[q] \in Refs \ {k}
      BY <3>2, <1>9, <1>15
    <3>4. live \subseteq live'
      BY <1>2
    <3> QED
      BY <3>1, <3>2, <3>3, <3>4, <1>13
  <2> QED
    BY <2>1, <2>2
<1>17. (TableMatchesState /\ MediaOnlyWhileLive /\ DialingIsAlone
          /\ ThirdIsConference)'
  <2>1. TableMatchesState'
    BY <1>1, <1>2, <1>7, <1>10, <1>11 DEF SafeInv, TableMatchesState
  <2>2. DialingIsAlone' /\ ThirdIsConference'
    BY <1>1, <1>7, <1>10, <1>11 DEF SafeInv, DialingIsAlone, ThirdIsConference
  <2> QED
    BY <1>2, <2>1, <2>2 DEF SafeInv, MediaOnlyWhileLive
<1>18. FreshUnused'
  <2> SUFFICES ASSUME NEW q \in Refs, q >= nextRef'
               PROVE  /\ calls'[q].state = "idle"
                      /\ \A n \in Modes : /\ feature'[n][q].primary = NoCall
                                          /\ feature'[n][q].consult = NoCall
                                          /\ ~ feature'[n][q].on
                      /\ \A n \in Modes, x \in Refs :
                           /\ feature'[n][x].consult # q
                           /\ feature'[n][x].primary # q
    BY DEF FreshUnused
  <2>1. q >= k /\ q # k
    BY <1>2, <1>9 DEF Refs
  <2>2. /\ calls[q].state = "idle" /\ q # r
        /\ \A n \in Modes : /\ feature[n][q].primary = NoCall
                            /\ feature[n][q].consult = NoCall
                            /\ ~ feature[n][q].on
        /\ \A n \in Modes, x \in Refs : /\ feature[n][x].consult # q
                                        /\ feature[n][x].primary # q
    BY <2>1, <1>1 DEF SafeInv, FreshUnused, TableMatchesState, k
  <2>3. \A n \in Modes, x \in Refs : /\ feature'[n][x].consult # q
                                     /\ feature'[n][x].primary # q
    BY <2>1, <2>2, <1>1, <1>5, <1>6, <1>12, <1>15
  <2> QED
    BY <2>1, <2>2, <2>3, <1>10, <1>12
<1>19. UnofferedIsOff'
  BY <1>1, <1>12 DEF SafeInv, UnofferedIsOff
<1>20. LegsAreLeaves'
  <2>1. t # NoDigits /\ NoCall \notin Refs
    BY <1>2, HubAssumption DEF Refs
  <2> SUFFICES ASSUME NEW n \in Modes, NEW q \in Refs
               PROVE  /\ feature'[n][q].on => feature'[n][q].primary = NoCall
                      /\ feature'[n][q].primary # NoCall => ~ calls'[q].conf
                      /\ n = "conference" /\ feature'[n][q].on => ~ calls'[q].conf
                      /\ feature'[n][q].consult \in live' =>
                           feature'[n][q].digits # NoDigits
                      /\ feature'[n][q].consult # q
    BY DEF LegsAreLeaves
  <2>2. calls'[q].conf => calls[q].conf
    BY <1>7, <1>10, <1>11
  <2>3. CASE n = m /\ q = r
    BY <2>1, <2>2, <2>3, <1>1, <1>5, <1>9, <1>12 DEF SafeInv, LegsAreLeaves
  <2>4. CASE n = m /\ q = k
    BY <2>1, <2>4, <1>1, <1>2, <1>6, <1>7, <1>9, <1>10, <1>12, <1>15
  <2>5. CASE n # m \/ q \notin {r, k}
    <3>1. feature'[n][q] = feature[n][q]
      BY <2>5, <1>12
    <3>2. feature[n][q].consult \in live' => feature[n][q].consult \in live
      BY <1>2, <1>9
    <3> QED
      BY <2>2, <3>1, <3>2 DEF SafeInv, LegsAreLeaves
  <2> QED
    BY <2>3, <2>4, <2>5
<1>21. ConsultLinked'
  <2>1. NoCall \notin live'
    BY <1>1, <1>2, <1>15, HubAssumption DEF Refs
  <2>2. \A q \in Refs \ {k} : calls'[q].caller = calls[q].caller
    BY <1>10, <1>11
  <2> SUFFICES ASSUME NEW n \in Modes, NEW x \in live', NEW y \in live'
               PROVE  /\ feature'[n][x].consult = y <=> feature'[n][y].primary = x
                      /\ feature'[n][x].consult = y =>
                           feature'[n][x].on /\ feature'[n][x].by = calls'[y].caller
    BY DEF ConsultLinked
  <2>3. x \in Refs /\ y \in Refs
    BY <1>1, <1>2, <1>15
  <2>4. \A z \in Refs : feature'[n][z].consult =
            IF n = m /\ z = r THEN k ELSE feature[n][z].consult
    BY <1>1, <1>5, <1>6, <1>9, <1>12, <1>15
  <2>5. \A z \in Refs : feature'[n][z].primary =
            IF n = m /\ z = k THEN r ELSE feature[n][z].primary
    BY <1>1, <1>5, <1>6, <1>9, <1>12, <1>15
  <2>6. \A z \in Refs : /\ feature'[n][z].on <=> feature[n][z].on
                        /\ feature'[n][z].by = feature[n][z].by
    BY <1>1, <1>5, <1>6, <1>9, <1>12, <1>15
  <2>7. CASE y = k
    BY <2>1, <2>3, <2>4, <2>5, <2>6, <2>7, <1>1, <1>7, <1>9, <1>10
  <2>8. CASE y # k /\ x = k
    BY <2>1, <2>3, <2>4, <2>5, <2>8, <1>1, <1>9
  <2>9. CASE y # k /\ x # k
    <3>1. x \in live /\ y \in live
      BY <2>9, <1>2
    <3>2. x = r /\ n = m => feature[n][y].primary # r
      BY <3>1, <1>1, <1>3, <2>1, <1>2 DEF SafeInv, ConsultLinked
    <3> QED
      BY <2>2, <2>3, <2>4, <2>5, <2>6, <2>9, <3>1, <3>2 DEF SafeInv, ConsultLinked
  <2> QED
    BY <2>7, <2>8, <2>9
<1>22. FeatureByParty'
  <2> SUFFICES ASSUME NEW n \in Modes, NEW q \in live', feature'[n][q].on
               PROVE  feature'[n][q].by \in Parties(calls'[q])
    BY DEF FeatureByParty
  <2>1. q # k
    BY <1>1, <1>6, <1>9, <1>12, <1>15 DEF SafeInv, FreshUnused, k, Refs
  <2>2. q \in live /\ q \in Refs
    BY <2>1, <1>2, <1>15
  <2>3. feature[n][q].on /\ feature'[n][q].by = feature[n][q].by
    BY <2>1, <2>2, <1>1, <1>5, <1>12
  <2> QED
    BY <2>1, <2>2, <2>3, <1>13 DEF SafeInv, FeatureByParty
<1> QED
  BY <1>16, <1>17, <1>18, <1>19, <1>20, <1>21, <1>22 DEF SafeInv

(* What switching mode m off on p, and forgetting the legs in K, does.      *)
LEMMA FeatureOffFields ==
  ASSUME TypeOK, NEW m \in Modes, NEW p \in Refs, NEW K,
         feature' = FeatureOff(m, p, K)
  PROVE  \A n \in Modes, q \in Refs :
           /\ feature'[n][q].primary = feature[n][q].primary
           /\ feature'[n][q].consult =
                IF q = p /\ feature[n][q].consult \in K THEN NoCall
                ELSE feature[n][q].consult
           /\ feature'[n][q].on <=> feature[n][q].on /\ ~ (n = m /\ q = p)
           /\ n # m \/ q # p => /\ feature'[n][q].by = feature[n][q].by
                                /\ feature'[n][q].digits = feature[n][q].digits
<1> TAKE n \in Modes, q \in Refs
<1> DEFINE f == feature[n][q]
<1>1. f \in Feature
  BY DEF TypeOK
<1>2. /\ Forgotten(f, K) \in Feature
      /\ Forgotten(f, K).primary = f.primary
      /\ Forgotten(f, K).consult = IF f.consult \in K THEN NoCall ELSE f.consult
      /\ Forgotten(f, K).on = f.on /\ Forgotten(f, K).by = f.by
      /\ Forgotten(f, K).digits = f.digits
  <2> HIDE DEF f
  <2> QED
    BY <1>1 DEF Forgotten, Feature
<1>3. \A x \in Feature : /\ SwitchedOff(x).primary = x.primary
                         /\ SwitchedOff(x).consult = x.consult
                         /\ ~ SwitchedOff(x).on
  BY DEF SwitchedOff, Feature
<1>4. feature'[n][q] = IF q = p
                       THEN IF n = m THEN SwitchedOff(Forgotten(f, K))
                            ELSE Forgotten(f, K)
                       ELSE f
  BY DEF FeatureOff, TypeOK
<1> HIDE DEF f
<1>5. /\ feature'[n][q].primary = f.primary
      /\ feature'[n][q].consult = IF q = p /\ f.consult \in K THEN NoCall ELSE f.consult
      /\ feature'[n][q].on <=> f.on /\ ~ (n = m /\ q = p)
      /\ n # m \/ q # p => feature'[n][q].by = f.by /\ feature'[n][q].digits = f.digits
  BY <1>2, <1>3, <1>4
<1> QED
  BY <1>5 DEF f

(* Ending the live legs of a call with the feature keeps the links between  *)
(* the other primaries and their legs, whatever becomes of the call itself. *)
LEMMA FeatureOffSafe ==
  ASSUME SafeInv, OneFeature, NEW m \in Modes, NEW p \in live, NEW K,
         feature[m][p].on,
         feature' = FeatureOff(m, p, K), live' = live \ K, nextRef' = nextRef,
         feature[m][p].consult \in live => feature[m][p].consult \in K,
         \A q \in Refs \ {p} : /\ Parties(calls'[q]) = Parties(calls[q])
                               /\ calls'[q].caller = calls[q].caller
                               /\ calls'[q].conf = calls[q].conf,
         \A q \in Refs : calls[q].state = "idle" => calls'[q].state = "idle"
  PROVE  (FreshUnused /\ UnofferedIsOff /\ LegsAreLeaves /\ ConsultLinked
            /\ FeatureByParty)'
<1>1. p \in Refs /\ live \subseteq Refs /\ NoCall \notin Refs /\ live' \subseteq live
  <2>1. NoCall \notin Refs
    BY HubAssumption DEF Refs
  <2>2. live \subseteq Refs
    BY DEF SafeInv, TypeOK
  <2>3. live' \subseteq live
    OBVIOUS
  <2> QED
    BY <2>1, <2>2, <2>3
<1>2. \A n \in Modes, q \in Refs :
        /\ feature'[n][q].primary = feature[n][q].primary
        /\ feature'[n][q].consult =
             IF q = p /\ feature[n][q].consult \in K THEN NoCall
             ELSE feature[n][q].consult
        /\ feature'[n][q].on <=> feature[n][q].on /\ ~ (n = m /\ q = p)
        /\ n # m \/ q # p => /\ feature'[n][q].by = feature[n][q].by
                             /\ feature'[n][q].digits = feature[n][q].digits
  BY <1>1, FeatureOffFields DEF SafeInv
<1>3. /\ m \in Offered /\ feature[m][p].primary = NoCall
      /\ \A n \in Modes \ {m}, q \in Refs : /\ ~ feature[n][q].on
                                            /\ feature[n][q].consult = NoCall
                                            /\ feature[n][q].primary = NoCall
  <2>1. m \in Offered
    BY <1>1 DEF SafeInv, UnofferedIsOff
  <2>2. \A n \in Modes \ {m} : n \notin Offered
    BY <2>1, HubAssumption DEF OneFeature, Modes
  <2> QED
    BY <1>1, <2>1, <2>2 DEF SafeInv, UnofferedIsOff, LegsAreLeaves
<1>4. FreshUnused'
  BY <1>1, <1>2, HubAssumption DEF SafeInv, FreshUnused, Refs
<1>5. UnofferedIsOff'
  BY <1>2 DEF SafeInv, UnofferedIsOff
<1>6. LegsAreLeaves'
  <2> SUFFICES ASSUME NEW n \in Modes, NEW q \in Refs
               PROVE  /\ feature'[n][q].on => feature'[n][q].primary = NoCall
                      /\ feature'[n][q].primary # NoCall => ~ calls'[q].conf
                      /\ n = "conference" /\ feature'[n][q].on => ~ calls'[q].conf
                      /\ feature'[n][q].consult \in live' =>
                           feature'[n][q].digits # NoDigits
                      /\ feature'[n][q].consult # q
    BY DEF LegsAreLeaves
  <2>1. CASE q # p
    BY <2>1, <1>1, <1>2 DEF SafeInv, LegsAreLeaves
  <2>2. CASE q = p /\ n = m
    BY <2>2, <1>1, <1>2, <1>3 DEF SafeInv, LegsAreLeaves
  <2>3. CASE q = p /\ n # m
    BY <2>3, <1>1, <1>2, <1>3
  <2> QED
    BY <2>1, <2>2, <2>3
<1>7. ConsultLinked'
  <2> SUFFICES ASSUME NEW n \in Modes, NEW x \in live', NEW y \in live'
               PROVE  /\ feature'[n][x].consult = y <=> feature'[n][y].primary = x
                      /\ feature'[n][x].consult = y =>
                           feature'[n][x].on /\ feature'[n][x].by = calls'[y].caller
    BY DEF ConsultLinked
  <2>1. x \in Refs /\ y \in Refs /\ x \in live /\ y \in live /\ y \notin K
    BY <1>1
  <2>2. CASE n # m
    BY <2>1, <2>2, <1>1, <1>2, <1>3
  <2>3. CASE n = m /\ x = p
    BY <2>1, <2>3, <1>1, <1>2 DEF SafeInv, ConsultLinked
  <2>4. CASE n = m /\ x # p
    BY <2>1, <2>4, <1>1, <1>2, <1>3 DEF SafeInv, ConsultLinked
  <2> QED
    BY <2>2, <2>3, <2>4
<1>8. FeatureByParty'
  BY <1>1, <1>2, <1>3 DEF SafeInv, FeatureByParty
<1> QED
  BY <1>4, <1>5, <1>6, <1>7, <1>8

(* Cancelling a transfer that has no digits: it has no live leg either.     *)
LEMMA CancelSafe ==
  ASSUME SafeInv, TypeOK', OneFeature, NEW p \in live, CancelTransfer(p)
  PROVE  SafeInv'
<1> DEFINE m == "transfer"
<1>1. /\ m \in Modes /\ feature[m][p].on /\ feature[m][p].digits = NoDigits
      /\ feature' = FeatureOff(m, p, {})
      /\ UNCHANGED <<calls, live, active, media, nextRef>>
  BY DEF CancelTransfer, Modes
<1>2. feature[m][p].consult \notin live
  BY <1>1 DEF SafeInv, TypeOK, LegsAreLeaves
<1> HIDE DEF m
<1>3. (FreshUnused /\ UnofferedIsOff /\ LegsAreLeaves /\ ConsultLinked
         /\ FeatureByParty)'
  BY <1>1, <1>2, FeatureOffSafe
<1> QED
  BY <1>1, <1>3, FeatureStep

(* The shape of a primary call and its live leg when the leg's caller is    *)
(* the phone that started the feature.                                      *)
Consulting(m, p, k, s) ==
  /\ p \in live /\ k \in live
  /\ feature[m][p].consult = k
  /\ s = calls[k].caller

LEMMA ConsultingShape ==
  ASSUME SafeInv, NEW m \in Modes, NEW p, NEW k, NEW s \in Phones,
         Consulting(m, p, k, s)
  PROVE  /\ p \in Refs /\ k \in Refs /\ p # k
         /\ feature[m][p].on /\ feature[m][p].by = s
         /\ s \in Parties(calls[p])
         /\ Parties(calls[k]) = {s, calls[k].callee} \ {NoPhone}
<1>1. p \in Refs /\ k \in Refs
  BY DEF Consulting, SafeInv, TypeOK
<1>2. /\ feature[m][p].on /\ feature[m][p].by = s /\ feature[m][k].primary = p
      /\ p # k
  BY <1>1 DEF Consulting, SafeInv, ConsultLinked, LegsAreLeaves
<1>3. s \in Parties(calls[p])
  BY <1>2 DEF Consulting, SafeInv, FeatureByParty
<1>4. p # NoCall
  BY <1>1, HubAssumption DEF Refs
<1>5. calls[k].third = NoPhone
  BY <1>1, <1>2, <1>4 DEF SafeInv, LegsAreLeaves, ThirdIsConference
<1> QED
  BY <1>1, <1>2, <1>3, <1>5 DEF Parties, Consulting

(* A call with a feature under way is between two phones only.              *)
LEMMA PrimaryHasTwo ==
  ASSUME SafeInv, OneFeature, NEW m \in Modes, NEW p \in Refs, feature[m][p].on
  PROVE  calls[p].third = NoPhone /\ ~ calls[p].conf
<1>1. CASE m = "conference"
  BY <1>1 DEF SafeInv, LegsAreLeaves, ThirdIsConference
<1>2. CASE m = "transfer"
  <2>1. m \in Offered
    BY DEF SafeInv, UnofferedIsOff
  <2>2. "conference" \notin Offered
    BY <1>2, <2>1, HubAssumption DEF OneFeature, Modes
  <2> QED
    BY <2>2 DEF SafeInv, ThirdIsConference
<1> QED
  BY <1>1, <1>2 DEF Modes

(* A consulted transfer: the only phones with the primary or the leg in     *)
(* focus are the initiator, the remaining party and the target.             *)
LEMMA CompleteTransferSafe ==
  ASSUME SafeInv, TypeOK', OneFeature, NEW p, NEW k, NEW s \in Phones,
         Consulting("transfer", p, k, s), CompleteTransfer(p, k, s)
  PROVE  SafeInv'
<1> DEFINE m == "transfer"
           remaining == Other(calls[p], s)
           target == calls[k].callee
           over == [calls[k] EXCEPT !.state = "ended", !.ports = {}]
           joined(c) == [c EXCEPT !.caller = remaining, !.callee = target,
                                  !.state = "connected", !.dialed = target,
                                  !.ivr = FALSE, !.menu = FALSE,
                                  !.heldBy = NoPhone, !.ports = {}]
<1>1. /\ p \in Refs /\ k \in Refs /\ p # k /\ m \in Modes
      /\ feature[m][p].on /\ s \in Parties(calls[p])
      /\ Parties(calls[k]) = {s, target} \ {NoPhone}
  BY ConsultingShape DEF Modes
<1>2. calls[p].third = NoPhone /\ ~ calls[p].conf
  BY <1>1, PrimaryHasTwo
<1>3. /\ target \notin {NoPhone, s} /\ remaining \notin {NoPhone, s}
      /\ calls' = [calls EXCEPT ![k] = over, ![p] = joined(@)]
      /\ live' = live \ {k}
      /\ active' = [active EXCEPT ![s] = NoCall, ![remaining] = p, ![target] = p]
      /\ media' = media \ {p, k} /\ nextRef' = nextRef
      /\ feature' = FeatureOff(m, p, {k})
  BY DEF CompleteTransfer, Consulting, StopMedia
<1>4. Parties(calls[p]) = {s, remaining}
  BY <1>1, <1>2, <1>3 DEF Parties, Other
<1>5. remaining \in Phones /\ target \in Phones
  BY <1>1, <1>3 DEF SafeInv, TypeOK, Call, Other
<1>6. /\ over.caller = calls[k].caller /\ over.callee = calls[k].callee
      /\ over.third = calls[k].third /\ over.conf = calls[k].conf
      /\ over.state = "ended"
  BY <1>1 DEF SafeInv, TypeOK, Call
<1>7. \A c \in Call : /\ joined(c).caller = remaining /\ joined(c).callee = target
                      /\ joined(c).third = c.third /\ joined(c).conf = c.conf
                      /\ joined(c).state = "connected"
  <2> HIDE DEF remaining, target
  <2> QED
    BY DEF Call
<1>8. /\ p \in live /\ k \in live /\ live \subseteq Refs
      /\ feature[m][p].consult = k
      /\ calls \in [Refs -> Call]
      /\ active \in [Phones -> Refs \cup {NoCall}]
  BY DEF Consulting, SafeInv, TypeOK
<1> HIDE DEF m, remaining, target, over, joined
<1>9. /\ calls'[k] = over /\ calls'[p] = joined(calls[p])
      /\ \A q \in Refs \ {p, k} : calls'[q] = calls[q]
  BY <1>1, <1>3, <1>8
<1>10. /\ Parties(calls'[p]) = {remaining, target}
       /\ \A q \in Refs \ {p} : Parties(calls'[q]) = Parties(calls[q])
  BY <1>1, <1>2, <1>3, <1>6, <1>7, <1>8, <1>9 DEF Parties
<1>11. (FocusIsLive /\ FocusIsMine)'
  <2> SUFFICES ASSUME NEW q \in Phones, active'[q] # NoCall
               PROVE  active'[q] \in live' /\ q \in Parties(calls'[active'[q]])
    BY DEF FocusIsLive, FocusIsMine
  <2>1. CASE q \in {remaining, target}
    <3>1. active'[q] = p
      BY <2>1, <1>3, <1>5, <1>8
    <3> QED
      BY <2>1, <3>1, <1>1, <1>3, <1>8, <1>10
  <2>2. CASE q \notin {remaining, target}
    <3>1. q # s /\ active'[q] = active[q]
      BY <2>2, <1>3, <1>5, <1>8
    <3>2. active[q] \in live /\ q \in Parties(calls[active[q]])
      BY <3>1 DEF SafeInv, FocusIsLive, FocusIsMine
    <3>3. active[q] \notin {p, k}
      BY <2>2, <3>1, <3>2, <1>1, <1>4
    <3> QED
      BY <3>1, <3>2, <3>3, <1>3, <1>8, <1>10
  <2> QED
    BY <2>1, <2>2
<1>12. TableMatchesState'
  BY <1>1, <1>3, <1>6, <1>7, <1>8, <1>9 DEF SafeInv, TableMatchesState
<1>13. DialingIsAlone' /\ ThirdIsConference'
  BY <1>1, <1>6, <1>7, <1>8, <1>9 DEF SafeInv, DialingIsAlone, ThirdIsConference
<1>14. MediaOnlyWhileLive'
  BY <1>3 DEF SafeInv, MediaOnlyWhileLive
<1>15. \A q \in Refs \ {p} : /\ calls'[q].caller = calls[q].caller
                             /\ calls'[q].conf = calls[q].conf
  BY <1>6, <1>9
<1>16. \A q \in Refs : calls[q].state = "idle" => calls'[q].state = "idle"
  BY <1>8, <1>9 DEF SafeInv, TableMatchesState
<1>17. (FreshUnused /\ UnofferedIsOff /\ LegsAreLeaves /\ ConsultLinked
          /\ FeatureByParty)'
  BY <1>1, <1>3, <1>8, <1>10, <1>15, <1>16, FeatureOffSafe
<1> QED
  BY <1>11, <1>12, <1>13, <1>14, <1>17 DEF SafeInv

(* A conference: both phones of the primary and the newcomer turn to it.    *)
LEMMA CompleteConferenceSafe ==
  ASSUME SafeInv, TypeOK', OneFeature, NEW p, NEW k, NEW s \in Phones,
         Consulting("conference", p, k, s), CompleteConference(p, k, s)
  PROVE  SafeInv'
<1> DEFINE m == "conference"
           held == Other(calls[p], s)
           newcomer == calls[k].callee
           over == [calls[k] EXCEPT !.state = "ended", !.ports = {}]
           joined(c) == [c EXCEPT !.conf = TRUE, !.third = newcomer,
                                  !.state = "connected", !.heldBy = NoPhone,
                                  !.ports = {}]
<1>1. /\ p \in Refs /\ k \in Refs /\ p # k /\ m \in Modes
      /\ feature[m][p].on /\ s \in Parties(calls[p])
      /\ Parties(calls[k]) = {s, newcomer} \ {NoPhone}
  BY ConsultingShape DEF Modes
<1>2. calls[p].third = NoPhone /\ ~ calls[p].conf
  BY <1>1, PrimaryHasTwo
<1>3. /\ newcomer \notin {NoPhone, s} /\ held \notin {NoPhone, s}
      /\ calls' = [calls EXCEPT ![k] = over, ![p] = joined(@)]
      /\ live' = live \ {k}
      /\ active' = [active EXCEPT ![s] = p, ![held] = p, ![newcomer] = p]
      /\ media' = media \ {p, k} /\ nextRef' = nextRef
      /\ feature' = FeatureOff(m, p, {k})
  BY DEF CompleteConference, Consulting, StopMedia
<1>4. Parties(calls[p]) = {s, held}
  BY <1>1, <1>2, <1>3 DEF Parties, Other
<1>5. held \in Phones /\ newcomer \in Phones
  BY <1>1, <1>3 DEF SafeInv, TypeOK, Call, Other
<1>6. /\ over.caller = calls[k].caller /\ over.callee = calls[k].callee
      /\ over.third = calls[k].third /\ over.conf = calls[k].conf
      /\ over.state = "ended"
  BY <1>1 DEF SafeInv, TypeOK, Call
<1>7. \A c \in Call : /\ joined(c).caller = c.caller /\ joined(c).callee = c.callee
                      /\ joined(c).third = newcomer /\ joined(c).conf = TRUE
                      /\ joined(c).state = "connected"
  <2> HIDE DEF newcomer
  <2> QED
    BY DEF Call
<1>8. /\ p \in live /\ k \in live /\ live \subseteq Refs
      /\ feature[m][p].consult = k
      /\ calls \in [Refs -> Call]
      /\ active \in [Phones -> Refs \cup {NoCall}]
  BY DEF Consulting, SafeInv, TypeOK
<1>9. "conference" \in Offered
  BY <1>1 DEF SafeInv, UnofferedIsOff
<1> HIDE DEF m, held, newcomer, over, joined
<1>10. /\ calls'[k] = over /\ calls'[p] = joined(calls[p])
       /\ \A q \in Refs \ {p, k} : calls'[q] = calls[q]
  BY <1>1, <1>3, <1>8
<1>11. \A q \in Refs \ {p} : Parties(calls'[q]) = Parties(calls[q])
  BY <1>1, <1>6, <1>10 DEF Parties
<1>12. {s, held, newcomer} \subseteq Parties(calls'[p])
  <2>1. /\ calls'[p].caller = calls[p].caller
        /\ calls'[p].callee = calls[p].callee
        /\ calls'[p].third = newcomer
    BY <1>1, <1>7, <1>8, <1>10
  <2> QED
    BY <2>1, <1>2, <1>3, <1>4 DEF Parties
<1>13. (FocusIsLive /\ FocusIsMine)'
  <2> SUFFICES ASSUME NEW q \in Phones, active'[q] # NoCall
               PROVE  active'[q] \in live' /\ q \in Parties(calls'[active'[q]])
    BY DEF FocusIsLive, FocusIsMine
  <2>1. CASE q \in {s, held, newcomer}
    <3>1. active'[q] = p
      BY <2>1, <1>3, <1>5, <1>8
    <3> QED
      BY <2>1, <3>1, <1>1, <1>3, <1>8, <1>12
  <2>2. CASE q \notin {s, held, newcomer}
    <3>1. active'[q] = active[q]
      BY <2>2, <1>3, <1>5, <1>8
    <3>2. active[q] \in live /\ q \in Parties(calls[active[q]])
      BY <3>1 DEF SafeInv, FocusIsLive, FocusIsMine
    <3>3. active[q] \notin {p, k}
      BY <2>2, <3>1, <3>2, <1>1, <1>4
    <3> QED
      BY <3>1, <3>2, <3>3, <1>3, <1>8, <1>11
  <2> QED
    BY <2>1, <2>2
<1>14. TableMatchesState'
  BY <1>1, <1>3, <1>6, <1>7, <1>8, <1>10 DEF SafeInv, TableMatchesState
<1>15. DialingIsAlone' /\ ThirdIsConference'
  BY <1>1, <1>6, <1>7, <1>8, <1>9, <1>10
     DEF SafeInv, DialingIsAlone, ThirdIsConference
<1>16. MediaOnlyWhileLive'
  BY <1>3 DEF SafeInv, MediaOnlyWhileLive
<1>17. \A q \in Refs \ {p} : /\ calls'[q].caller = calls[q].caller
                             /\ calls'[q].conf = calls[q].conf
  BY <1>6, <1>10
<1>18. \A q \in Refs : calls[q].state = "idle" => calls'[q].state = "idle"
  BY <1>8, <1>10 DEF SafeInv, TableMatchesState
<1>19. (FreshUnused /\ UnofferedIsOff /\ LegsAreLeaves /\ ConsultLinked
          /\ FeatureByParty)'
  BY <1>1, <1>3, <1>8, <1>11, <1>17, <1>18, FeatureOffSafe
<1> QED
  BY <1>13, <1>14, <1>15, <1>16, <1>19 DEF SafeInv

(* A cancelled consult leg: its two phones fall back to the primary, if     *)
(* they are in it, or to no call.                                           *)
LEMMA LegSafe ==
  ASSUME SafeInv, OneFeature, NEW m \in Modes, NEW p \in live, feature[m][p].on
  PROVE  LET K == ConsultOf(m, p) IN
         /\ p \notin K /\ K \in SUBSET Refs
         /\ \A q \in K : calls[q].third = NoPhone
         /\ \A q \in Refs :
              /\ q \notin K => LegCalls(K)[q] = calls[q]
              /\ q \in K => LegCalls(K)[q].state = "ended"
              /\ Parties(LegCalls(K)[q]) = Parties(calls[q])
              /\ LegCalls(K)[q].caller = calls[q].caller
              /\ LegCalls(K)[q].callee = calls[q].callee
              /\ LegCalls(K)[q].third = calls[q].third
              /\ LegCalls(K)[q].conf = calls[q].conf
         /\ \A q \in Phones :
              LegActive(p, K)[q] =
                IF active[q] \in K
                THEN IF q \in {calls[p].caller, calls[p].callee} THEN p ELSE NoCall
                ELSE active[q]
<1> DEFINE K == ConsultOf(m, p)
<1> DEFINE over(c) == [c EXCEPT !.state = "ended", !.ports = {}]
<1>1. /\ p \in Refs /\ K \in SUBSET Refs /\ K \subseteq live /\ p \notin K
      /\ \A q \in K : feature[m][p].consult = q
  BY DEF ConsultOf, SafeInv, TypeOK, LegsAreLeaves
<1> HIDE DEF K
<1>2. \A q \in K : calls[q].third = NoPhone
  <2> SUFFICES ASSUME NEW q \in K PROVE calls[q].third = NoPhone
    OBVIOUS
  <2>1. feature[m][q].primary = p /\ q \in Refs
    BY <1>1 DEF SafeInv, ConsultLinked
  <2>2. p # NoCall
    BY <1>1, HubAssumption DEF Refs
  <2> QED
    BY <2>1, <2>2 DEF SafeInv, LegsAreLeaves, ThirdIsConference
<1>3. \A c \in Call : /\ over(c).caller = c.caller /\ over(c).callee = c.callee
                      /\ over(c).third = c.third /\ over(c).conf = c.conf
                      /\ over(c).state = "ended"
  BY DEF Call
<1>4. \A q \in Refs : /\ q \in K => LegCalls(K)[q] = over(calls[q])
                      /\ q \notin K => LegCalls(K)[q] = calls[q]
  BY DEF LegCalls
<1>5. \A q \in Refs : calls[q] \in Call
  BY DEF SafeInv, TypeOK
<1> HIDE DEF over
<1>6. \A q \in Refs :
        /\ q \notin K => LegCalls(K)[q] = calls[q]
        /\ q \in K => LegCalls(K)[q].state = "ended"
        /\ LegCalls(K)[q].caller = calls[q].caller
        /\ LegCalls(K)[q].callee = calls[q].callee
        /\ LegCalls(K)[q].third = calls[q].third
        /\ LegCalls(K)[q].conf = calls[q].conf
  BY <1>3, <1>4, <1>5
<1>7. \A q \in Refs : Parties(LegCalls(K)[q]) = Parties(calls[q])
  BY <1>6 DEF Parties
<1>8. ASSUME NEW q \in Phones, active[q] \in K
      PROVE  q \in {calls[active[q]].caller, calls[active[q]].callee}
  <2>1. NoCall \notin Refs
    BY HubAssumption DEF Refs
  <2>2. active[q] # NoCall
    BY <1>1, <1>8, <2>1
  <2>3. q \in Parties(calls[active[q]])
    BY <2>2 DEF SafeInv, FocusIsMine
  <2> QED
    BY <2>3, <1>2, <1>8, HubAssumption DEF Parties
<1>9. \A q \in Phones :
        LegActive(p, K)[q] =
          IF active[q] \in K
          THEN IF q \in {calls[p].caller, calls[p].callee} THEN p ELSE NoCall
          ELSE active[q]
  BY <1>8 DEF LegActive
<1> QED
  BY <1>1, <1>2, <1>6, <1>7, <1>9 DEF K

(* An aborted conference: after the leg is gone at most a held call resumes. *)
LEMMA AbortSafe ==
  ASSUME SafeInv, TypeOK', OneFeature, NEW p \in live, AbortConference(p)
  PROVE  SafeInv'
<1> DEFINE m == "conference"
           holder == IF calls[p].heldBy # NoPhone THEN calls[p].heldBy
                     ELSE feature[m][p].by
           K == ConsultOf(m, p)
           cs == LegCalls(K)
           act == LegActive(p, K)
           r == act[holder]
           back(c) == Resumed(c)
<1>1. /\ feature[m][p].on /\ m \in Modes
      /\ \/ calls' = cs
         \/ cs[r].state = "held" /\ calls' = [cs EXCEPT ![r] = back(@)]
      /\ live' = live \ K /\ active' = act /\ media' = media \ K
      /\ feature' = FeatureOff(m, p, K) /\ nextRef' = nextRef
  BY DEF AbortConference, StopMedia, Modes
<1>2. /\ p \in Refs /\ live \subseteq Refs
      /\ \A q \in Refs : calls[q] \in Call
      /\ active \in [Phones -> Refs \cup {NoCall}]
  BY DEF SafeInv, TypeOK
<1>3. /\ cs \in [Refs -> Call] /\ act \in [Phones -> Refs \cup {NoCall}]
  <2>1. K \in SUBSET Refs
    BY <1>1, LegSafe
  <2> QED
    BY <1>2, <2>1, LegTyped DEF SafeInv, CallsType, ActiveType
<1>4. /\ p \notin K
      /\ \A q \in Refs :
           /\ q \notin K => cs[q] = calls[q]
           /\ q \in K => cs[q].state = "ended"
           /\ Parties(cs[q]) = Parties(calls[q])
           /\ cs[q].caller = calls[q].caller
           /\ cs[q].callee = calls[q].callee
           /\ cs[q].third = calls[q].third
           /\ cs[q].conf = calls[q].conf
      /\ \A q \in Phones :
           act[q] = IF active[q] \in K
                    THEN IF q \in {calls[p].caller, calls[p].callee} THEN p ELSE NoCall
                    ELSE active[q]
  BY <1>1, LegSafe
<1>5. \A c \in Call : /\ back(c).caller = c.caller /\ back(c).callee = c.callee
                      /\ back(c).third = c.third /\ back(c).conf = c.conf
                      /\ back(c).state = "connected"
  BY DEF Resumed, Call
<1>6. feature[m][p].consult \in live => feature[m][p].consult \in K
  BY DEF ConsultOf
<1> HIDE DEF m, K, cs, act, r, back
<1>7. \A q \in Refs :
        \/ calls'[q] = cs[q]
        \/ cs[q].state = "held" /\ calls'[q] = back(cs[q])
  BY <1>1, <1>3
<1>8. \A q \in Refs :
        /\ calls'[q].caller = calls[q].caller /\ calls'[q].callee = calls[q].callee
        /\ calls'[q].third = calls[q].third /\ calls'[q].conf = calls[q].conf
        /\ q \in K => calls'[q].state = "ended"
        /\ q \notin K => \/ calls'[q].state = calls[q].state
                         \/ calls[q].state = "held" /\ calls'[q].state = "connected"
  <2> SUFFICES ASSUME NEW q \in Refs
      PROVE  /\ calls'[q].caller = calls[q].caller
             /\ calls'[q].callee = calls[q].callee
             /\ calls'[q].third = calls[q].third /\ calls'[q].conf = calls[q].conf
             /\ q \in K => calls'[q].state = "ended"
             /\ q \notin K => \/ calls'[q].state = calls[q].state
                              \/ calls[q].state = "held" /\ calls'[q].state = "connected"
    OBVIOUS
  <2>1. CASE calls'[q] = cs[q]
    BY <2>1, <1>4
  <2>2. CASE cs[q].state = "held" /\ calls'[q] = back(cs[q])
    BY <2>2, <1>3, <1>4, <1>5
  <2> QED
    BY <2>1, <2>2, <1>7
<1>9. \A q \in Refs : Parties(calls'[q]) = Parties(calls[q])
  BY <1>8 DEF Parties
<1>10. (FocusIsLive /\ FocusIsMine)'
  <2> SUFFICES ASSUME NEW q \in Phones, active'[q] # NoCall
               PROVE  active'[q] \in live' /\ q \in Parties(calls'[active'[q]])
    BY DEF FocusIsLive, FocusIsMine
  <2>1. CASE active[q] \in K
    <3>1. active'[q] = p /\ q \in {calls[p].caller, calls[p].callee}
      BY <2>1, <1>1, <1>4
    <3> QED
      BY <3>1, <1>1, <1>2, <1>4, <1>9, HubAssumption DEF Parties
  <2>2. CASE active[q] \notin K
    <3>1. active'[q] = active[q]
      BY <2>2, <1>1, <1>4
    <3>2. active[q] \in live /\ q \in Parties(calls[active[q]])
      BY <3>1 DEF SafeInv, FocusIsLive, FocusIsMine
    <3> QED
      BY <2>2, <3>1, <3>2, <1>1, <1>2, <1>9
  <2> QED
    BY <2>1, <2>2
<1>11. TableMatchesState'
  BY <1>1, <1>2, <1>8 DEF SafeInv, TableMatchesState
<1>12. DialingIsAlone' /\ ThirdIsConference'
  BY <1>8 DEF SafeInv, DialingIsAlone, ThirdIsConference
<1>13. MediaOnlyWhileLive'
  BY <1>1 DEF SafeInv, MediaOnlyWhileLive
<1>14. \A q \in Refs : calls[q].state = "idle" => calls'[q].state = "idle"
  <2> SUFFICES ASSUME NEW q \in Refs, calls[q].state = "idle"
               PROVE  calls'[q].state = "idle"
    OBVIOUS
  <2>1. q \notin K
    BY <1>1 DEF SafeInv, TableMatchesState, K, ConsultOf
  <2> QED
    BY <2>1, <1>8
<1>15. (FreshUnused /\ UnofferedIsOff /\ LegsAreLeaves /\ ConsultLinked
          /\ FeatureByParty)'
  BY <1>1, <1>6, <1>8, <1>9, <1>14, FeatureOffSafe
<1> QED
  BY <1>10, <1>11, <1>12, <1>13, <1>15 DEF SafeInv

(* A blind transfer: the initiator leaves, the remaining party becomes the  *)
(* caller of the same call and dials the target on its own.                 *)
LEMMA BlindSafe ==
  ASSUME SafeInv, TypeOK', OneFeature, NEW p \in live, BlindTransfer(p)
  PROVE  SafeInv'
<1> DEFINE m == "transfer"
           f == feature[m][p]
           by == f.by
           remaining == Other(calls[p], by)
           K == ConsultOf(m, p)
           act == [LegActive(p, K) EXCEPT ![by] = NoCall, ![remaining] = p]
           c == [calls[p] EXCEPT
                   !.caller = remaining, !.callee = NoPhone,
                   !.dialed = f.digits, !.state = "dialing",
                   !.ivr = FALSE, !.menu = FALSE, !.ports = {}]
           e == Dialled(c, act)
<1>1. /\ f.on /\ remaining # NoPhone /\ m \in Modes
      /\ calls' = [LegCalls(K) EXCEPT ![p] = e]
      /\ active' = IF Rings(c, act) THEN [act EXCEPT ![c.dialed] = p] ELSE act
      /\ live' = live \ K /\ media' = media \ (K \cup {p})
      /\ feature' = FeatureOff(m, p, K) /\ nextRef' = nextRef
  BY DEF BlindTransfer, TryCompleteDial, StopMedia, Modes
<1>2. /\ p \in Refs /\ live \subseteq Refs /\ calls[p] \in Call /\ f \in Feature
      /\ active \in [Phones -> Refs \cup {NoCall}]
  BY DEF SafeInv, TypeOK, Modes
<1>3. by \in Parties(calls[p])
  BY <1>1 DEF SafeInv, FeatureByParty
<1>4. calls[p].third = NoPhone
  BY <1>1, <1>2, PrimaryHasTwo
<1>5. /\ by \in Phones /\ remaining \in Phones
      /\ Parties(calls[p]) = {by, remaining}
  BY <1>1, <1>2, <1>3, <1>4 DEF Parties, Other, Call
<1>6. /\ p \notin K /\ K \in SUBSET Refs
      /\ \A q \in Refs :
           /\ q \notin K => LegCalls(K)[q] = calls[q]
           /\ q \in K => LegCalls(K)[q].state = "ended"
           /\ Parties(LegCalls(K)[q]) = Parties(calls[q])
           /\ LegCalls(K)[q].caller = calls[q].caller
           /\ LegCalls(K)[q].callee = calls[q].callee
           /\ LegCalls(K)[q].third = calls[q].third
           /\ LegCalls(K)[q].conf = calls[q].conf
      /\ \A q \in Phones :
           LegActive(p, K)[q] =
             IF active[q] \in K
             THEN IF q \in {calls[p].caller, calls[p].callee} THEN p ELSE NoCall
             ELSE active[q]
  BY <1>1, LegSafe
<1>7. LegCalls(K) \in [Refs -> Call] /\ LegActive(p, K) \in [Phones -> Refs \cup {NoCall}]
  BY <1>2, <1>6, LegTyped DEF SafeInv, CallsType, ActiveType
<1>8. f.digits \in Dialed
  BY <1>2 DEF Feature
<1>9. /\ c.caller = remaining /\ c.callee = NoPhone /\ c.third = NoPhone
      /\ c.conf = calls[p].conf /\ c.state = "dialing" /\ c \in Call
  <2> HIDE DEF f, remaining
  <2> QED
    BY <1>2, <1>4, <1>5, <1>8 DEF Call, States
<1>10. act \in ActiveType
  <2> HIDE DEF K, by, remaining
  <2> QED
    BY <1>2, <1>5, <1>7 DEF ActiveType
<1>11. /\ e.caller = remaining /\ e.third = NoPhone /\ e.conf = calls[p].conf
       /\ e.state \in {"dialing", "ringing"}
       /\ Rings(c, act) => e.callee = c.dialed /\ e.state = "ringing"
       /\ ~ Rings(c, act) => e.callee = NoPhone
  <2> HIDE DEF c, act, remaining
  <2> QED
    BY <1>9, <1>10, DialledFields
<1>12. \A q \in Phones : act[q] =
         IF q = remaining THEN p ELSE IF q = by THEN NoCall ELSE LegActive(p, K)[q]
  <2> HIDE DEF K, by, remaining
  <2> QED
    BY <1>5, <1>7
<1>13. feature[m][p].consult \in live => feature[m][p].consult \in K
  BY DEF ConsultOf
<1>14. Rings(c, act) => c.dialed \in Phones
  BY DEF Rings
<1>15. K \subseteq live
  BY DEF ConsultOf
<1> HIDE DEF m, f, by, remaining, K, act, c, e
<1>16. /\ calls'[p] = e
       /\ \A q \in Refs \ {p} : calls'[q] = LegCalls(K)[q]
  BY <1>1, <1>2, <1>7
<1>17. /\ remaining \in Parties(calls'[p])
       /\ Rings(c, act) => c.dialed \in Parties(calls'[p])
       /\ \A q \in Refs \ {p} : Parties(calls'[q]) = Parties(calls[q])
  <2>1. remaining \in Parties(e)
    BY <1>1, <1>11 DEF Parties
  <2>2. Rings(c, act) => c.dialed \in Parties(e)
    BY <1>11, <1>14, HubAssumption DEF Parties
  <2>3. \A q \in Refs \ {p} : Parties(calls'[q]) = Parties(calls[q])
    BY <1>6, <1>16
  <2> QED
    BY <2>1, <2>2, <2>3, <1>16
<1>18. (FocusIsLive /\ FocusIsMine)'
  <2> SUFFICES ASSUME NEW q \in Phones, active'[q] # NoCall
               PROVE  active'[q] \in live' /\ q \in Parties(calls'[active'[q]])
    BY DEF FocusIsLive, FocusIsMine
  <2>1. p \in live'
    BY <1>1, <1>6
  <2>2. CASE q = remaining \/ (Rings(c, act) /\ q = c.dialed)
    <3>1. active'[q] = p
      BY <2>2, <1>1, <1>10, <1>12, <1>14 DEF ActiveType
    <3> QED
      BY <2>1, <2>2, <3>1, <1>17
  <2>3. CASE ~ (q = remaining \/ (Rings(c, act) /\ q = c.dialed))
    <3>1. active'[q] = act[q]
      BY <2>3, <1>1, <1>10, <1>14 DEF ActiveType
    <3>2. q # by /\ act[q] = LegActive(p, K)[q]
      BY <2>3, <3>1, <1>12
    <3>3. q \notin Parties(calls[p])
      BY <2>3, <3>2, <1>5
    <3>4. q \notin {calls[p].caller, calls[p].callee}
      BY <3>3, HubAssumption DEF Parties
    <3>5. active[q] \notin K /\ active'[q] = active[q]
      BY <3>1, <3>2, <3>4, <1>6
    <3>6. active[q] \in live /\ q \in Parties(calls[active[q]])
      BY <3>5 DEF SafeInv, FocusIsLive, FocusIsMine
    <3>7. active[q] # p
      BY <3>3, <3>6
    <3> QED
      BY <3>5, <3>6, <3>7, <1>1, <1>2, <1>17
  <2> QED
    BY <2>2, <2>3
<1>19. \A q \in Refs \ {p} :
         /\ calls'[q].caller = calls[q].caller /\ calls'[q].callee = calls[q].callee
         /\ calls'[q].third = calls[q].third /\ calls'[q].conf = calls[q].conf
         /\ q \in K => calls'[q].state = "ended"
         /\ q \notin K => calls'[q].state = calls[q].state
  BY <1>6, <1>16
<1>20. TableMatchesState'
  <2> SUFFICES ASSUME NEW q \in Refs
               PROVE  q \in live' <=> calls'[q].state \notin {"idle", "ended"}
    BY DEF TableMatchesState
  <2>1. CASE q = p
    BY <2>1, <1>1, <1>6, <1>11, <1>16
  <2>2. CASE q # p
    BY <2>2, <1>1, <1>19 DEF SafeInv, TableMatchesState
  <2> QED
    BY <2>1, <2>2
<1>21. DialingIsAlone' /\ ThirdIsConference'
  <2> SUFFICES ASSUME NEW q \in Refs
      PROVE  /\ calls'[q].state \in {"idle", "dialing"} => calls'[q].callee = NoPhone
             /\ calls'[q].third # NoPhone => calls'[q].conf
             /\ calls'[q].conf => "conference" \in Offered
    BY DEF DialingIsAlone, ThirdIsConference
  <2>1. CASE q = p
    BY <2>1, <1>11, <1>16 DEF SafeInv, ThirdIsConference
  <2>2. CASE q # p
    BY <2>2, <1>19 DEF SafeInv, DialingIsAlone, ThirdIsConference
  <2> QED
    BY <2>1, <2>2
<1>22. MediaOnlyWhileLive'
  BY <1>1 DEF SafeInv, MediaOnlyWhileLive
<1>23. \A q \in Refs : calls[q].state = "idle" => calls'[q].state = "idle"
  <2> SUFFICES ASSUME NEW q \in Refs, calls[q].state = "idle"
               PROVE  calls'[q].state = "idle"
    OBVIOUS
  <2>1. q \notin live
    BY DEF SafeInv, TableMatchesState
  <2> QED
    BY <2>1, <1>15, <1>19
<1>24. (FreshUnused /\ UnofferedIsOff /\ LegsAreLeaves /\ ConsultLinked
          /\ FeatureByParty)'
  BY <1>1, <1>13, <1>17, <1>19, <1>23, FeatureOffSafe DEF f
<1> QED
  BY <1>18, <1>20, <1>21, <1>22, <1>24 DEF SafeInv

-----------------------------------------------------------------------------
(* Finishing a transfer or a conference, by softkey or by "#" *)

LEMMA CompleteSafe ==
  ASSUME SafeInv, TypeOK', OneFeature, NEW m \in Modes, NEW p, NEW k,
         NEW s \in Phones, Consulting(m, p, k, s), Complete(m, p, k, s)
  PROVE  SafeInv'
<1>1. CASE m = "transfer"
  BY <1>1, CompleteTransferSafe DEF Complete
<1>2. CASE m = "conference"
  BY <1>2, CompleteConferenceSafe DEF Complete
<1> QED
  BY <1>1, <1>2 DEF Modes

LEMMA GiveUpSafe ==
  ASSUME SafeInv, TypeOK', OneFeature, NEW m \in Modes, NEW p \in live, GiveUp(m, p)
  PROVE  SafeInv'
<1>1. CASE m = "transfer"
  BY <1>1, CancelSafe, BlindSafe DEF GiveUp
<1>2. CASE m = "conference"
  BY <1>2, AbortSafe DEF GiveUp
<1> QED
  BY <1>1, <1>2 DEF Modes

LEMMA FinishSafe ==
  ASSUME SafeInv, TypeOK', OneFeature, NEW m \in Modes, NEW p \in live,
         NEW s \in Phones, feature[m][p].by = s, Finish(m, p, s)
  PROVE  SafeInv'
<1> DEFINE k == feature[m][p].consult
<1>1. CASE IsConnected(k)
  <2>1. k \in live
    BY <1>1 DEF IsConnected
  <2>2. Consulting(m, p, k, s)
    BY <2>1 DEF Consulting, SafeInv, ConsultLinked
  <2>3. Complete(m, p, k, s)
    BY <1>1 DEF Finish
  <2> QED
    BY <2>2, <2>3, CompleteSafe
<1>2. CASE ~ IsConnected(k)
  BY <1>2, GiveUpSafe DEF Finish
<1> QED
  BY <1>1, <1>2

LEMMA FeatureHashSafe ==
  ASSUME SafeInv, TypeOK', OneFeature, NEW p \in Phones, FeatureHash(p)
  PROVE  SafeInv'
<1> DEFINE r == active[p]
           m == FeatureMode(r)
<1>1. r \in live /\ m \in Modes
  BY DEF FeatureHash, Entering, FeatureMode, Modes, SafeInv, FocusIsLive
<1>2. feature[m][r].by = p /\ Finish(m, r, p)
  BY DEF FeatureHash, Entering
<1> QED
  BY <1>1, <1>2, FinishSafe

(* The Transfer or Confrn softkey acts on a consult leg, on the primary of  *)
(* one that is still ringing, on its own primary, or begins anew.           *)
LEMMA FeatureKeySafe ==
  ASSUME SafeInv, TypeOK', OneFeature, NEW m \in Offered, NEW r \in Refs,
         NEW p \in Phones, FeatureKey(m, p, r)
  PROVE  SafeInv'
<1> DEFINE prim == feature[m][r].primary
<1>1. m \in Modes
  BY HubAssumption DEF Modes
<1>2. r \in live /\ p \in Parties(calls[r])
  <2>1. r \in ({active[p]} \ {NoCall}) \cup CallsOf(p, live)
    BY DEF FeatureKey, Targets
  <2>2. CASE r = active[p] /\ r # NoCall
    BY <2>2 DEF SafeInv, FocusIsLive, FocusIsMine
  <2>3. CASE r \in CallsOf(p, live)
    BY <2>3 DEF CallsOf
  <2> QED
    BY <2>1, <2>2, <2>3
<1>3. CASE prim \in live /\ calls[r].state = "connected" /\ Complete(m, prim, r, p)
  <2>1. calls[r].callee # p
    <3>1. CASE m = "transfer"
      BY <1>3, <3>1 DEF Complete, CompleteTransfer
    <3>2. CASE m # "transfer"
      BY <1>3, <3>2 DEF Complete, CompleteConference
    <3> QED
      BY <3>1, <3>2
  <2>2. calls[r].third = NoPhone
    <3>1. NoCall \notin Refs /\ live \subseteq Refs
      BY HubAssumption DEF Refs, SafeInv, TypeOK
    <3>2. prim # NoCall
      BY <1>3, <3>1
    <3> QED
      BY <1>1, <3>2 DEF SafeInv, LegsAreLeaves, ThirdIsConference
  <2>3. calls[r].caller = p
    BY <1>2, <2>1, <2>2, HubAssumption DEF Parties
  <2>4. feature[m][prim].consult = r
    BY <1>1, <1>2, <1>3 DEF SafeInv, ConsultLinked
  <2>5. Consulting(m, prim, r, p)
    BY <1>2, <1>3, <2>3, <2>4 DEF Consulting
  <2> QED
    BY <1>1, <1>3, <2>5, CompleteSafe
<1>4. CASE prim \in live /\ GiveUp(m, prim)
  BY <1>1, <1>4, GiveUpSafe
<1>5. CASE feature[m][r].by = p /\ Finish(m, r, p)
  BY <1>1, <1>2, <1>5, FinishSafe
<1>6. CASE /\ prim = NoCall /\ BeginFeature(m, r, p)
           /\ ~ (~ calls[r].ivr /\ feature[m][r].on)
  <2>1. ~ calls[r].ivr /\ r \in Targets(m, p)
    BY <1>6 DEF BeginFeature, FeatureKey
  <2> QED
    BY <1>6, <2>1, BeginSafe
<1> QED
  BY <1>3, <1>4, <1>5, <1>6 DEF FeatureKey

-----------------------------------------------------------------------------
(* The theorems *)

LEMMA StepSafe ==
  ASSUME OneFeature, SafeInv, [Next]_vars
  PROVE  SafeInv'
<1>1. TypeOK'
  BY TypePreserved DEF SafeInv
<1>2. CASE UNCHANGED vars
  <2>1. /\ calls' = calls /\ live' = live /\ active' = active
        /\ feature' = feature /\ media' = media /\ nextRef' = nextRef
    BY <1>2 DEF vars
  <2> QED
    BY <1>1, <2>1, QuietStep DEF SameParties, SafeInv, MediaOnlyWhileLive
<1>3. CASE \E p \in Phones : PhoneStep(p)
  <2>1. PICK p \in Phones : PhoneStep(p)
    BY <1>3
  <2>2. CASE NewCall(p)
    BY <1>1, <2>2, NewCallSafe
  <2>3. CASE Answer(p)
    BY <1>1, <2>3, AnsweredSafe DEF Answer
  <2>4. CASE Hold(p) \/ Resume(p)
    BY <1>1, <2>4, HoldSafe
  <2>5. CASE MediaAck(p)
    BY <1>1, <2>5, MediaAckSafe
  <2>6. CASE HangUp(p)
    <3>1. active[p] \in Refs
      BY <2>6 DEF HangUp, SafeInv, TypeOK
    <3> QED
      BY <1>1, <2>6, <3>1, EndCallSafe DEF HangUp
  <2>7. CASE DialHash(p)
    <3>1. p \in Digits
      BY DEF Digits
    <3> QED
      BY <1>1, <2>7, <3>1, DialSafe
  <2>8. CASE FeatureHash(p)
    BY <1>1, <2>8, FeatureHashSafe
  <2>9. CASE \E d \in Digits : DialDigit(p, d) \/ FeatureDigit(p, d) \/ ConsultDial(p, d)
    BY <1>1, <2>9, DialSafe, FeatureDigitSafe, ConsultDialSafe
  <2>10. CASE \E m \in Offered, r \in Refs : FeatureKey(m, p, r)
    BY <1>1, <2>10, FeatureKeySafe
  <2> QED
    BY <2>1, <2>2, <2>3, <2>4, <2>5, <2>6, <2>7, <2>8, <2>9, <2>10 DEF PhoneStep
<1>4. CASE TimerStep
  <2>1. ASSUME NEW p \in Phones, AutoAnswerFires(p) PROVE SafeInv'
    BY <1>1, <2>1, AnsweredSafe DEF AutoAnswerFires
  <2>2. ASSUME NEW r \in Refs, IvrConnects(r) PROVE SafeInv'
    BY <1>1, <2>2, IvrConnectsSafe
  <2> QED
    BY <1>4, <2>1, <2>2 DEF TimerStep
<1>5. CASE \E r \in Refs : IvrHangsUp(r)
  BY <1>1, <1>5, EndCallSafe DEF IvrHangsUp
<1> QED
  BY <1>2, <1>3, <1>4, <1>5 DEF Next

LEMMA InvariantHolds ==
  ASSUME OneFeature
  PROVE  Spec => []SafeInv
<1>1. SafeInv /\ [Next]_vars => SafeInv'
  BY StepSafe
<1> QED
  BY InitSafe, <1>1, PTL DEF Spec

(* Whatever phones dial, answer, hold, transfer or hang up, the focus call  *)
(* of a phone is one the hub still knows: no phone is bricked.              *)
THEOREM FocusStaysLive ==
  ASSUME OneFeature
  PROVE  Spec => []FocusIsLive
<1>1. SafeInv => FocusIsLive
  BY DEF SafeInv
<1> QED
  BY InvariantHolds, <1>1, PTL

(* ... and one the phone is a party of.                                     *)
THEOREM FocusStaysMine ==
  ASSUME OneFeature
  PROVE  Spec => []FocusIsMine
<1>1. SafeInv => FocusIsMine
  BY DEF SafeInv
<1> QED
  BY InvariantHolds, <1>1, PTL

(* A phone that is busy has a live call of its own in focus.                *)
THEOREM FocusStaysOwn ==
  ASSUME OneFeature
  PROVE  Spec => []FocusIsOwn
<1>1. SafeInv => FocusIsOwn
  BY DEF SafeInv, FocusIsOwn
<1> QED
  BY InvariantHolds, <1>1, PTL

(* The hub's call table and the states of the SimCall objects agree.        *)
THEOREM TableAgreesWithState ==
  ASSUME OneFeature
  PROVE  Spec => []TableMatchesState
<1>1. SafeInv => TableMatchesState
  BY DEF SafeInv
<1> QED
  BY InvariantHolds, <1>1, PTL

(* No media endpoint of the media hub survives its call.                    *)
THEOREM MediaEndsWithCall ==
  ASSUME OneFeature
  PROVE  Spec => []MediaOnlyWhileLive
<1>1. SafeInv => MediaOnlyWhileLive
  BY DEF SafeInv
<1> QED
  BY InvariantHolds, <1>1, PTL

(* A consult leg and its primary call always name each other.               *)
THEOREM ConsultStaysLinked ==
  ASSUME OneFeature
  PROVE  Spec => []ConsultLinked
<1>1. SafeInv => ConsultLinked
  BY DEF SafeInv
<1> QED
  BY InvariantHolds, <1>1, PTL

(* Only a party of a call has a transfer or a conference under way on it.   *)
THEOREM FeatureStaysWithParty ==
  ASSUME OneFeature
  PROVE  Spec => []FeatureByParty
<1>1. SafeInv => FeatureByParty
  BY DEF SafeInv
<1> QED
  BY InvariantHolds, <1>1, PTL

(* Legs and parties of a feature under way stay linked.                     *)
THEOREM FeaturesStayLinked ==
  ASSUME OneFeature
  PROVE  Spec => []FeaturesLinked
<1>1. SafeInv => FeaturesLinked
  BY DEF SafeInv, FeaturesLinked
<1> QED
  BY InvariantHolds, <1>1, PTL

-----------------------------------------------------------------------------
(* Calls the hub has forgotten *)

(* The calls that are neither in the hub's table nor about to be allocated. *)
OffTable == Refs \ (live \cup {nextRef})

Untouched == \A q \in OffTable : calls'[q] = calls[q]

LEMMA FocusIsTyped ==
  ASSUME SafeInv, NEW p \in Phones, active[p] # NoCall
  PROVE  active[p] \in live /\ active[p] \in Refs
BY DEF SafeInv, TypeOK, FocusIsLive

(* A step that writes one call which the hub has, or has just allocated.     *)
LEMMA OneCallWritten ==
  ASSUME SafeInv, NEW r \in live \cup {nextRef}, NEW c,
         calls' = [calls EXCEPT ![r] = c]
  PROVE  Untouched
BY DEF Untouched, OffTable, SafeInv, TypeOK

(* Giving a feature up ends its leg and writes the primary, both live.      *)
LEMMA GiveUpUntouched ==
  ASSUME SafeInv, NEW m \in Modes, NEW p \in live, GiveUp(m, p)
  PROVE  Untouched
<1> SUFFICES ASSUME NEW q \in OffTable PROVE calls'[q] = calls[q]
  BY DEF Untouched
<1>1. /\ q \in Refs /\ q \notin live /\ calls \in [Refs -> Call] /\ live \subseteq Refs
  BY DEF OffTable, SafeInv, TypeOK
<1>2. \A n \in Modes : LegCalls(ConsultOf(n, p))[q] = calls[q]
  BY <1>1 DEF LegCalls, ConsultOf
<1>3. \A K : LegCalls(K) = [x \in Refs |-> LegCalls(K)[x]]
  BY DEF LegCalls
<1>4. CASE CancelTransfer(p)
  BY <1>4 DEF CancelTransfer
<1>5. CASE BlindTransfer(p)
  <2>1. PICK c, act : TryCompleteDial(LegCalls(ConsultOf("transfer", p)), p, c, act)
    BY <1>5 DEF BlindTransfer
  <2>2. calls'[q] = LegCalls(ConsultOf("transfer", p))[q]
    BY <1>1, <1>3, <2>1 DEF TryCompleteDial
  <2> QED
    BY <1>2, <2>2 DEF Modes
<1>6. CASE AbortConference(p)
  <2> DEFINE K == ConsultOf("conference", p)
             cs == LegCalls(K)
             by == feature["conference"][p].by
             holder == IF calls[p].heldBy # NoPhone THEN calls[p].heldBy ELSE by
             r == LegActive(p, K)[holder]
  <2>1. \/ calls' = cs
        \/ r # NoCall /\ cs[r].state = "held" /\ calls' = [cs EXCEPT ![r] = Resumed(@)]
    BY <1>6 DEF AbortConference
  <2>2. holder \in Phones
    <3>1. by \in Parties(calls[p]) /\ calls[p] \in Call
      BY <1>1, <1>6 DEF AbortConference, Modes, SafeInv, FeatureByParty, TypeOK
    <3> HIDE DEF by
    <3> QED
      BY <3>1 DEF Parties, Call
  <2>3. r # NoCall => r \in live
    BY <2>2, FocusIsTyped DEF LegActive
  <2> HIDE DEF K, cs, r
  <2>4. cs = [x \in Refs |-> cs[x]] /\ cs[q] = calls[q]
    BY <1>2, <1>3 DEF cs, K, Modes
  <2> QED
    BY <1>1, <2>1, <2>3, <2>4
<1> QED
  BY <1>4, <1>5, <1>6 DEF GiveUp

LEMMA CompleteUntouched ==
  ASSUME SafeInv, NEW m \in Modes, NEW p \in live, NEW k \in live, NEW s \in Phones,
         Complete(m, p, k, s)
  PROVE  Untouched
<1> SUFFICES ASSUME NEW q \in OffTable PROVE calls'[q] = calls[q]
  BY DEF Untouched
<1>1. /\ q \in Refs /\ q \notin live /\ calls \in [Refs -> Call]
  BY DEF OffTable, SafeInv, TypeOK
<1>2. CASE CompleteTransfer(p, k, s)
  BY <1>1, <1>2 DEF CompleteTransfer
<1>3. CASE CompleteConference(p, k, s)
  BY <1>1, <1>3 DEF CompleteConference
<1> QED
  BY <1>2, <1>3 DEF Complete

LEMMA FinishUntouched ==
  ASSUME SafeInv, NEW m \in Modes, NEW p \in live, NEW s \in Phones, Finish(m, p, s)
  PROVE  Untouched
<1>1. CASE IsConnected(feature[m][p].consult)
  BY <1>1, CompleteUntouched DEF Finish, IsConnected
<1>2. CASE ~ IsConnected(feature[m][p].consult)
  BY <1>2, GiveUpUntouched DEF Finish
<1> QED
  BY <1>1, <1>2

LEMMA FeatureHashUntouched ==
  ASSUME SafeInv, NEW p \in Phones, FeatureHash(p)
  PROVE  Untouched
<1>1. active[p] \in live /\ FeatureMode(active[p]) \in Modes
  BY FocusIsTyped DEF FeatureHash, Entering, FeatureMode, Modes
<1> QED
  BY <1>1, FinishUntouched DEF FeatureHash

LEMMA ConsultDialUntouched ==
  ASSUME SafeInv, NEW p \in Phones, NEW d \in Digits, ConsultDial(p, d)
  PROVE  Untouched
<1> SUFFICES ASSUME NEW q \in OffTable PROVE calls'[q] = calls[q]
  BY DEF Untouched
<1>1. q \in Refs /\ q # nextRef /\ q # active[p] /\ calls \in [Refs -> Call]
  BY FocusIsTyped DEF OffTable, ConsultDial, Entering, SafeInv, TypeOK
<1>2. \E c, e : calls' = [calls EXCEPT ![active[p]] = c, ![nextRef] = e]
  BY DEF ConsultDial
<1> QED
  BY <1>1, <1>2

LEMMA FeatureKeyUntouched ==
  ASSUME SafeInv, NEW p \in Phones, NEW m \in Offered, NEW r \in Refs,
         FeatureKey(m, p, r)
  PROVE  Untouched
<1> DEFINE prim == feature[m][r].primary
<1>1. m \in Modes
  BY HubAssumption DEF Modes
<1>2. r \in live
  <2>1. (r = active[p] /\ r # NoCall) \/ r \in CallsOf(p, live)
    BY DEF FeatureKey, Targets
  <2> QED
    BY <2>1, FocusIsTyped DEF CallsOf
<1>3. \/ prim \in live /\ (Complete(m, prim, r, p) \/ GiveUp(m, prim))
      \/ Finish(m, r, p)
      \/ BeginFeature(m, r, p)
  BY DEF FeatureKey
<1>4. CASE BeginFeature(m, r, p)
  BY <1>4 DEF BeginFeature, Untouched
<1> HIDE DEF prim
<1> QED
  BY <1>1, <1>2, <1>3, <1>4, CompleteUntouched, GiveUpUntouched, FinishUntouched

LEMMA PhoneUntouched ==
  ASSUME SafeInv, NEW p \in Phones, PhoneStep(p)
  PROVE  Untouched
<1> DEFINE r == active[p]
<1>1. CASE NewCall(p)
  BY <1>1, OneCallWritten DEF NewCall
<1>2. CASE Answer(p)
  BY <1>2, FocusIsTyped, OneCallWritten DEF Answer, Answered, InState, Untouched
<1>3. CASE Hold(p)
  BY <1>3, FocusIsTyped, OneCallWritten DEF Hold, InState
<1>4. CASE Resume(p)
  BY <1>4, FocusIsTyped, OneCallWritten DEF Resume, InState
<1>5. CASE MediaAck(p)
  BY <1>5, FocusIsTyped, OneCallWritten DEF MediaAck, InState
<1>6. CASE HangUp(p)
  BY <1>6, OneCallWritten DEF HangUp, EndCall
<1>7. CASE DialHash(p) \/ \E d \in Digits : DialDigit(p, d)
  <2>1. r \in live
    BY <1>7, FocusIsTyped DEF DialHash, DialDigit, InState
  <2>2. \E c : calls' = [calls EXCEPT ![r] = c]
    BY <1>7 DEF DialHash, DialDigit, TryCompleteDial
  <2> QED
    BY <2>1, <2>2, OneCallWritten
<1>8. CASE \E d \in Digits : FeatureDigit(p, d)
  BY <1>8 DEF FeatureDigit, Untouched
<1> QED
  BY <1>1, <1>2, <1>3, <1>4, <1>5, <1>6, <1>7, <1>8, FeatureHashUntouched,
     ConsultDialUntouched, FeatureKeyUntouched DEF PhoneStep

LEMMA StepUntouched ==
  ASSUME SafeInv, [Next]_vars
  PROVE  Untouched
<1>1. CASE UNCHANGED vars
  BY <1>1 DEF vars, Untouched
<1>2. ASSUME NEW p \in Phones, AutoAnswerFires(p) PROVE Untouched
  BY <1>2, FocusIsTyped, OneCallWritten
     DEF AutoAnswerFires, Answered, InState, Untouched
<1>3. ASSUME NEW r \in Refs, IvrConnects(r) PROVE Untouched
  BY <1>3, OneCallWritten DEF IvrConnects, IvrConnected, Untouched
<1>4. ASSUME NEW r \in Refs, IvrHangsUp(r) PROVE Untouched
  BY <1>4, OneCallWritten DEF IvrHangsUp, EndCall
<1> QED
  BY <1>1, <1>2, <1>3, <1>4, PhoneUntouched DEF Next, TimerStep

(* An ended call never comes back, whichever thread still holds its SimCall. *)
THEOREM EndedStaysEnded ==
  ASSUME OneFeature
  PROVE  Spec => EndedIsFinal
<1>1. SafeInv /\ [Next]_vars =>
        [\A r \in Refs : calls[r].state = "ended" => calls'[r].state = "ended"]_vars
  <2> SUFFICES ASSUME SafeInv, [Next]_vars, NEW r \in Refs,
                      calls[r].state = "ended"
               PROVE  calls'[r].state = "ended"
    OBVIOUS
  <2>1. r \notin live
    BY DEF SafeInv, TableMatchesState
  <2>2. r # nextRef
    BY DEF SafeInv, FreshUnused, Refs
  <2>3. calls'[r] = calls[r]
    BY <2>1, <2>2, StepUntouched DEF Untouched, OffTable
  <2> QED
    BY <2>3
<1> QED
  BY <1>1, InvariantHolds, PTL DEF Spec, EndedIsFinal

-----------------------------------------------------------------------------
(* Plain calls *)

PlainCalls == Offered = {}

(* The phone that a call rings is party of no other call: only a phone that *)
(* has no call at all is rung, and it can place none while it rings.        *)
RingsAlone ==
  \A r, q \in live :
    /\ calls[r].state = "ringing" /\ calls[r].callee # NoPhone
    /\ calls[r].callee \in Parties(calls[q])
    => q = r

Reachable == NoPhoneStranded /\ RingingCanBeAnswered /\ RingsAlone

PlainInv == SafeInv /\ Reachable

(* A step that moves no focus, changes no party and rings nobody.           *)
LEMMA QuietPlain ==
  ASSUME PlainInv, SameParties, live' = live, active' = active,
         \A r \in live : calls'[r].state = "ringing" => calls[r].state = "ringing"
  PROVE  Reachable'
<1>1. live \subseteq Refs
  BY DEF PlainInv, SafeInv, TypeOK
<1>2. \A r \in Refs : /\ Parties(calls'[r]) = Parties(calls[r])
                      /\ calls'[r].callee = calls[r].callee
  BY DEF SameParties, Parties
<1>3. NoPhoneStranded'
  BY <1>1, <1>2 DEF PlainInv, Reachable, NoPhoneStranded, CallsOf
<1>4. RingingCanBeAnswered'
  BY <1>1, <1>2 DEF PlainInv, Reachable, RingingCanBeAnswered
<1>5. RingsAlone'
  BY <1>1, <1>2 DEF PlainInv, Reachable, RingsAlone
<1> QED
  BY <1>3, <1>4, <1>5 DEF Reachable

(* Answering, holding, resuming, media and the IVR pick-up write one live   *)
(* call; what they write keeps its parties and does not ring.               *)
LEMMA OneCallQuiet ==
  ASSUME PlainInv, NEW r \in live, NEW c,
         calls' = [calls EXCEPT ![r] = c], live' = live, active' = active,
         c.caller = calls[r].caller, c.callee = calls[r].callee,
         c.third = calls[r].third, c.conf = calls[r].conf,
         c.state # "ringing"
  PROVE  Reachable'
<1>1. SameParties /\ \A q \in live : calls'[q].state = "ringing" => calls[q].state = "ringing"
  BY DEF SameParties, PlainInv, SafeInv, TypeOK
<1> QED
  BY <1>1, QuietPlain

LEMMA AnsweredPlain ==
  ASSUME PlainInv, NEW p \in Phones, calls' = Answered(p), live' = live,
         active' = active
  PROVE  Reachable'
<1>1. CASE calls' = calls
  BY <1>1, QuietPlain DEF SameParties
<1>2. CASE /\ InState(p, "ringing")
           /\ calls' = [calls EXCEPT ![active[p]] =
                          [calls[active[p]] EXCEPT !.state = "connected"]]
  <2>1. active[p] \in live /\ calls[active[p]] \in Call
    BY <1>2, FocusIsTyped DEF InState, PlainInv, SafeInv, TypeOK
  <2> DEFINE c == [calls[active[p]] EXCEPT !.state = "connected"]
  <2>2. /\ c.caller = calls[active[p]].caller /\ c.callee = calls[active[p]].callee
        /\ c.third = calls[active[p]].third /\ c.conf = calls[active[p]].conf
        /\ c.state = "connected"
    BY <2>1 DEF Call
  <2> HIDE DEF c
  <2>3. calls' = [calls EXCEPT ![active[p]] = c]
    BY <1>2 DEF c
  <2> QED
    BY <2>1, <2>2, <2>3, OneCallQuiet
<1> QED
  BY <1>1, <1>2 DEF Answered

LEMMA HoldPlain ==
  ASSUME PlainInv, NEW p \in Phones, Hold(p) \/ Resume(p)
  PROVE  Reachable'
<1>1. active[p] \in live /\ calls[active[p]] \in Call
  BY FocusIsTyped DEF Hold, Resume, InState, PlainInv, SafeInv, TypeOK
<1>2. PICK c \in {OnHold(calls[active[p]], p), Resumed(calls[active[p]])} :
        calls' = [calls EXCEPT ![active[p]] = c]
  BY DEF Hold, Resume
<1>3. /\ c.caller = calls[active[p]].caller /\ c.callee = calls[active[p]].callee
      /\ c.third = calls[active[p]].third /\ c.conf = calls[active[p]].conf
      /\ c.state # "ringing"
  BY <1>1 DEF OnHold, Resumed, Call
<1> QED
  BY <1>1, <1>2, <1>3, OneCallQuiet DEF Hold, Resume

LEMMA MediaAckPlain ==
  ASSUME PlainInv, NEW p \in Phones, MediaAck(p)
  PROVE  Reachable'
<1> DEFINE r == active[p]
           c == [calls[r] EXCEPT !.ports = @ \cup {p}]
           noted(b) == [c EXCEPT !.menu = b]
<1>1. r \in live /\ calls[r] \in Call /\ calls[r].state = "connected"
  BY FocusIsTyped DEF MediaAck, InState, PlainInv, SafeInv, TypeOK
<1>2. PICK b : calls' = [calls EXCEPT ![r] = noted(b)]
  BY DEF MediaAck
<1>3. /\ noted(b).caller = calls[r].caller /\ noted(b).callee = calls[r].callee
      /\ noted(b).third = calls[r].third /\ noted(b).conf = calls[r].conf
      /\ noted(b).state = "connected"
  BY <1>1 DEF Call
<1> HIDE DEF noted, r
<1> QED
  BY <1>1, <1>2, <1>3, OneCallQuiet DEF MediaAck

LEMMA IvrConnectsPlain ==
  ASSUME PlainInv, NEW r \in Refs, IvrConnects(r)
  PROVE  Reachable'
<1>1. CASE r \notin live
  BY <1>1, QuietPlain DEF IvrConnects, IvrConnected, SameParties
<1>2. CASE r \in live
  <2> DEFINE c == [calls[r] EXCEPT !.state = "connected"]
  <2>1. /\ c.caller = calls[r].caller /\ c.callee = calls[r].callee
        /\ c.third = calls[r].third /\ c.conf = calls[r].conf
        /\ c.state = "connected"
    BY DEF PlainInv, SafeInv, TypeOK, Call
  <2>2. calls' = [calls EXCEPT ![r] = c]
    BY <1>2 DEF IvrConnects, IvrConnected
  <2> HIDE DEF c
  <2> QED
    BY <1>2, <2>1, <2>2, OneCallQuiet DEF IvrConnects
<1> QED
  BY <1>1, <1>2

(* A phone that places a call has no call that rings it: its focus would    *)
(* be that call.                                                            *)
LEMMA NewCallPlain ==
  ASSUME PlainInv, NEW p \in Phones, NewCall(p)
  PROVE  Reachable'
<1> DEFINE c == NewCallBy(p, "dialing")
<1>1. /\ nextRef \in Refs /\ nextRef \notin live /\ live \subseteq Refs
      /\ calls' = [calls EXCEPT ![nextRef] = c] /\ live' = live \cup {nextRef}
      /\ active' = [active EXCEPT ![p] = nextRef]
      /\ active \in [Phones -> Refs \cup {NoCall}]
      /\ calls \in [Refs -> Call]
  BY DEF NewCall, PlainInv, SafeInv, TypeOK, FreshUnused, TableMatchesState, Refs
<1>2. c.state = "dialing" /\ Parties(c) = {p}
  BY HubAssumption DEF NewCallBy, Parties
<1> HIDE DEF c
<1>3. calls'[nextRef] = c /\ \A q \in live : calls'[q] = calls[q]
  BY <1>1
<1>4. \A r \in live : calls[r].state = "ringing" => calls[r].callee # p
  <2> SUFFICES ASSUME NEW r \in live, calls[r].state = "ringing", calls[r].callee = p
               PROVE  FALSE
    OBVIOUS
  <2>1. active[p] = r
    BY HubAssumption DEF PlainInv, Reachable, RingingCanBeAnswered
  <2> QED
    BY <1>1, <2>1, HubAssumption DEF NewCall, MayDial, InState, Refs
<1>5. NoPhoneStranded'
  <2> SUFFICES ASSUME NEW q \in Phones, NEW r \in live', q \in Parties(calls'[r])
               PROVE  active'[q] # NoCall
    BY DEF NoPhoneStranded, CallsOf
  <2>1. CASE q = p
    BY <2>1, <1>1, HubAssumption DEF Refs
  <2>2. CASE q # p
    <3>1. r \in live /\ calls'[r] = calls[r]
      BY <2>2, <1>1, <1>2, <1>3
    <3>2. active[q] # NoCall
      BY <3>1 DEF PlainInv, Reachable, NoPhoneStranded, CallsOf
    <3> QED
      BY <2>2, <3>2, <1>1
  <2> QED
    BY <2>1, <2>2
<1>6. RingingCanBeAnswered'
  <2> SUFFICES ASSUME NEW r \in live', calls'[r].state = "ringing",
                      calls'[r].callee # NoPhone
               PROVE  active'[calls'[r].callee] = r
    BY DEF RingingCanBeAnswered
  <2>1. r \in live /\ calls'[r] = calls[r]
    BY <1>1, <1>2, <1>3
  <2>2. active[calls[r].callee] = r /\ calls[r].callee # p
    BY <2>1, <1>4 DEF PlainInv, Reachable, RingingCanBeAnswered
  <2>3. calls[r].callee \in Phones
    BY <2>1, <1>1 DEF Call
  <2> QED
    BY <2>1, <2>2, <2>3, <1>1
<1>7. RingsAlone'
  <2> SUFFICES ASSUME NEW r \in live', NEW q \in live', calls'[r].state = "ringing",
                      calls'[r].callee # NoPhone,
                      calls'[r].callee \in Parties(calls'[q])
               PROVE  q = r
    BY DEF RingsAlone
  <2>1. r \in live /\ calls'[r] = calls[r]
    BY <1>1, <1>2, <1>3
  <2>2. q # nextRef
    BY <2>1, <1>2, <1>3, <1>4
  <2>3. q \in live /\ calls'[q] = calls[q]
    BY <2>2, <1>1, <1>3
  <2> QED
    BY <2>1, <2>3 DEF PlainInv, Reachable, RingsAlone
<1> QED
  BY <1>5, <1>6, <1>7 DEF Reachable

(* Digits of a plain call ring a phone only if it has no call at all.       *)
LEMMA DialPlain ==
  ASSUME PlainInv, NEW p \in Phones, NEW d \in Digits,
         DialDigit(p, d) \/ DialHash(p)
  PROVE  Reachable'
<1> DEFINE r == active[p]
           typed(x) == [x EXCEPT !.dialed = AddDigit(@, d)]
<1>1. /\ r \in Refs /\ r \in live /\ calls[r].state = "dialing"
      /\ calls[r].callee = NoPhone /\ calls[r] \in Call /\ live \subseteq Refs
  BY DEF DialDigit, DialHash, InState, PlainInv, SafeInv, TypeOK, FocusIsLive,
         DialingIsAlone
<1>2. \A x \in Call : /\ typed(x).caller = x.caller /\ typed(x).callee = x.callee
                      /\ typed(x).third = x.third /\ typed(x) \in Call
                      /\ typed(x).state = x.state
  BY AddDigitTyped DEF Call
<1>3. PICK c \in Call : /\ TryCompleteDial(calls, r, c, active)
                        /\ c.caller = calls[r].caller /\ c.callee = NoPhone
                        /\ c.third = calls[r].third
  <2> HIDE DEF typed
  <2>1. \/ TryCompleteDial(calls, r, typed(calls[r]), active)
        \/ TryCompleteDial(calls, r, calls[r], active)
    BY DEF DialDigit, DialHash, typed
  <2> HIDE DEF r
  <2> QED
    BY <1>1, <1>2, <2>1
<1> DEFINE e == Dialled(c, active)
           t == c.dialed
<1> HIDE DEF r, typed, e, t
<1>4. /\ calls' = [calls EXCEPT ![r] = e] /\ live' = live
      /\ active' = IF Rings(c, active) THEN [active EXCEPT ![t] = r] ELSE active
  BY <1>3 DEF TryCompleteDial, e, t, DialDigit, DialHash
<1>5. active \in ActiveType /\ calls \in [Refs -> Call]
  BY DEF PlainInv, SafeInv, TypeOK, ActiveType
<1>6. /\ e.caller = calls[r].caller /\ e.third = calls[r].third
      /\ Rings(c, active) => e.callee = t
      /\ ~ Rings(c, active) => e.callee = NoPhone
  BY <1>3, <1>5, DialledFields DEF e, t
<1>7. /\ calls'[r] = e /\ \A q \in live : q # r => calls'[q] = calls[q]
  BY <1>1, <1>4, <1>5
<1>8. /\ \A q \in live : ~ Rings(c, active) => Parties(calls'[q]) = Parties(calls[q])
      /\ \A q \in live : Parties(calls'[q]) \subseteq Parties(calls[q]) \cup {t}
      /\ \A q \in live : q # r => Parties(calls'[q]) = Parties(calls[q])
  BY <1>1, <1>6, <1>7 DEF Parties
<1>9. Rings(c, active) => /\ t \in Phones /\ active[t] = NoCall
                          /\ \A q \in live : t \notin Parties(calls[q])
  BY DEF Rings, t, PlainInv, Reachable, NoPhoneStranded, CallsOf
<1>10. \A q \in Phones : active'[q] = IF Rings(c, active) /\ q = t THEN r ELSE active[q]
  BY <1>4, <1>5, <1>9 DEF ActiveType
<1>11. \A q \in live : /\ calls[q].state = "ringing" /\ calls[q].callee # NoPhone
                       => /\ active[calls[q].callee] = q
                          /\ calls[q].callee \in Phones /\ q # NoCall
  BY <1>1, <1>5, HubAssumption
     DEF PlainInv, Reachable, RingingCanBeAnswered, Call, Refs
<1>12. r # NoCall
  BY <1>1, HubAssumption DEF Refs
<1>13. NoPhoneStranded'
  <2> SUFFICES ASSUME NEW q \in Phones, NEW x \in live, q \in Parties(calls'[x])
               PROVE  active'[q] # NoCall
    BY <1>4 DEF NoPhoneStranded, CallsOf
  <2>1. CASE Rings(c, active) /\ q = t
    BY <2>1, <1>10, <1>12
  <2>2. CASE ~ (Rings(c, active) /\ q = t)
    <3>1. q \in Parties(calls[x])
      BY <2>2, <1>8
    <3>2. active[q] # NoCall
      BY <3>1 DEF PlainInv, Reachable, NoPhoneStranded, CallsOf
    <3> QED
      BY <2>2, <3>2, <1>10
  <2> QED
    BY <2>1, <2>2
<1>14. RingingCanBeAnswered'
  <2> SUFFICES ASSUME NEW x \in live, calls'[x].state = "ringing",
                      calls'[x].callee # NoPhone
               PROVE  active'[calls'[x].callee] = x
    BY <1>4 DEF RingingCanBeAnswered
  <2>1. CASE x = r
    BY <2>1, <1>6, <1>7, <1>9, <1>10
  <2>2. CASE x # r
    BY <2>2, <1>7, <1>9, <1>10, <1>11
  <2> QED
    BY <2>1, <2>2
<1>15. RingsAlone'
  <2> SUFFICES ASSUME NEW x \in live, NEW q \in live, calls'[x].state = "ringing",
                      calls'[x].callee # NoPhone,
                      calls'[x].callee \in Parties(calls'[q])
               PROVE  q = x
    BY <1>4 DEF RingsAlone
  <2>1. CASE x = r
    BY <2>1, <1>6, <1>7, <1>8, <1>9
  <2>2. CASE x # r
    <3>1. calls'[x] = calls[x]
      BY <2>2, <1>7
    <3>2. calls[x].callee \in Parties(calls[q])
      BY <3>1, <1>8, <1>9, <1>11
    <3> QED
      BY <3>1, <3>2 DEF PlainInv, Reachable, RingsAlone
  <2> QED
    BY <2>1, <2>2
<1> QED
  BY <1>13, <1>14, <1>15 DEF Reachable

(* end_call gives a party another of its calls only if it has one; the phone *)
(* that a remaining call rings is no party of the call that ends.           *)
LEMMA EndCallPlain ==
  ASSUME PlainInv, NEW r \in Refs, EndCall(r)
  PROVE  Reachable'
<1> DEFINE over(x) == [x EXCEPT !.state = "ended"]
<1>1. /\ r \in live /\ live' = live \ {r} /\ live \subseteq Refs
      /\ calls' = [calls EXCEPT ![r] = over(@)]
      /\ calls \in [Refs -> Call]
  BY DEF EndCall, PlainInv, SafeInv, TypeOK
<1> HIDE DEF over
<1>2. active' = [p \in Phones |->
         IF p \notin Cleared(r)         THEN active[p]
         ELSE IF OtherCalls(p, r) # {} THEN Focus(OtherCalls(p, r))
         ELSE IF active[p] = r         THEN NoCall
         ELSE active[p]]
  BY DEF EndCall
<1>3. \A q \in live' : q \in live /\ q # r /\ calls'[q] = calls[q]
  BY <1>1
<1>4. \A p \in Phones : OtherCalls(p, r) = CallsOf(p, live')
  BY <1>1 DEF OtherCalls, CallsOf, PlainInv, SafeInv, TableMatchesState
<1>5. \A p \in Phones : OtherCalls(p, r) # {} =>
        Focus(OtherCalls(p, r)) \in OtherCalls(p, r)
  <2> TAKE p \in Phones
  <2>1. OtherCalls(p, r) \in SUBSET Refs
    BY <1>1 DEF OtherCalls, CallsOf
  <2> QED
    BY <2>1, FocusIsOneOf DEF PlainInv, SafeInv
<1>6. NoPhoneStranded'
  <2> SUFFICES ASSUME NEW p \in Phones, NEW q \in live', p \in Parties(calls'[q])
               PROVE  active'[p] # NoCall
    BY DEF NoPhoneStranded, CallsOf
  <2>1. q \in live /\ p \in Parties(calls[q]) /\ q # r
    BY <1>3
  <2>2. q \in OtherCalls(p, r)
    BY <2>1, <1>1 DEF OtherCalls, CallsOf, PlainInv, SafeInv, TableMatchesState
  <2>3. CASE p \in Cleared(r)
    <3>1. active'[p] \in OtherCalls(p, r)
      BY <2>2, <2>3, <1>2, <1>5
    <3>2. active'[p] \in Refs
      BY <3>1, <1>1 DEF OtherCalls, CallsOf
    <3> QED
      BY <3>2, HubAssumption DEF Refs
  <2>4. CASE p \notin Cleared(r)
    <3>1. active[p] # NoCall
      BY <2>1 DEF PlainInv, Reachable, NoPhoneStranded, CallsOf
    <3> QED
      BY <2>4, <3>1, <1>2
  <2> QED
    BY <2>3, <2>4
<1>7. RingingCanBeAnswered'
  <2> SUFFICES ASSUME NEW q \in live', calls'[q].state = "ringing",
                      calls'[q].callee # NoPhone
               PROVE  active'[calls'[q].callee] = q
    BY DEF RingingCanBeAnswered
  <2> DEFINE t == calls[q].callee
  <2>1. q \in live /\ q # r /\ calls'[q] = calls[q] /\ t \in Phones
    BY <1>1, <1>3 DEF Call
  <2>2. active[t] = q /\ t \notin Parties(calls[r])
    BY <2>1, <1>1 DEF PlainInv, Reachable, RingingCanBeAnswered, RingsAlone
  <2> QED
    BY <2>1, <2>2, <1>2 DEF Cleared
<1>8. RingsAlone'
  BY <1>3 DEF PlainInv, Reachable, RingsAlone
<1> QED
  BY <1>6, <1>7, <1>8 DEF Reachable

-----------------------------------------------------------------------------
(* The theorems on plain calls *)

(* Without feature softkeys no feature is ever under way.                   *)
LEMMA NoFeatureStep ==
  ASSUME PlainCalls, SafeInv, NEW p \in Phones
  PROVE  /\ ~ FeatureHash(p)
         /\ \A d \in Digits : ~ FeatureDigit(p, d) /\ ~ ConsultDial(p, d)
         /\ \A m \in Offered, r \in Refs : ~ FeatureKey(m, p, r)
<1>1. ~ Entering(p)
  BY DEF Entering, FeatureOn, PlainCalls, SafeInv, TypeOK, UnofferedIsOff
<1> QED
  BY <1>1 DEF FeatureHash, FeatureDigit, ConsultDial, PlainCalls

LEMMA PlainStep ==
  ASSUME PlainCalls, PlainInv, [Next]_vars
  PROVE  PlainInv'
<1>1. OneFeature /\ SafeInv
  BY DEF PlainCalls, OneFeature, Modes, PlainInv
<1>2. SafeInv'
  BY <1>1, StepSafe
<1>3. ASSUME UNCHANGED vars PROVE Reachable'
  <2>1. calls' = calls /\ live' = live /\ active' = active
    BY <1>3 DEF vars
  <2>2. SameParties
    BY <2>1 DEF SameParties
  <2> QED
    BY <2>1, <2>2, QuietPlain
<1>4. ASSUME NEW p \in Phones, PhoneStep(p) PROVE Reachable'
  <2>1. CASE NewCall(p) \/ Hold(p) \/ Resume(p) \/ MediaAck(p)
    BY <2>1, NewCallPlain, HoldPlain, MediaAckPlain
  <2>2. CASE Answer(p)
    BY <2>2, AnsweredPlain DEF Answer
  <2>3. CASE HangUp(p)
    BY <2>3, <1>1, FocusIsTyped, EndCallPlain DEF HangUp
  <2>4. CASE DialHash(p) \/ \E d \in Digits : DialDigit(p, d)
    <3>1. p \in Digits
      BY DEF Digits
    <3> QED
      BY <2>4, <3>1, DialPlain
  <2> QED
    BY <1>1, <1>4, <2>1, <2>2, <2>3, <2>4, NoFeatureStep DEF PhoneStep
<1>5. ASSUME NEW p \in Phones, AutoAnswerFires(p) PROVE Reachable'
  BY <1>5, AnsweredPlain DEF AutoAnswerFires
<1>6. ASSUME NEW r \in Refs, IvrHangsUp(r) PROVE Reachable'
  BY <1>6, EndCallPlain DEF IvrHangsUp
<1>7. Reachable'
  <2>1. CASE Next
    BY <2>1, <1>4, <1>5, <1>6, IvrConnectsPlain DEF Next, TimerStep
  <2> QED
    BY <2>1, <1>3
<1> QED
  BY <1>2, <1>7 DEF PlainInv

LEMMA PlainHolds ==
  ASSUME PlainCalls
  PROVE  Spec => []PlainInv
<1>1. Init => PlainInv
  <2>1. Init => Reachable
    BY DEF Init, Reachable, NoPhoneStranded, RingingCanBeAnswered, RingsAlone, CallsOf
  <2> QED
    BY <2>1, InitSafe DEF PlainInv
<1>2. PlainInv /\ [Next]_vars => PlainInv'
  BY PlainStep
<1> QED
  BY <1>1, <1>2, PTL DEF Spec

(* A phone that is party to a call has a call in focus that it can act on.   *)
THEOREM NobodyStranded ==
  ASSUME PlainCalls
  PROVE  Spec => []NoPhoneStranded
<1>1. PlainInv => NoPhoneStranded
  BY DEF PlainInv, Reachable
<1> QED
  BY PlainHolds, <1>1, PTL

(* The phone a call rings has that call in focus, so it can be answered.     *)
THEOREM RingingIsAnswerable ==
  ASSUME PlainCalls
  PROVE  Spec => []RingingCanBeAnswered
<1>1. PlainInv => RingingCanBeAnswered
  BY DEF PlainInv, Reachable
<1> QED
  BY PlainHolds, <1>1, PTL

(* Only the end of one of its own calls takes the call a phone is talking on *)
(* out of its focus.                                                        *)
LEMMA FocusMoves ==
  ASSUME PlainCalls, SafeInv, [Next]_vars, NEW p \in Phones, InState(p, "connected"),
         active'[p] # active[p]
  PROVE  \E r \in live \ live' : p \in Parties(calls[r])
<1>1. active \in [Phones -> Refs \cup {NoCall}] /\ active[p] # NoCall
  BY DEF SafeInv, TypeOK, InState
<1>2. \A r \in Refs : EndCall(r) => \E q \in live \ live' : p \in Parties(calls[q])
  BY DEF EndCall, Cleared
<1>3. \A q \in Phones : ~ NewCall(q)
  <2> SUFFICES ASSUME NEW q \in Phones, NewCall(q) PROVE FALSE
    OBVIOUS
  <2>1. q = p
    BY <1>1 DEF NewCall
  <2> QED
    BY <1>1, <2>1 DEF NewCall, MayDial, InState
<1>4. \A q \in Phones : ~ DialHash(q) /\ \A d \in Digits : ~ DialDigit(q, d)
  <2>1. \A cs, r, c : ~ TryCompleteDial(cs, r, c, active)
    <3> SUFFICES ASSUME NEW cs, NEW r, NEW c, TryCompleteDial(cs, r, c, active)
                 PROVE FALSE
      OBVIOUS
    <3>1. Rings(c, active) /\ c.dialed = p
      BY <1>1 DEF TryCompleteDial, Rings
    <3> QED
      BY <1>1, <3>1 DEF Rings
  <2> QED
    BY <2>1 DEF DialHash, DialDigit
<1>5. \A q \in Phones : ~ (Answer(q) \/ Hold(q) \/ Resume(q) \/ MediaAck(q)
                             \/ AutoAnswerFires(q))
  BY DEF Answer, Hold, Resume, MediaAck, AutoAnswerFires
<1>6. \A r \in Refs : ~ IvrConnects(r)
  BY DEF IvrConnects
<1>7. ASSUME NEW q \in Phones, PhoneStep(q)
      PROVE  \E r \in live \ live' : p \in Parties(calls[r])
  <2>1. HangUp(q)
    BY <1>3, <1>4, <1>5, <1>7, NoFeatureStep DEF PhoneStep
  <2> QED
    BY <2>1, <1>2, FocusIsTyped DEF HangUp
<1>8. ~ UNCHANGED vars
  BY DEF vars
<1> QED
  BY <1>2, <1>5, <1>6, <1>7, <1>8 DEF Next, TimerStep, IvrHangsUp

(* Nobody else's dialing, answering or hanging up takes a phone away from    *)
(* its conversation.                                                        *)
THEOREM ConversationIsKept ==
  ASSUME PlainCalls
  PROVE  Spec => ConversationKept
<1>1. SafeInv /\ [Next]_vars =>
        [\A p \in Phones :
           /\ InState(p, "connected")
           /\ active'[p] # active[p]
           /\ calls'[active[p]].state = "connected"
           => \E r \in live \ live' : p \in Parties(calls[r])]_vars
  BY FocusMoves
<1>2. OneFeature
  BY DEF PlainCalls, OneFeature, Modes
<1> QED
  BY <1>1, <1>2, InvariantHolds, PTL DEF Spec, ConversationKept
=============================================================================
