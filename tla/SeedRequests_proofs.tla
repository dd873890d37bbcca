------------------------- MODULE SeedRequests_proofs -------------------------
(***************************************************************************)
(* What the seeding keeps for any number of inputs and attempts.  That an  *)
(* input leaves one executed plan at most rests on what may still be on    *)
(* its way: all confirmations of an input, sent or executed, name the same *)
(* plan (OnePlan), those of the input at hand name the one chosen for it   *)
(* and only once it has been chosen (AtHand), and later inputs have none   *)
(* (NothingAhead).                                                         *)
(***************************************************************************)
EXTENDS SeedRequests, FiniteSetTheorems, TLAPS

Done == {p \in Plans : planStatus[p] = "succeeded"}
Confirms == {r \in wire : r.call = "confirm"}

(* The plans that are executed or may still be by what is on its way. *)
Bound == Done \union {r.plan : r \in Confirms}

(* A plan is confirmed by requests of its own input, and chosen for it. *)
PlansOfTheirInput ==
    /\ \A r \in Confirms : r.plan \in Plans /\ r.plan[1] = r.input
    /\ call = "confirm" => chosen \in Plans /\ chosen[1] = input
    /\ answer.kind = "confirmation_required" => answer.plan \in Plans /\ answer.plan[1] = input

NothingAhead == \A p \in Bound : p[1] =< input

AtHand == \A p \in Bound : p[1] = input => call # "turn" /\ p = chosen

OnePlan == \A p, q \in Bound : p[1] = q[1] => p = q

IInv == SeedingTypeOK /\ PlansOfTheirInput /\ NothingAhead /\ AtHand /\ OnePlan
-----------------------------------------------------------------------------
(* Every step keeps the types. *)
LEMMA NextTyping ==
    ASSUME SeedingTypeOK, PlansOfTheirInput, SeedingNext
    PROVE  SeedingTypeOK'
<1> USE InputsAssumption, AttemptsAssumption DEF SeedingTypeOK, Plans, NoPlan, NoAnswer, AnswerKinds,
                                                 Running
<1>1. CASE Send
  BY <1>1 DEF Send, Current, Requests
<1>2. CASE ReadTurn
  BY <1>2 DEF ReadTurn, Proceed, PlansOfTheirInput
<1>3. CASE ReadConfirm
  BY <1>3 DEF ReadConfirm, Proceed
<1>4. CASE Return
  BY <1>4 DEF Return
<1>5. CASE Retry
  BY <1>5 DEF Retry
<1>6. CASE Throw
  BY <1>6 DEF Throw
<1>7. ASSUME NEW request \in wire, Serve(request)
      PROVE  SeedingTypeOK'
  <2> DEFINE made == <<request.input, request.attempt>>
             plan == IF request.call = "turn" THEN made ELSE request.plan
  <2>1. request \in Requests
    OBVIOUS
  <2>2. plan \in Plans \union {NoPlan}
    BY <2>1 DEF Requests
  <2>3. PICK kind \in AnswerKinds \ {"none"} :
              /\ wire' = wire \ {request}
              /\ planStatus' =
                    CASE kind = "confirmation_required" -> [planStatus EXCEPT ![plan] = "awaiting"]
                      [] kind = "execution_result" -> [planStatus EXCEPT ![plan] = "succeeded"]
                      [] OTHER -> planStatus
              /\ answer' = IF request = Current /\ phase = "wait"
                           THEN [kind |-> kind, plan |-> plan] ELSE answer
              /\ UNCHANGED <<input, call, attempt, phase, chosen, results>>
    BY <1>7 DEF Serve
  <2>4. planStatus' \in [Plans -> {"absent", "awaiting", "succeeded"}]
    BY <2>3
  <2>5. answer' \in [kind : AnswerKinds, plan : Plans \union {NoPlan}]
    BY <2>2, <2>3
  <2> QED
    BY <2>3, <2>4, <2>5
<1>8. ASSUME NEW request \in wire, Vanish(request)
      PROVE  SeedingTypeOK'
  BY <1>8 DEF Vanish
<1> QED
  BY <1>1, <1>2, <1>3, <1>4, <1>5, <1>6, <1>7, <1>8
     DEF SeedingNext, Client, Connection, Server, Break, BreakInBody

(* What is executed or on its way grows only when a confirmation is sent,  *)
(* by the plan that was chosen: serving one executes a plan that was among *)
(* those already.                                                          *)
LEMMA NextBound ==
    ASSUME SeedingTypeOK, PlansOfTheirInput, SeedingNext
    PROVE  \/ Bound' \subseteq Bound
           \/ /\ call = "confirm" /\ Running
              /\ Bound' \subseteq Bound \union {chosen}
              /\ UNCHANGED <<input, call, chosen>>
<1> USE DEF Bound, Done, Confirms
<1>1. CASE Send
  BY <1>1 DEF Send, Current, Running, SeedingTypeOK
<1>2. CASE ReadTurn \/ ReadConfirm \/ Return \/ Retry \/ Throw
  BY <1>2 DEF ReadTurn, ReadConfirm, Proceed, Return, Retry, Throw
<1>3. ASSUME NEW request \in wire, Serve(request)
      PROVE  Bound' \subseteq Bound
  <2> DEFINE made == <<request.input, request.attempt>>
             plan == IF request.call = "turn" THEN made ELSE request.plan
  <2>1. PICK kind \in AnswerKinds \ {"none"} :
              /\ kind = "execution_result" => request.call = "confirm"
              /\ wire' = wire \ {request}
              /\ planStatus' =
                    CASE kind = "confirmation_required" -> [planStatus EXCEPT ![plan] = "awaiting"]
                      [] kind = "execution_result" -> [planStatus EXCEPT ![plan] = "succeeded"]
                      [] OTHER -> planStatus
    BY <1>3 DEF Serve
  <2>2. \A p \in Plans : planStatus'[p] = "succeeded" =>
            planStatus[p] = "succeeded" \/ (request.call = "confirm" /\ p = request.plan)
    BY <2>1 DEF SeedingTypeOK
  <2> QED
    BY <2>1, <2>2
<1>4. ASSUME NEW request \in wire, Vanish(request)
      PROVE  Bound' \subseteq Bound
  BY <1>4 DEF Vanish
<1> QED
  BY <1>1, <1>2, <1>3, <1>4 DEF SeedingNext, Client, Connection, Server, Break, BreakInBody

(* A plan is chosen, sent and answered with for the input it was made for. *)
LEMMA NextPlans ==
    ASSUME SeedingTypeOK, PlansOfTheirInput, SeedingNext
    PROVE  PlansOfTheirInput'
<1> USE DEF PlansOfTheirInput, Confirms, NoAnswer, Running
<1>1. CASE Send
  BY <1>1 DEF Send, Current
<1>2. CASE ReadTurn
  BY <1>2 DEF ReadTurn, Proceed
<1>3. CASE ReadConfirm
  BY <1>3 DEF ReadConfirm, Proceed
<1>4. CASE Return
  BY <1>4 DEF Return
<1>5. CASE Retry
  BY <1>5 DEF Retry
<1>6. CASE Throw
  BY <1>6 DEF Throw
<1>7. ASSUME NEW request \in wire, Serve(request)
      PROVE  PlansOfTheirInput'
  <2>1. request \in Requests
    BY DEF SeedingTypeOK
  <2>2. /\ wire' = wire \ {request}
        /\ UNCHANGED <<input, call, chosen>>
    BY <1>7 DEF Serve
  <2>3. CASE answer' = answer
    BY <2>2, <2>3
  <2>4. CASE answer' # answer
    <3>1. request = Current
      BY <1>7, <2>4 DEF Serve
    <3>2. answer'.kind = "confirmation_required" =>
              answer'.plan = <<request.input, request.attempt>>
      BY <1>7, <2>4 DEF Serve
    <3> QED
      BY <2>1, <2>2, <3>1, <3>2 DEF Current, Requests, Plans
  <2> QED
    BY <2>3, <2>4
<1>8. ASSUME NEW request \in wire, Vanish(request)
      PROVE  PlansOfTheirInput'
  BY <1>8 DEF Vanish
<1> QED
  BY <1>1, <1>2, <1>3, <1>4, <1>5, <1>6, <1>7, <1>8
     DEF SeedingNext, Client, Connection, Server, Break, BreakInBody

(* The input at hand only moves on, and what is chosen for it is chosen    *)
(* once, before anything of it is sent to be confirmed.                    *)
LEMMA NextAtHand ==
    ASSUME IInv, SeedingNext
    PROVE  (NothingAhead /\ AtHand /\ OnePlan)'
<1> USE DEF IInv
<1>1. \A p \in Bound : p \in Plans
  BY DEF Bound, Done, Confirms, PlansOfTheirInput
<1>2. \A p \in Bound : p[1] \in Nat
  BY <1>1, InputsAssumption DEF Plans
<1>3. \/ Bound' \subseteq Bound
      \/ /\ call = "confirm" /\ Running
         /\ Bound' \subseteq Bound \union {chosen}
         /\ UNCHANGED <<input, call, chosen>>
  BY NextBound
<1>4. \/ UNCHANGED <<input, chosen>> /\ (call # "turn" => call' # "turn")
      \/ input' = input /\ call = "turn"
      \/ input' = input + 1
  <2>1. CASE Send
    BY <2>1 DEF Send
  <2>2. CASE ReadTurn
    BY <2>2 DEF ReadTurn, Proceed
  <2>3. CASE ReadConfirm
    BY <2>3 DEF ReadConfirm, Proceed
  <2>4. CASE Return \/ Retry \/ Throw
    BY <2>4 DEF Return, Retry, Throw
  <2>5. CASE \E request \in wire : Serve(request) \/ Vanish(request)
    BY <2>5 DEF Serve, Vanish
  <2> QED
    BY <2>1, <2>2, <2>3, <2>4, <2>5 DEF SeedingNext, Client, Connection, Server, Break, BreakInBody
<1>5. input \in Nat
  BY InputsAssumption DEF SeedingTypeOK
<1>6. CASE Bound' \subseteq Bound
  <2>1. OnePlan'
    BY <1>6 DEF OnePlan
  <2>2. NothingAhead'
    BY <1>2, <1>4, <1>5, <1>6 DEF NothingAhead
  <2>3. AtHand'
    BY <1>2, <1>4, <1>5, <1>6 DEF AtHand, NothingAhead
  <2> QED
    BY <2>1, <2>2, <2>3
<1>7. CASE /\ call = "confirm"
           /\ Bound' \subseteq Bound \union {chosen}
           /\ UNCHANGED <<input, call, chosen>>
  <2>1. chosen[1] = input
    BY <1>7 DEF PlansOfTheirInput
  <2>2. OnePlan'
    BY <1>7, <2>1 DEF OnePlan, AtHand
  <2>3. NothingAhead'
    BY <1>5, <1>7, <2>1 DEF NothingAhead
  <2>4. AtHand'
    BY <1>7 DEF AtHand
  <2> QED
    BY <2>2, <2>3, <2>4
<1> QED
  BY <1>3, <1>6, <1>7

LEMMA AlwaysIInv == SeedingSpec => []IInv
<1>1. SeedingInit => IInv
  <2> SUFFICES ASSUME SeedingInit PROVE IInv
    OBVIOUS
  <2>1. SeedingTypeOK
    BY InputsAssumption, AttemptsAssumption
       DEF SeedingInit, SeedingTypeOK, Plans, NoPlan, NoAnswer, AnswerKinds
  <2>2. Bound = {}
    BY DEF SeedingInit, Bound, Done, Confirms
  <2> QED
    BY <2>1, <2>2 DEF SeedingInit, IInv, PlansOfTheirInput, NothingAhead, AtHand, OnePlan, Bound,
                      Confirms, NoAnswer
<1>2. IInv /\ [SeedingNext]_seedingVars => IInv'
  <2>1. CASE UNCHANGED seedingVars
    BY <2>1 DEF seedingVars, IInv, SeedingTypeOK, PlansOfTheirInput, NothingAhead, AtHand, OnePlan,
                Bound, Done, Confirms
  <2>2. CASE IInv /\ SeedingNext
    BY <2>2, NextTyping, NextPlans, NextAtHand DEF IInv
  <2> QED
    BY <2>1, <2>2
<1> QED
  BY <1>1, <1>2, PTL DEF SeedingSpec

-----------------------------------------------------------------------------
(* The states of the seeding are of these kinds, for any number of inputs  *)
(* and of attempts (fetchWithRetry, seedAcceptanceFacts).                  *)
THEOREM SeedingTypes == SeedingSpec => []SeedingTypeOK
<1>1. IInv => SeedingTypeOK
  BY DEF IInv
<1> QED
  BY <1>1, AlwaysIInv, PTL

(* However often fetchWithRetry sends a request again, and however late    *)
(* the earlier ones are served, at most one plan of an input is executed.  *)
THEOREM OneFactForEachInput == SeedingSpec => []OneFactPerInput
<1>1. IInv => OneFactPerInput
  <2> SUFFICES ASSUME IInv, NEW i \in 1 .. Inputs
               PROVE  Cardinality(Executed(i)) =< 1
    BY DEF OneFactPerInput
  <2>1. \A p, q \in Executed(i) : p = q
    BY DEF IInv, OnePlan, Bound, Done, Executed, PlansOf
  <2>2. CASE Executed(i) = {}
    BY <2>2, FS_EmptySet
  <2>3. CASE Executed(i) # {}
    <3>1. PICK p : Executed(i) = {p}
      BY <2>1, <2>3
    <3>2. Cardinality({p}) = 1
      BY FS_Singleton
    <3> QED
      BY <3>1, <3>2
  <2> QED
    BY <2>2, <2>3
<1> QED
  BY <1>1, AlwaysIInv, PTL
=============================================================================
