---------------------------- MODULE SeedRequests ----------------------------
(***************************************************************************)
(* How the collector of acceptance evidence writes its seed facts over an  *)
(* unreliable connection: scripts/http-retry.mjs under postJson, and       *)
(* seedAcceptanceFacts of scripts/collect-ios-acceptance-evidence.mjs.     *)
(*                                                                         *)
(* For each input a turn is posted and the plan it answers with confirmed. *)
(* A request whose connection breaks is sent again, though the server may  *)
(* have served it, or may still do so: requests of earlier attempts stay   *)
(* on their way.  A plan is named by the input and the attempt whose       *)
(* request made it.                                                        *)
(***************************************************************************)
EXTENDS Naturals, FiniteSets

CONSTANTS
    Inputs,      \* number of seed inputs, posted in order
    maxAttempts  \* attempts of fetchWithRetry

ASSUME InputsAssumption == Inputs \in Nat
ASSUME AttemptsAssumption == maxAttempts \in Nat \ {0}

VARIABLES
    input,    \* the input at hand, Inputs + 1 when all are done
    call,     \* what is posted for it: "turn" or "confirm"; "thrown" when the run failed
    attempt,  \* which attempt of that call this is
    phase,    \* "send", "wait" for the answer, or "read" its body
    answer,   \* what the server answered to this attempt
    chosen,   \* the plan that is to be confirmed
    wire,     \* requests the server has not come to
    planStatus,
    results   \* inputs whose result is ok

seedingVars == <<input, call, attempt, phase, answer, chosen, wire, planStatus, results>>

Plans == (1 .. Inputs) \X (1 .. maxAttempts)
NoPlan == <<0, 0>>
Requests == [input : 1 .. Inputs, call : {"turn", "confirm"}, attempt : 1 .. maxAttempts,
             plan : Plans \union {NoPlan}]
NoAnswer == [kind |-> "none", plan |-> NoPlan]
AnswerKinds == {"none", "confirmation_required", "execution_result", "other"}

SeedingInit ==
    /\ input = 1
    /\ call = "turn"
    /\ attempt = 1
    /\ phase = "send"
    /\ answer = NoAnswer
    /\ chosen = NoPlan
    /\ wire = {}
    /\ planStatus = [p \in Plans |-> "absent"]
    /\ results = {}

Running == input =< Inputs /\ call # "thrown"

Current == [input |-> input, call |-> call, attempt |-> attempt, plan |-> chosen]

(* fetchImpl: the request leaves, or meets a closed port (Break).           *)
Send ==
    /\ Running /\ phase = "send"
    /\ wire' = wire \union {Current}
    /\ phase' = "wait"
    /\ UNCHANGED <<input, call, attempt, answer, chosen, planStatus, results>>

(* The backend comes to a request: a turn makes a plan, or asks or says     *)
(* something; a confirmation executes its plan, once, and is answered with  *)
(* the executed plan ever after.  A request may also fail in the server.    *)
Serve(request) ==
    \E kind \in AnswerKinds \ {"none"} :
        LET made == <<request.input, request.attempt>>
            plan == IF request.call = "turn" THEN made ELSE request.plan
        IN
        /\ kind = "confirmation_required" => request.call = "turn"
        /\ kind = "execution_result" => request.call = "confirm"
        /\ wire' = wire \ {request}
        /\ planStatus' =
              CASE kind = "confirmation_required" -> [planStatus EXCEPT ![plan] = "awaiting"]
                [] kind = "execution_result" -> [planStatus EXCEPT ![plan] = "succeeded"]
                [] OTHER -> planStatus
        /\ answer' = IF request = Current /\ phase = "wait"
                     THEN [kind |-> kind, plan |-> plan] ELSE answer
        /\ UNCHANGED <<input, call, attempt, phase, chosen, results>>

(* A request whose connection broke may never arrive.                       *)
Vanish(request) ==
    /\ ~ (request = Current /\ phase = "wait")
    /\ wire' = wire \ {request}
    /\ UNCHANGED <<input, call, attempt, phase, answer, chosen, planStatus, results>>

(* The headers of the answer arrive: fetchWithRetry returns.                *)
Return ==
    /\ Running /\ phase = "wait" /\ answer # NoAnswer
    /\ phase' = "read"
    /\ UNCHANGED <<input, call, attempt, answer, chosen, wire, planStatus, results>>

Throw ==
    /\ call' = "thrown"
    /\ phase' = "send"
    /\ answer' = NoAnswer
    /\ UNCHANGED <<input, attempt, chosen, wire, planStatus, results>>

\* faulty: what is tried again is the whole input
RetryTheInput ==
    /\ attempt < maxAttempts
    /\ call' = "turn"
    /\ chosen' = NoPlan
    /\ attempt' = attempt + 1
    /\ phase' = "send"
    /\ answer' = NoAnswer
    /\ UNCHANGED <<input, wire, planStatus, results>>

Retry ==
    /\ attempt < maxAttempts
    /\ attempt' = attempt + 1
    /\ phase' = "send"
    /\ answer' = NoAnswer
    /\ UNCHANGED <<input, call, chosen, wire, planStatus, results>>

(* The connection breaks before an answer: it is tried again if the error   *)
(* is one of transientErrorCodes and attempts are left, and ends the run    *)
(* otherwise.                                                               *)
Break ==
    /\ Running /\ phase \in {"send", "wait"}
    /\ \/ Retry
       \/ Throw

(* response.text() is outside fetchWithRetry.                               *)
BreakInBody ==
    /\ Running /\ phase = "read"
    /\ Throw

Proceed(nextInput, nextCall, plan) ==
    /\ input' = nextInput
    /\ call' = nextCall
    /\ chosen' = plan
    /\ attempt' = 1
    /\ phase' = "send"
    /\ answer' = NoAnswer
    /\ UNCHANGED <<wire, planStatus>>

(* Only an answer that asks for a confirmation is followed by one.          *)
ReadTurn ==
    /\ Running /\ call = "turn" /\ phase = "read"
    /\ IF answer.kind = "confirmation_required"
       THEN Proceed(input, "confirm", answer.plan)
       ELSE Proceed(input + 1, "turn", NoPlan)
    /\ UNCHANGED results

ReadConfirm ==
    /\ Running /\ call = "confirm" /\ phase = "read"
    /\ Proceed(input + 1, "turn", NoPlan)
    /\ results' = IF answer.kind = "execution_result" THEN results \union {input} ELSE results

Client == Send \/ ReadTurn \/ ReadConfirm
Connection == Return \/ Break \/ BreakInBody
Server == \E request \in wire : Serve(request) \/ Vanish(request)

SeedingNext == Client \/ Connection \/ Server
SeedingSpec == SeedingInit /\ [][SeedingNext]_seedingVars

(* The client goes on; a request on its way is answered or its connection   *)
(* breaks - at the latest by the time limit fetch itself sets.              *)
SeedingFairSpec == SeedingSpec /\ WF_seedingVars(Client) /\ WF_seedingVars(Connection)
-----------------------------------------------------------------------------
SeedingTypeOK ==
    /\ input \in 1 .. Inputs + 1
    /\ call \in {"turn", "confirm", "thrown"}
    /\ attempt \in 1 .. maxAttempts
    /\ phase \in {"send", "wait", "read"}
    /\ answer \in [kind : AnswerKinds, plan : Plans \union {NoPlan}]
    /\ chosen \in Plans \union {NoPlan}
    /\ wire \subseteq Requests
    /\ planStatus \in [Plans -> {"absent", "awaiting", "succeeded"}]
    /\ results \subseteq 1 .. Inputs

PlansOf(i) == {p \in Plans : p[1] = i}
Executed(i) == {p \in PlansOf(i) : planStatus[p] = "succeeded"}

(* However often requests are sent again and however late the earlier ones  *)
(* are served, an input leaves at most one executed plan: the turns that    *)
(* were served twice leave plans nobody confirms.                           *)
OneFactPerInput == \A i \in 1 .. Inputs : Cardinality(Executed(i)) =< 1

(* The seeding ends, whatever the connection does.                          *)
SeedingEnds == <>(~ Running)
=============================================================================
