------------------------- MODULE RtpPreflightProofs -------------------------
(***************************************************************************)
(* Proofs about RtpPreflight, for any bound on the attempts and on the     *)
(* interventions of the session.                                           *)
(***************************************************************************)
EXTENDS RtpPreflight, TLAPS

-----------------------------------------------------------------------------
(* The inductive invariant                                                 *)

\* clearPendingRetry reaches every timer there is.
RetryIsHeld == timers \subseteq {retryHandle}

TokensArePast ==
    /\ \A x \in running : x.token <= generation
    /\ restartRequestedForGeneration # Null =>
          restartRequestedForGeneration <= generation

\* Where an attempt of the current generation is.
PhasesFit ==
    \A x \in running :
        x.token = generation =>
            /\ x.phase = "settling" => state \in {"available", "exhausted"}
            /\ x.phase # "settling" => state = "probing"

\* There is always something left to probe for.
ProbingHasBudget ==
    state = "probing" =>
        /\ attemptCount < MaximumAttempts
        /\ seen # Directions

IInv ==
    /\ TypeOK
    /\ SingleFlight
    /\ ProbingGoesOn
    /\ VerdictIsBacked
    /\ RestartIsKept
    /\ RetryIsHeld
    /\ TokensArePast
    /\ PhasesFit
    /\ ProbingHasBudget

\* What OnlyCurrentCounts says of one step.
CountsCurrent ==
    \/ seen' \subseteq seen /\ attemptCount' <= attemptCount
    \/ /\ state = "probing"
       /\ generation' = generation
       /\ \E x \in running : x.token = generation

-----------------------------------------------------------------------------
(* The invariant holds initially                                           *)

LEMMA InitInv == Init => IInv
<1> SUFFICES ASSUME Init PROVE IInv
    OBVIOUS
<1>1. TypeOK
    <2>1. /\ state \in States
          /\ seen \subseteq Directions
          /\ timers \subseteq Nat
          /\ running \subseteq Attempt
          /\ inFlight \in BOOLEAN
        BY DEF Init, States
    <2>2. generation \in Nat /\ attemptCount \in 0 .. MaximumAttempts
        BY PreflightAssumption DEF Init
    <2> QED BY <2>1, <2>2 DEF Init, TypeOK
<1>2. SingleFlight /\ ProbingGoesOn /\ RetryIsHeld
    BY DEF Init, SingleFlight, ProbingGoesOn, RetryIsHeld
<1>3. VerdictIsBacked /\ ProbingHasBudget
    BY DEF Init, VerdictIsBacked, ProbingHasBudget
<1>4. RestartIsKept
    BY PreflightAssumption DEF Init, RestartIsKept
<1>5. TokensArePast /\ PhasesFit
    BY DEF Init, TokensArePast, PhasesFit
<1> QED BY <1>1, <1>2, <1>3, <1>4, <1>5 DEF IInv

-----------------------------------------------------------------------------
(* Parts of the operations                                                 *)

LEMMA NoTimerLeft ==
    ASSUME IInv, ClearPendingRetry
    PROVE  timers' = {} /\ retryHandle' = Null
BY DEF IInv, RetryIsHeld, ClearPendingRetry

\* A call that is running while the controller probes is the current one.
LEMMA RunningIsCurrent ==
    ASSUME IInv, NEW x \in running
    PROVE  /\ x \in Attempt
           /\ x.token = inFlightGeneration
           /\ running = {x}
           /\ inFlight
           /\ timers = {}
           /\ state = "probing" <=> Current(x)
<1>1. /\ x \in Attempt
      /\ x.token = inFlightGeneration
      /\ running = {x}
      /\ inFlight
    BY DEF IInv, TypeOK, SingleFlight
<1> QED BY <1>1 DEF IInv, ProbingGoesOn, Current

\* Starting a generation when nothing runs, or only the call that ends.
LEMMA StartInv ==
    ASSUME IInv, StartNewGeneration({}),
           \/ restartRequestedForGeneration' = restartRequestedForGeneration
           \/ restartRequestedForGeneration' = Null
    PROVE  IInv' /\ CountsCurrent
<1>1. /\ generation' = generation + 1
      /\ generation \in Nat
      /\ state' = "probing"
      /\ failureReason' = Null
      /\ attemptCount' = 0
      /\ firstAttemptAt' = "recent"
      /\ seen' = {}
      /\ inFlight' = TRUE
      /\ inFlightGeneration' = generation'
      /\ running' = {[token |-> generation', phase |-> "stats"]}
      /\ timers' = {}
      /\ retryHandle' = Null
    BY NoTimerLeft DEF StartNewGeneration, Launch, IInv, TypeOK
<1>2. TypeOK'
    BY <1>1, PreflightAssumption DEF IInv, TypeOK, States, Attempt
<1>3. SingleFlight' /\ ProbingGoesOn' /\ RetryIsHeld'
    BY <1>1 DEF SingleFlight, ProbingGoesOn, RetryIsHeld
<1>4. VerdictIsBacked' /\ RestartIsKept'
    BY <1>1 DEF VerdictIsBacked, RestartIsKept
<1>5. TokensArePast'
    BY <1>1 DEF IInv, TypeOK, TokensArePast
<1>6. PhasesFit' /\ ProbingHasBudget'
    BY <1>1, PreflightAssumption DEF PhasesFit, ProbingHasBudget, Directions
<1>7. CountsCurrent
    BY <1>1 DEF IInv, TypeOK, CountsCurrent
<1> QED BY <1>2, <1>3, <1>4, <1>5, <1>6, <1>7 DEF IInv

\* finishInFlight of the call x, which is not probing any more.
LEMMA FinishInv ==
    ASSUME IInv, NEW x \in running, state # "probing", FinishInFlight(x)
    PROVE  IInv' /\ CountsCurrent
<1>1. /\ x.token = inFlightGeneration
      /\ running \ {x} = {}
      /\ timers = {}
    BY RunningIsCurrent
<1>2. CASE /\ restartRequestedForGeneration' = Null
           /\ StartNewGeneration(running \ {x})
    BY <1>1, <1>2, StartInv
<1>3. CASE /\ ~ RestartIsDue
           /\ inFlight' = FALSE
           /\ inFlightGeneration' = Null
           /\ running' = running \ {x}
           /\ UNCHANGED <<observations, verdict, retry,
                          restartRequestedForGeneration>>
    <2>1. /\ running' = {}
          /\ inFlight' = FALSE
          /\ inFlightGeneration' = Null
          /\ UNCHANGED <<attemptCount, firstAttemptAt, seen, state, generation,
                         failureReason, retryHandle, timers,
                         restartRequestedForGeneration>>
        BY <1>1, <1>3 DEF observations, verdict, retry
    <2>2. TypeOK'
        BY <2>1 DEF IInv, TypeOK
    <2>3. SingleFlight' /\ ProbingGoesOn' /\ RetryIsHeld'
        BY <1>1, <2>1 DEF IInv, SingleFlight, ProbingGoesOn, RetryIsHeld
    <2>4. VerdictIsBacked'
        BY <2>1 DEF IInv, VerdictIsBacked
    <2>5. RestartIsKept'
        BY <1>3, <2>1 DEF RestartIsDue, RestartIsKept
    <2>6. TokensArePast' /\ PhasesFit' /\ ProbingHasBudget'
        BY <2>1 DEF IInv, TokensArePast, PhasesFit, ProbingHasBudget
    <2>7. CountsCurrent
        BY <2>1 DEF IInv, TypeOK, CountsCurrent
    <2> QED BY <2>2, <2>3, <2>4, <2>5, <2>6, <2>7 DEF IInv
<1> QED BY <1>1, <1>2, <1>3 DEF FinishInFlight

\* The current attempt awaits again, or calls onUpdate and will retry.
LEMMA MoveOnInv ==
    ASSUME IInv, NEW x \in running, Current(x),
           NEW phase \in {"sample", "updating"}, MovedTo(x, phase),
           UNCHANGED <<verdict, retry, firstAttemptAt, inFlight,
                       inFlightGeneration, restartRequestedForGeneration>>,
           attemptCount' \in Nat, attemptCount' < MaximumAttempts,
           seen' \subseteq Directions, seen' # Directions
    PROVE  IInv' /\ CountsCurrent
<1>1. /\ x \in Attempt
      /\ x.token = inFlightGeneration
      /\ inFlight
      /\ timers = {}
      /\ x.token = generation
      /\ state = "probing"
      /\ generation \in Nat
      /\ MaximumAttempts \in Nat
    BY RunningIsCurrent, PreflightAssumption DEF Current, IInv, TypeOK
<1>2. /\ running' = {[token |-> x.token, phase |-> phase]}
      /\ UNCHANGED <<firstAttemptAt, state, generation, failureReason,
                     retryHandle, timers, inFlight, inFlightGeneration,
                     restartRequestedForGeneration>>
    BY RunningIsCurrent DEF MovedTo, verdict, retry
<1>3. TypeOK'
    BY <1>1, <1>2 DEF IInv, TypeOK, Attempt
<1>4. SingleFlight'
    BY <1>1, <1>2 DEF SingleFlight
<1>5. ProbingGoesOn' /\ RetryIsHeld'
    BY <1>2 DEF IInv, ProbingGoesOn, RetryIsHeld
<1>6. VerdictIsBacked' /\ RestartIsKept'
    BY <1>1, <1>2 DEF IInv, VerdictIsBacked, RestartIsKept
<1>7. TokensArePast' /\ PhasesFit'
    BY <1>1, <1>2 DEF IInv, TokensArePast, PhasesFit
<1>8. ProbingHasBudget'
    BY DEF ProbingHasBudget
<1>9. CountsCurrent
    BY <1>1, <1>2 DEF CountsCurrent
<1> QED BY <1>3, <1>4, <1>5, <1>6, <1>7, <1>8, <1>9 DEF IInv

\* The current attempt settles the matter, one way or the other.
LEMMA SettleInv ==
    ASSUME IInv, NEW x \in running, Current(x),
           MarkAvailable(x) \/ MarkExhausted(x),
           UNCHANGED <<generation, firstAttemptAt, inFlight,
                       inFlightGeneration, restartRequestedForGeneration>>,
           attemptCount' = attemptCount + 1,
           seen' \subseteq Directions,
           MarkAvailable(x) => seen' = Directions,
           MarkExhausted(x) => /\ seen' # Directions
                               /\ ~ ShouldContinueProbing(attemptCount')
    PROVE  IInv' /\ CountsCurrent
<1>1. /\ x \in Attempt
      /\ x.token = inFlightGeneration
      /\ inFlight
      /\ x.token = generation
      /\ state = "probing"
      /\ attemptCount \in Nat
      /\ attemptCount < MaximumAttempts
      /\ MaximumAttempts \in Nat
    BY RunningIsCurrent, PreflightAssumption
       DEF Current, IInv, TypeOK, ProbingHasBudget
<1>2. /\ running' = {[token |-> x.token, phase |-> "settling"]}
      /\ timers' = {}
      /\ retryHandle' = Null
      /\ state' \in {"available", "exhausted"}
    BY RunningIsCurrent, NoTimerLeft
       DEF MovedTo, MarkAvailable, MarkExhausted
<1>3. TypeOK'
    <2>1. failureReason' \in {Null, "cancelled", "exhausted"}
        BY DEF MarkAvailable, MarkExhausted
    <2> QED BY <1>1, <1>2, <2>1 DEF IInv, TypeOK, States, Attempt
<1>4. SingleFlight' /\ ProbingGoesOn' /\ RetryIsHeld'
    BY <1>1, <1>2 DEF SingleFlight, ProbingGoesOn, RetryIsHeld
<1>5. VerdictIsBacked'
    <2>1. CASE MarkAvailable(x)
        BY <2>1 DEF MarkAvailable, VerdictIsBacked
    <2>2. CASE MarkExhausted(x)
        <3>1. attemptCount' = MaximumAttempts \/ firstAttemptAt' = "expired"
            BY <1>1, <2>2 DEF ShouldContinueProbing
        <3> QED BY <2>2, <3>1 DEF MarkExhausted, VerdictIsBacked
    <2> QED BY <2>1, <2>2
<1>6. RestartIsKept' /\ TokensArePast' /\ PhasesFit' /\ ProbingHasBudget'
    BY <1>1, <1>2 DEF IInv, TypeOK, RestartIsKept, TokensArePast, PhasesFit,
                      ProbingHasBudget
<1>7. CountsCurrent
    BY <1>1 DEF CountsCurrent
<1> QED BY <1>3, <1>4, <1>5, <1>6, <1>7 DEF IInv

-----------------------------------------------------------------------------
(* Calls of the session                                                    *)

\* A request changes nothing else.
LEMMA RequestInv ==
    ASSUME IInv, inFlight, RequestRestartWhenIdle
    PROVE  IInv' /\ CountsCurrent
<1>1. /\ restartRequestedForGeneration' = generation
      /\ generation \in Nat
      /\ UNCHANGED <<attemptCount, firstAttemptAt, seen, state, generation,
                     failureReason, retryHandle, timers, inFlight,
                     inFlightGeneration, running>>
    BY DEF RequestRestartWhenIdle, observations, verdict, retry, flight,
           IInv, TypeOK
<1>2. TypeOK'
    BY <1>1 DEF IInv, TypeOK
<1>3. SingleFlight' /\ ProbingGoesOn' /\ RetryIsHeld'
    BY <1>1 DEF IInv, SingleFlight, ProbingGoesOn, RetryIsHeld
<1>4. VerdictIsBacked' /\ RestartIsKept'
    BY <1>1 DEF IInv, VerdictIsBacked, RestartIsKept
<1>5. TokensArePast' /\ PhasesFit' /\ ProbingHasBudget'
    BY <1>1 DEF IInv, TokensArePast, PhasesFit, ProbingHasBudget
<1>6. CountsCurrent
    BY <1>1 DEF IInv, TypeOK, CountsCurrent
<1> QED BY <1>2, <1>3, <1>4, <1>5, <1>6 DEF IInv

\* What invalidate and reset have in common.
LEMMA WithdrawInv ==
    ASSUME IInv,
           generation' = generation + 1,
           \/ state' = "cancelled" /\ failureReason' = "cancelled"
           \/ state' = "idle" /\ failureReason' = Null,
           restartRequestedForGeneration' = Null,
           ResetGenerationObservations,
           ClearPendingRetry,
           UNCHANGED flight
    PROVE  IInv' /\ CountsCurrent
<1>1. /\ attemptCount' = 0
      /\ firstAttemptAt' = Null
      /\ seen' = {}
      /\ timers' = {}
      /\ retryHandle' = Null
      /\ generation \in Nat
      /\ UNCHANGED <<inFlight, inFlightGeneration, running>>
    BY NoTimerLeft DEF ResetGenerationObservations, flight, IInv, TypeOK
<1>2. TypeOK'
    BY <1>1, PreflightAssumption DEF IInv, TypeOK, States
<1>3. SingleFlight' /\ ProbingGoesOn' /\ RetryIsHeld'
    BY <1>1 DEF IInv, SingleFlight, ProbingGoesOn, RetryIsHeld
<1>4. VerdictIsBacked' /\ ProbingHasBudget'
    BY DEF VerdictIsBacked, ProbingHasBudget
<1>5. RestartIsKept'
    BY <1>1, PreflightAssumption DEF RestartIsKept
<1>6. TokensArePast' /\ PhasesFit'
    BY <1>1 DEF IInv, TypeOK, Attempt, TokensArePast, PhasesFit
<1>7. CountsCurrent
    BY <1>1 DEF IInv, TypeOK, CountsCurrent
<1> QED BY <1>2, <1>3, <1>4, <1>5, <1>6, <1>7 DEF IInv

\* maybeStart and restartWhenIdle.
LEMMA StartsInv ==
    ASSUME IInv, MaybeStart \/ RestartWhenIdle
    PROVE  IInv' /\ CountsCurrent
<1>1. CASE inFlight /\ RequestRestartWhenIdle
    BY <1>1, RequestInv
<1>2. CASE /\ ~ inFlight
           /\ StartNewGeneration(running)
           /\ UNCHANGED restartRequestedForGeneration
    <2>1. running = {}
        BY <1>2 DEF IInv, SingleFlight
    <2> QED BY <1>2, <2>1, StartInv
<1> QED BY <1>1, <1>2 DEF MaybeStart, RestartWhenIdle

-----------------------------------------------------------------------------
(* Timers and attempts                                                     *)

LEMMA TimePassesInv ==
    ASSUME IInv, TimePasses
    PROVE  IInv' /\ CountsCurrent
<1>1. /\ firstAttemptAt = "recent"
      /\ firstAttemptAt' = "expired"
      /\ UNCHANGED <<attemptCount, seen, state, generation, failureReason,
                     retryHandle, timers, inFlight, inFlightGeneration,
                     running, restartRequestedForGeneration>>
    BY DEF TimePasses, verdict, retry, flight
<1>2. TypeOK'
    BY <1>1 DEF IInv, TypeOK
<1>3. SingleFlight' /\ ProbingGoesOn' /\ RetryIsHeld'
    BY <1>1 DEF IInv, SingleFlight, ProbingGoesOn, RetryIsHeld
<1>4. VerdictIsBacked' /\ RestartIsKept'
    BY <1>1 DEF IInv, VerdictIsBacked, RestartIsKept
<1>5. TokensArePast' /\ PhasesFit' /\ ProbingHasBudget'
    BY <1>1 DEF IInv, TokensArePast, PhasesFit, ProbingHasBudget
<1>6. CountsCurrent
    BY <1>1 DEF IInv, TypeOK, CountsCurrent
<1> QED BY <1>2, <1>3, <1>4, <1>5, <1>6 DEF IInv

LEMMA TimerFiresInv ==
    ASSUME IInv, NEW token \in timers, TimerFires(token)
    PROVE  IInv' /\ CountsCurrent
<1>1. /\ state = "probing"
      /\ ~ inFlight
      /\ timers = {generation}
      /\ token = generation
      /\ generation \in Nat
      /\ running = {}
    BY DEF IInv, TypeOK, ProbingGoesOn, SingleFlight
<1>2. /\ timers' = {}
      /\ inFlight' = TRUE
      /\ inFlightGeneration' = generation
      /\ running' = {[token |-> generation, phase |-> "stats"]}
      /\ firstAttemptAt' \in {firstAttemptAt, "recent"}
      /\ UNCHANGED <<attemptCount, seen, state, generation, failureReason,
                     retryHandle, restartRequestedForGeneration>>
    BY <1>1 DEF TimerFires, Launch, verdict
<1>3. TypeOK'
    BY <1>1, <1>2 DEF IInv, TypeOK, Attempt
<1>4. SingleFlight' /\ ProbingGoesOn' /\ RetryIsHeld'
    BY <1>1, <1>2 DEF SingleFlight, ProbingGoesOn, RetryIsHeld
<1>5. VerdictIsBacked' /\ RestartIsKept'
    BY <1>1, <1>2 DEF IInv, VerdictIsBacked, RestartIsKept
<1>6. TokensArePast' /\ PhasesFit' /\ ProbingHasBudget'
    BY <1>1, <1>2 DEF IInv, TokensArePast, PhasesFit, ProbingHasBudget
<1>7. CountsCurrent
    BY <1>2 DEF IInv, TypeOK, CountsCurrent
<1> QED BY <1>3, <1>4, <1>5, <1>6, <1>7 DEF IInv

\* An attempt that found nothing that settles the matter.
LEMMA InconclusiveInv ==
    ASSUME IInv, NEW x \in running, Current(x),
           Inconclusive(x, attemptCount'),
           UNCHANGED <<generation, firstAttemptAt, inFlight,
                       inFlightGeneration, restartRequestedForGeneration>>,
           attemptCount' = attemptCount + 1,
           seen' \subseteq Directions, seen' # Directions
    PROVE  IInv' /\ CountsCurrent
<1>1. /\ attemptCount' \in Nat
      /\ MaximumAttempts \in Nat
    BY PreflightAssumption DEF IInv, TypeOK
<1>2. CASE MarkExhausted(x) /\ ~ ShouldContinueProbing(attemptCount')
    <2>1. ~ MarkAvailable(x)
        BY <1>2 DEF MarkExhausted, MarkAvailable
    <2> QED BY <1>2, <2>1, SettleInv
<1>3. CASE /\ ShouldContinueProbing(attemptCount')
           /\ MovedTo(x, "updating")
           /\ UNCHANGED <<state, failureReason, retry>>
    <2>1. attemptCount' < MaximumAttempts
        BY <1>3 DEF ShouldContinueProbing
    <2>2. UNCHANGED <<verdict, retry>>
        BY <1>3 DEF verdict
    <2> QED BY <1>1, <1>3, <2>1, <2>2, MoveOnInv
<1> QED BY <1>2, <1>3 DEF Inconclusive

LEMMA StatsArriveInv ==
    ASSUME IInv, NEW x \in running, StatsArrive(x)
    PROVE  IInv' /\ CountsCurrent
<1>1. CASE Current(x) /\ MovedTo(x, "sample")
           /\ UNCHANGED <<observations, verdict, retry, inFlight,
                          inFlightGeneration, restartRequestedForGeneration>>
    <2>1. /\ attemptCount \in Nat
          /\ attemptCount < MaximumAttempts
          /\ seen \subseteq Directions
          /\ seen # Directions
        BY <1>1 DEF IInv, TypeOK, ProbingHasBudget, Current
    <2>2. UNCHANGED <<attemptCount, seen, firstAttemptAt>>
        BY <1>1 DEF observations
    <2> QED BY <1>1, <2>1, <2>2, MoveOnInv
<1>2. CASE ~ Current(x) /\ FinishInFlight(x)
    BY <1>2, RunningIsCurrent, FinishInv
<1> QED BY <1>1, <1>2 DEF StatsArrive

LEMMA SampleArrivesInv ==
    ASSUME IInv, NEW x \in running, NEW found \in SUBSET Directions,
           SampleArrives(x, found)
    PROVE  IInv' /\ CountsCurrent
<1>1. CASE Current(x) /\ ~ (~ Current(x) /\ FinishInFlight(x))
    <2>1. /\ attemptCount' = attemptCount + 1
          /\ seen' = seen \cup found
          /\ \/ seen' = Directions /\ MarkAvailable(x)
             \/ seen' # Directions /\ Inconclusive(x, attemptCount')
          /\ UNCHANGED <<generation, firstAttemptAt, inFlight,
                         inFlightGeneration, restartRequestedForGeneration>>
        BY <1>1 DEF SampleArrives, Conclusive
    <2>2. seen' \subseteq Directions
        BY <2>1 DEF IInv, TypeOK
    <2>3. CASE seen' = Directions /\ MarkAvailable(x)
        <3>1. ~ MarkExhausted(x)
            BY <2>3 DEF MarkExhausted, MarkAvailable
        <3> QED BY <1>1, <2>1, <2>2, <2>3, <3>1, SettleInv
    <2>4. CASE seen' # Directions /\ Inconclusive(x, attemptCount')
        BY <1>1, <2>1, <2>2, <2>4, InconclusiveInv
    <2> QED BY <2>1, <2>3, <2>4
<1>2. CASE ~ Current(x) /\ FinishInFlight(x)
    BY <1>2, RunningIsCurrent, FinishInv
<1> QED BY <1>1, <1>2 DEF SampleArrives

LEMMA AttemptFailsInv ==
    ASSUME IInv, NEW x \in running, AttemptFails(x)
    PROVE  IInv' /\ CountsCurrent
<1>1. CASE Current(x)
    <2>1. /\ attemptCount' = attemptCount + 1
          /\ Inconclusive(x, attemptCount')
          /\ seen' = seen
          /\ UNCHANGED <<generation, firstAttemptAt, inFlight,
                         inFlightGeneration, restartRequestedForGeneration>>
        BY <1>1 DEF AttemptFails
    <2>2. seen' \subseteq Directions /\ seen' # Directions
        BY <1>1, <2>1 DEF IInv, TypeOK, ProbingHasBudget, Current
    <2> QED BY <1>1, <2>1, <2>2, InconclusiveInv
<1>2. CASE ~ Current(x) /\ FinishInFlight(x)
    BY <1>2, RunningIsCurrent, FinishInv
<1> QED BY <1>1, <1>2 DEF AttemptFails

LEMMA UpdatedInv ==
    ASSUME IInv, NEW x \in running, Updated(x)
    PROVE  IInv' /\ CountsCurrent
<1>1. CASE state # "probing" /\ FinishInFlight(x)
    BY <1>1, FinishInv
<1>2. CASE x.phase = "settling" /\ FinishInFlight(x)
    <2>1. state # "probing"
        BY <1>2, RunningIsCurrent DEF Current, IInv, PhasesFit
    <2> QED BY <1>2, <2>1, FinishInv
<1>3. CASE /\ state = "probing"
           /\ retryHandle' = generation
           /\ timers' = (timers \ {retryHandle}) \cup {generation}
           /\ running' = running \ {x}
           /\ \/ /\ inFlightGeneration = x.token
                 /\ inFlight' = FALSE
                 /\ inFlightGeneration' = Null
              \/ /\ inFlightGeneration # x.token
                 /\ UNCHANGED <<inFlight, inFlightGeneration>>
           /\ UNCHANGED <<observations, verdict,
                          restartRequestedForGeneration>>
    <2>1. /\ timers' = {generation}
          /\ retryHandle' = generation
          /\ generation \in Nat
          /\ running' = {}
          /\ inFlight' = FALSE
          /\ inFlightGeneration' = Null
          /\ UNCHANGED <<attemptCount, firstAttemptAt, seen, state, generation,
                         failureReason, restartRequestedForGeneration>>
        BY <1>3, RunningIsCurrent DEF observations, verdict, IInv, TypeOK
    <2>2. TypeOK'
        BY <2>1 DEF IInv, TypeOK
    <2>3. SingleFlight' /\ ProbingGoesOn' /\ RetryIsHeld'
        BY <1>3, <2>1 DEF SingleFlight, ProbingGoesOn, RetryIsHeld
    <2>4. VerdictIsBacked' /\ RestartIsKept'
        BY <1>3, <2>1 DEF IInv, VerdictIsBacked, RestartIsKept
    <2>5. TokensArePast' /\ PhasesFit' /\ ProbingHasBudget'
        BY <2>1 DEF IInv, TokensArePast, PhasesFit, ProbingHasBudget
    <2>6. CountsCurrent
        BY <2>1 DEF IInv, TypeOK, CountsCurrent
    <2> QED BY <2>2, <2>3, <2>4, <2>5, <2>6 DEF IInv
<1> QED BY <1>1, <1>2, <1>3 DEF Updated

-----------------------------------------------------------------------------
(* Every step                                                              *)

LEMMA NextInv ==
    ASSUME IInv, [Next]_vars
    PROVE  IInv' /\ CountsCurrent
<1>1. CASE UNCHANGED vars
    <2>1. UNCHANGED <<attemptCount, firstAttemptAt, seen, state, generation,
                      failureReason, retryHandle, timers, inFlight,
                      inFlightGeneration, running,
                      restartRequestedForGeneration>>
        BY <1>1 DEF vars, observations, verdict, retry, flight
    <2>2. CountsCurrent
        BY <2>1 DEF IInv, TypeOK, CountsCurrent
    <2> QED BY <2>1, <2>2
            DEF IInv, TypeOK, SingleFlight, ProbingGoesOn, VerdictIsBacked,
                RestartIsKept, RetryIsHeld, TokensArePast, PhasesFit,
                ProbingHasBudget
<1>2. CASE MaybeStart \/ RestartWhenIdle
    BY <1>2, StartsInv
<1>3. CASE Invalidate
    BY <1>3, WithdrawInv DEF Invalidate
<1>4. CASE Reset
    BY <1>4, WithdrawInv DEF Reset
<1>5. CASE TimePasses
    BY <1>5, TimePassesInv
<1>6. CASE Probe
    BY <1>6, TimerFiresInv, StatsArriveInv, SampleArrivesInv, AttemptFailsInv,
       UpdatedInv
       DEF Probe, Proceed
<1> QED BY <1>1, <1>2, <1>3, <1>4, <1>5, <1>6 DEF Next

-----------------------------------------------------------------------------
(* Theorems                                                                *)

\* Whatever the session does and whenever answers and timers come, the
\* controller stays in the states that the invariant describes.
THEOREM Invariance == Spec => []IInv
<1>1. IInv /\ [Next]_vars => IInv'
    BY NextInv
<1> QED BY <1>1, InitInv, PTL DEF Spec

\* The controller's fields stay well formed; attempts are never more than
\* maximumAttempts.
THEOREM TypeCorrect == Spec => []TypeOK
<1>1. IInv => TypeOK
    BY DEF IInv
<1> QED BY <1>1, Invariance, PTL

\* No two calls of runAttempt overlap, and the two fields that guard against
\* it always describe the one there is.
THEOREM FlightCorrect == Spec => []SingleFlight
<1>1. IInv => SingleFlight
    BY DEF IInv
<1> QED BY <1>1, Invariance, PTL

\* A controller that probes has exactly one way to go on: its own attempt
\* or its own retry timer.
THEOREM NeverStuck == Spec => []ProbingGoesOn
<1>1. IInv => ProbingGoesOn
    BY DEF IInv
<1> QED BY <1>1, Invariance, PTL

\* Available means both directions were seen in this very generation.
THEOREM VerdictCorrect == Spec => []VerdictIsBacked
<1>1. IInv => VerdictIsBacked
    BY DEF IInv
<1> QED BY <1>1, Invariance, PTL

\* A restart that is due always has an attempt whose end will serve it.
THEOREM RestartCorrect == Spec => []RestartIsKept
<1>1. IInv => RestartIsKept
    BY DEF IInv
<1> QED BY <1>1, Invariance, PTL

\* An answer that arrives after its generation was withdrawn is ignored.
THEOREM StaleIgnored == Spec => OnlyCurrentCounts
<1>1. IInv /\ [Next]_vars => [CountsCurrent]_vars
    BY NextInv
<1> QED BY <1>1, Invariance, PTL DEF Spec, OnlyCurrentCounts, CountsCurrent
=============================================================================
