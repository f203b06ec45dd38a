---------------------------- MODULE RtpPreflight ----------------------------
(***************************************************************************)
(* RtpStatsPreflightController of the live session (stats-preflight.ts):   *)
(* it asks the peer connection for statistics, again and again, until it   *)
(* has seen genuine audio counters in both directions.                     *)
(*                                                                         *)
(* Its code runs on one thread, but an attempt awaits getStats and         *)
(* collectNormalizedStats, retries come from timers, and onUpdate calls    *)
(* back into the session, which may start, invalidate, restart or reset    *)
(* the controller before the attempt goes on.  An action is the code from  *)
(* one such point to the next.  onUpdate is the last thing that invalidate *)
(* and reset do, so what it calls then are steps of their own.             *)
(*                                                                         *)
(* An attempt is in phase "stats" or "sample" while it awaits, "updating"  *)
(* while it calls onUpdate before it schedules a retry, and "settling"     *)
(* while markAvailable or markExhausted calls it.                          *)
(***************************************************************************)
EXTENDS Naturals

CONSTANTS
    MaximumAttempts,    \* config.maximumAttempts
    MaxGeneration,      \* bound: the session stops interfering there
    Null

ASSUME PreflightAssumption ==
    /\ MaximumAttempts \in Nat \ {0}
    /\ MaxGeneration \in Nat
    /\ Null \notin Nat

VARIABLES
    state,
    generation,
    attemptCount,
    firstAttemptAt,     \* Null, "recent" or "expired": maximumDurationMs ago
    seen,               \* inboundAudioSeen, outboundAudioSeen
    failureReason,      \* Null or the state that has one
    retryHandle,        \* the token of the timer last scheduled
    timers,             \* the tokens of the timers that have not fired
    inFlight,
    inFlightGeneration,
    restartRequestedForGeneration,
    running             \* the calls of runAttempt that have not returned

observations == <<attemptCount, firstAttemptAt, seen>>
verdict      == <<state, generation, failureReason>>
retry        == <<retryHandle, timers>>
flight       == <<inFlight, inFlightGeneration, running>>

vars == <<observations, verdict, retry, flight, restartRequestedForGeneration>>

States     == {"idle", "probing", "available", "exhausted", "cancelled"}
Directions == {"inbound", "outbound"}
Attempt    == [token : Nat, phase : {"stats", "sample", "updating", "settling"}]

\* No attempt is inside onUpdate, so the event loop may run something else.
ThreadIsFree == \A x \in running : x.phase \in {"stats", "sample"}

Init ==
    /\ state = "idle"
    /\ generation = 0
    /\ attemptCount = 0
    /\ firstAttemptAt = Null
    /\ seen = {}
    /\ failureReason = Null
    /\ retryHandle = Null
    /\ timers = {}
    /\ inFlight = FALSE
    /\ inFlightGeneration = Null
    /\ restartRequestedForGeneration = Null
    /\ running = {}

-----------------------------------------------------------------------------
(* Parts of the operations                                                 *)

ResetGenerationObservations ==
    /\ attemptCount' = 0
    /\ firstAttemptAt' = Null
    /\ seen' = {}

ClearPendingRetry ==
    /\ retryHandle' = Null
    /\ timers' = timers \ {retryHandle}

RequestRestartWhenIdle ==
    /\ restartRequestedForGeneration' = generation
    /\ UNCHANGED <<observations, verdict, retry, flight>>

\* runAttempt up to its first await; the other calls still running are rest.
Launch(rest, token) ==
    /\ inFlight' = TRUE
    /\ inFlightGeneration' = token
    /\ running' = rest \cup {[token |-> token, phase |-> "stats"]}

\* The attempt that it launches is the first of its generation.
StartNewGeneration(rest) ==
    /\ generation' = generation + 1
    /\ state' = "probing"
    /\ failureReason' = Null
    /\ attemptCount' = 0
    /\ firstAttemptAt' = "recent"
    /\ seen' = {}
    /\ ClearPendingRetry
    /\ Launch(rest, generation + 1)

\* Mutant: one attempt too many.
ShouldContinueLate(count) ==
    /\ count <= MaximumAttempts
    /\ firstAttemptAt # "expired"

ShouldContinueProbing(count) ==
    /\ count < MaximumAttempts
    /\ firstAttemptAt # "expired"

\* Mutant: what the attempt found is used whatever happened meanwhile.
CurrentAlways(x) == TRUE

\* The attempt still belongs to the generation that probes.
Current(x) == x.token = generation /\ state = "probing"

\* Mutants: a session that waits for the attempt to end is forgotten,
\* always or after a reset.
RestartIsDueNever == FALSE

RestartIsDueCancelled ==
    /\ restartRequestedForGeneration = generation
    /\ state = "cancelled"

RestartIsDue ==
    /\ restartRequestedForGeneration = generation
    /\ state \in {"cancelled", "idle"}

FinishInFlight(x) ==
    \/ /\ inFlightGeneration # x.token
       /\ running' = running \ {x}
       /\ UNCHANGED <<observations, verdict, retry, inFlight,
                      inFlightGeneration, restartRequestedForGeneration>>
    \/ /\ inFlightGeneration = x.token
       /\ RestartIsDue
       /\ restartRequestedForGeneration' = Null
       /\ StartNewGeneration(running \ {x})
    \/ /\ inFlightGeneration = x.token
       /\ ~ RestartIsDue
       /\ inFlight' = FALSE
       /\ inFlightGeneration' = Null
       /\ running' = running \ {x}
       /\ UNCHANGED <<observations, verdict, retry,
                      restartRequestedForGeneration>>

MovedTo(x, phase) ==
    running' = (running \ {x}) \cup {[token |-> x.token, phase |-> phase]}

MarkAvailable(x) ==
    /\ state' = "available"
    /\ failureReason' = Null
    /\ ClearPendingRetry
    /\ MovedTo(x, "settling")

MarkExhausted(x) ==
    /\ state' = "exhausted"
    /\ failureReason' = "exhausted"
    /\ ClearPendingRetry
    /\ MovedTo(x, "settling")

\* The attempt found nothing new that settles the matter.
Inconclusive(x, count) ==
    \/ /\ ~ ShouldContinueProbing(count)
       /\ MarkExhausted(x)
    \/ /\ ShouldContinueProbing(count)
       /\ MovedTo(x, "updating")
       /\ UNCHANGED <<state, failureReason, retry>>

-----------------------------------------------------------------------------
(* Calls of the session, at any time and also from within onUpdate         *)

MaybeStart ==
    \/ /\ state \notin {"available", "exhausted"}
       /\ inFlight
       /\ RequestRestartWhenIdle
    \/ /\ state = "idle"
       /\ ~ inFlight
       /\ generation < MaxGeneration
       /\ StartNewGeneration(running)
       /\ UNCHANGED restartRequestedForGeneration

\* Mutants: the attempt in flight is disowned; the timer keeps running.
InvalidateDisowning ==
    /\ generation < MaxGeneration
    /\ generation' = generation + 1
    /\ state' = "cancelled"
    /\ failureReason' = "cancelled"
    /\ restartRequestedForGeneration' = Null
    /\ inFlight' = FALSE
    /\ ResetGenerationObservations
    /\ ClearPendingRetry
    /\ UNCHANGED <<inFlightGeneration, running>>

InvalidateTimerKept ==
    /\ generation < MaxGeneration
    /\ generation' = generation + 1
    /\ state' = "cancelled"
    /\ failureReason' = "cancelled"
    /\ restartRequestedForGeneration' = Null
    /\ ResetGenerationObservations
    /\ UNCHANGED <<flight, retry>>

Invalidate ==
    /\ generation < MaxGeneration
    /\ generation' = generation + 1
    /\ state' = "cancelled"
    /\ failureReason' = "cancelled"
    /\ restartRequestedForGeneration' = Null
    /\ ResetGenerationObservations
    /\ ClearPendingRetry
    /\ UNCHANGED flight

RestartWhenIdle ==
    \/ /\ state # "available"
       /\ inFlight
       /\ RequestRestartWhenIdle
    \/ /\ state \in {"cancelled", "idle"}
       /\ ~ inFlight
       /\ generation < MaxGeneration
       /\ StartNewGeneration(running)
       /\ UNCHANGED restartRequestedForGeneration

Reset ==
    /\ generation < MaxGeneration
    /\ generation' = generation + 1
    /\ state' = "idle"
    /\ failureReason' = Null
    /\ restartRequestedForGeneration' = Null
    /\ ResetGenerationObservations
    /\ ClearPendingRetry
    /\ UNCHANGED flight

-----------------------------------------------------------------------------
(* Timers and attempts                                                     *)

\* maximumDurationMs have passed since the first attempt.
TimePasses ==
    /\ firstAttemptAt = "recent"
    /\ firstAttemptAt' = "expired"
    /\ UNCHANGED <<attemptCount, seen, verdict, retry, flight,
                   restartRequestedForGeneration>>

\* The callback of scheduleNextAttempt, and runAttempt to its first await.
TimerFires(token) ==
    /\ ThreadIsFree
    /\ token \in timers
    /\ timers' = timers \ {token}
    /\ IF token = generation /\ state = "probing" /\ ~ inFlight
       THEN /\ Launch(running, token)
            /\ firstAttemptAt' = IF firstAttemptAt = Null THEN "recent"
                                                          ELSE firstAttemptAt
       ELSE UNCHANGED <<flight, firstAttemptAt>>
    /\ UNCHANGED <<attemptCount, seen, verdict, retryHandle,
                   restartRequestedForGeneration>>

\* getStats resolved.
StatsArrive(x) ==
    /\ ThreadIsFree
    /\ x.phase = "stats"
    /\ \/ /\ Current(x)
          /\ MovedTo(x, "sample")
          /\ UNCHANGED <<observations, verdict, retry, inFlight,
                         inFlightGeneration, restartRequestedForGeneration>>
       \/ /\ ~ Current(x)
          /\ FinishInFlight(x)

\* Mutant: audio in one direction will do.
ConclusiveOneWay(found) == found # {}

Conclusive(found) == found = Directions

\* collectNormalizedStats resolved with counters in the directions found.
SampleArrives(x, found) ==
    /\ ThreadIsFree
    /\ x.phase = "sample"
    /\ \/ /\ Current(x)
          /\ attemptCount' = attemptCount + 1
          /\ seen' = seen \cup found
          /\ \/ Conclusive(seen') /\ MarkAvailable(x)
             \/ ~ Conclusive(seen') /\ Inconclusive(x, attemptCount')
          /\ UNCHANGED <<generation, firstAttemptAt, inFlight,
                         inFlightGeneration, restartRequestedForGeneration>>
       \/ /\ ~ Current(x)
          /\ FinishInFlight(x)

\* Mutant: an attempt that fails does not count.
AttemptFailsUncounted(x) ==
    /\ ThreadIsFree
    /\ \/ /\ Current(x)
          /\ Inconclusive(x, attemptCount)
          /\ UNCHANGED <<observations, generation, inFlight,
                         inFlightGeneration, restartRequestedForGeneration>>
       \/ /\ ~ Current(x)
          /\ FinishInFlight(x)

\* One of the two calls failed: the catch branch.
AttemptFails(x) ==
    /\ ThreadIsFree
    /\ \/ /\ Current(x)
          /\ attemptCount' = attemptCount + 1
          /\ Inconclusive(x, attemptCount')
          /\ UNCHANGED <<generation, seen, firstAttemptAt, inFlight,
                         inFlightGeneration, restartRequestedForGeneration>>
       \/ /\ ~ Current(x)
          /\ FinishInFlight(x)

\* onUpdate returned: scheduleNextAttempt, then finishInFlight.  While the
\* controller probes there is no restart to serve.
Updated(x) ==
    \/ /\ x.phase = "updating"
       /\ state = "probing"
       /\ retryHandle' = generation
       /\ timers' = (timers \ {retryHandle}) \cup {generation}
       /\ running' = running \ {x}
       /\ \/ /\ inFlightGeneration = x.token
             /\ inFlight' = FALSE
             /\ inFlightGeneration' = Null
          \/ /\ inFlightGeneration # x.token
             /\ UNCHANGED <<inFlight, inFlightGeneration>>
       /\ UNCHANGED <<observations, verdict, restartRequestedForGeneration>>
    \/ /\ x.phase = "updating"
       /\ state # "probing"
       /\ FinishInFlight(x)
    \/ /\ x.phase = "settling"
       /\ FinishInFlight(x)

Proceed(x) ==
    \/ StatsArrive(x)
    \/ \E found \in SUBSET Directions : SampleArrives(x, found)
    \/ AttemptFails(x)
    \/ Updated(x)

Probe ==
    \/ \E x \in running : Proceed(x)
    \/ \E token \in timers : TimerFires(token)

Next ==
    \/ MaybeStart
    \/ Invalidate
    \/ RestartWhenIdle
    \/ Reset
    \/ TimePasses
    \/ Probe

\* getStats settles, callbacks return and timers fire; the session need not
\* do anything and the clock proves nothing.
Spec == Init /\ [][Next]_vars /\ WF_vars(Probe)

-----------------------------------------------------------------------------
(* Properties                                                              *)

TypeOK ==
    /\ state \in States
    /\ generation \in Nat
    /\ attemptCount \in 0 .. MaximumAttempts
    /\ firstAttemptAt \in {Null, "recent", "expired"}
    /\ seen \subseteq Directions
    /\ failureReason \in {Null, "cancelled", "exhausted"}
    /\ retryHandle \in Nat \cup {Null}
    /\ timers \subseteq Nat
    /\ inFlight \in BOOLEAN
    /\ inFlightGeneration \in Nat \cup {Null}
    /\ restartRequestedForGeneration \in Nat \cup {Null}
    /\ running \subseteq Attempt

\* inFlight and inFlightGeneration always describe the one call of
\* runAttempt that has not returned, whichever generation launched it.
SingleFlight ==
    /\ \A x, y \in running : x = y
    /\ inFlight <=> running # {}
    /\ \A x \in running : x.token = inFlightGeneration

\* While it probes, either an attempt of this generation runs or a retry
\* for this generation is pending, never both: probing cannot get stuck and
\* cannot run twice as often.  No retry outlives the probing it was for.
ProbingGoesOn ==
    /\ state = "probing" =>
          \/ /\ inFlight
             /\ inFlightGeneration = generation
             /\ timers = {}
          \/ /\ ~ inFlight
             /\ timers = {generation}
    /\ state # "probing" => timers = {}

\* A verdict has its evidence: both directions for available, a spent budget
\* without them for exhausted, and a reason just for what failed.
VerdictIsBacked ==
    /\ state = "available" => seen = Directions
    /\ state = "exhausted" =>
          /\ seen # Directions
          /\ attemptCount = MaximumAttempts \/ firstAttemptAt = "expired"
    /\ failureReason =
          IF state \in {"cancelled", "exhausted"} THEN state ELSE Null

\* An answer that comes after invalidate, reset or a new generation leaves
\* no trace: counters are only seen, and attempts only counted, by an
\* attempt of the generation that probes.
OnlyCurrentCounts ==
    [][\/ seen' \subseteq seen /\ attemptCount' <= attemptCount
       \/ /\ state = "probing"
          /\ generation' = generation
          /\ \E x \in running : x.token = generation]_vars

\* A restart asked for while an attempt was in flight is kept until that
\* attempt ends.
RestartIsKept ==
    /\ restartRequestedForGeneration = generation
    /\ state \in {"cancelled", "idle"}
    => inFlight

\* It is then served, unless the session withdraws it.
RestartIsServed ==
    /\ restartRequestedForGeneration = generation
    /\ state \in {"cancelled", "idle"}
    ~> \/ state = "probing"
       \/ restartRequestedForGeneration = Null

\* Probing comes to a verdict, or the session ends it.
ProbingEnds == state = "probing" ~> state # "probing"
=============================================================================
