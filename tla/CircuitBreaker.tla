--------------------------- MODULE CircuitBreaker ---------------------------
(***************************************************************************)
(* The circuit breaker of src/resilience/circuitBreaker.ts, as             *)
(* ResilientUpstreamConnection puts it around every listTools and callTool *)
(* of one upstream connection.                                             *)
(*                                                                         *)
(* execute() awaits the wrapped call between its admission and onSuccess   *)
(* or onFailure, so calls overlap: one that was admitted while the breaker *)
(* was CLOSED may settle while it is OPEN or HALF_OPEN.  Every run of code *)
(* between two awaits is one action.                                       *)
(*                                                                         *)
(* Time is what the code reads of it: the milliseconds since the last      *)
(* failure, up to resetTimeoutMs.  consecutiveFailures is only compared    *)
(* with failureThreshold, so it saturates there.  The three totals of      *)
(* getStats() are statistics nothing reads and are left out.               *)
(***************************************************************************)
EXTENDS Naturals, FiniteSets

CONSTANTS
    UpstreamCalls,      \* calls that may be in flight at the same time
    FailureThreshold,   \* this.failureThreshold
    ResetTimeout,       \* this.resetTimeoutMs, in ticks
    HalfOpenMaxCalls    \* this.halfOpenMaxCalls

(* The constructor clamps the three options with Math.max. *)
ASSUME UpstreamCallsAssumption == IsFiniteSet(UpstreamCalls)
ASSUME FailureThresholdAssumption == FailureThreshold \in Nat \ {0}
ASSUME ResetTimeoutAssumption == ResetTimeout \in Nat \ {0}
ASSUME HalfOpenMaxCallsAssumption == HalfOpenMaxCalls \in Nat \ {0}

VARIABLES
    state,                \* this.state
    consecutiveFailures,  \* this.consecutiveFailures
    sinceFailure,         \* Date.now() - this.lastFailureTime, or NoFailure
    halfOpenCalls,        \* this.halfOpenCalls
    phase,                \* of each call: idle, in flight, or rejected with 503
    probes                \* history: calls admitted in this HALF_OPEN period

breakerVars == <<state, consecutiveFailures, sinceFailure, halfOpenCalls, phase, probes>>

NoFailure == ResetTimeout + 1   \* lastFailureTime === null

States == {"CLOSED", "OPEN", "HALF_OPEN"}
Phases == {"idle", "pending", "rejected"}

BreakerTypeOK ==
    /\ state \in States
    /\ consecutiveFailures \in 0..FailureThreshold
    /\ sinceFailure \in 0..ResetTimeout \cup {NoFailure}
    /\ halfOpenCalls \in 0..HalfOpenMaxCalls
    /\ phase \in [UpstreamCalls -> Phases]
    /\ probes \subseteq UpstreamCalls

BreakerInit ==
    /\ state = "CLOSED"
    /\ consecutiveFailures = 0
    /\ sinceFailure = NoFailure
    /\ halfOpenCalls = 0
    /\ phase = [c \in UpstreamCalls |-> "idle"]
    /\ probes = {}

Pending == {c \in UpstreamCalls : phase[c] = "pending"}

-----------------------------------------------------------------------------
(* evaluateState() *)

ResetElapsed == state = "OPEN" /\ sinceFailure = ResetTimeout

EvaluatedState == IF ResetElapsed THEN "HALF_OPEN" ELSE state

EvaluatedHalfOpenCallsNotCleared == halfOpenCalls

EvaluatedHalfOpenCalls == IF ResetElapsed THEN 0 ELSE halfOpenCalls

EvaluatedProbes == IF ResetElapsed THEN {} ELSE probes

(* getState() and getStats(): reading the state moves it. *)
GetState ==
    /\ ResetElapsed
    /\ state' = EvaluatedState
    /\ halfOpenCalls' = EvaluatedHalfOpenCalls
    /\ probes' = EvaluatedProbes
    /\ UNCHANGED <<consecutiveFailures, sinceFailure, phase>>

-----------------------------------------------------------------------------
(* execute() up to the await *)

RejectsOneProbeLate ==
    \/ EvaluatedState = "OPEN"
    \/ EvaluatedState = "HALF_OPEN" /\ EvaluatedHalfOpenCalls > HalfOpenMaxCalls

Rejects ==
    \/ EvaluatedState = "OPEN"
    \/ EvaluatedState = "HALF_OPEN" /\ EvaluatedHalfOpenCalls >= HalfOpenMaxCalls

Admit(c) ==
    /\ phase[c] = "idle"
    /\ ~Rejects
    /\ state' = EvaluatedState
    /\ phase' = [phase EXCEPT ![c] = "pending"]
    /\ IF EvaluatedState = "HALF_OPEN"
       THEN /\ halfOpenCalls' = EvaluatedHalfOpenCalls + 1
            /\ probes' = EvaluatedProbes \cup {c}
       ELSE UNCHANGED <<halfOpenCalls, probes>>
    /\ UNCHANGED <<consecutiveFailures, sinceFailure>>

ShortCircuit(c) ==
    /\ phase[c] = "idle"
    /\ Rejects
    /\ state' = EvaluatedState
    /\ halfOpenCalls' = EvaluatedHalfOpenCalls
    /\ probes' = EvaluatedProbes
    /\ phase' = [phase EXCEPT ![c] = "rejected"]
    /\ UNCHANGED <<consecutiveFailures, sinceFailure>>

(* The caller of a rejected call has its error and may call again. *)
TryAgain(c) ==
    /\ phase[c] = "rejected"
    /\ phase' = [phase EXCEPT ![c] = "idle"]
    /\ UNCHANGED <<state, consecutiveFailures, sinceFailure, halfOpenCalls, probes>>

-----------------------------------------------------------------------------
(* execute() after the await *)

OnSuccess(c) ==
    /\ phase[c] = "pending"
    /\ state' = "CLOSED"
    /\ consecutiveFailures' = 0
    /\ halfOpenCalls' = 0
    /\ phase' = [phase EXCEPT ![c] = "idle"]
    /\ probes' = {}
    /\ UNCHANGED sinceFailure

FailuresPlusOne ==
    IF consecutiveFailures = FailureThreshold THEN FailureThreshold
                                              ELSE consecutiveFailures + 1

OnFailureForgetsTime(c) ==
    /\ phase[c] = "pending"
    /\ consecutiveFailures' = FailuresPlusOne
    /\ state' = IF state = "HALF_OPEN" \/ FailuresPlusOne >= FailureThreshold
                THEN "OPEN" ELSE state
    /\ phase' = [phase EXCEPT ![c] = "idle"]
    /\ probes' = {}
    /\ UNCHANGED <<sinceFailure, halfOpenCalls>>

OnFailure(c) ==
    /\ phase[c] = "pending"
    /\ consecutiveFailures' = FailuresPlusOne
    /\ sinceFailure' = 0
    /\ state' = IF state = "HALF_OPEN" \/ FailuresPlusOne >= FailureThreshold
                THEN "OPEN" ELSE state
    /\ phase' = [phase EXCEPT ![c] = "idle"]
    /\ probes' = {}
    /\ UNCHANGED halfOpenCalls

-----------------------------------------------------------------------------
Reset ==
    /\ state' = "CLOSED"
    /\ consecutiveFailures' = 0
    /\ sinceFailure' = NoFailure
    /\ halfOpenCalls' = 0
    /\ probes' = {}
    /\ UNCHANGED phase

(* The clock; Date.now() is taken not to step backwards. *)
Tick ==
    /\ sinceFailure < ResetTimeout
    /\ sinceFailure' = sinceFailure + 1
    /\ UNCHANGED <<state, consecutiveFailures, halfOpenCalls, phase, probes>>

BreakerNext ==
    \/ GetState
    \/ \E c \in UpstreamCalls :
          \/ Admit(c)
          \/ ShortCircuit(c)
          \/ TryAgain(c)
          \/ OnSuccess(c)
          \/ OnFailure(c)
    \/ Reset
    \/ Tick

BreakerSpec == BreakerInit /\ [][BreakerNext]_breakerVars

(* The clock runs, the MCP client bounds every upstream request with its    *)
(* own timeout, and the callers keep calling.                               *)
BreakerFairness ==
    /\ WF_breakerVars(Tick)
    /\ \A c \in UpstreamCalls :
          /\ WF_breakerVars(OnSuccess(c) \/ OnFailure(c))
          /\ WF_breakerVars(Admit(c) \/ ShortCircuit(c))
          /\ WF_breakerVars(TryAgain(c))

FairBreakerSpec == BreakerSpec /\ BreakerFairness

-----------------------------------------------------------------------------
(* Safety *)

(* The breaker is CLOSED exactly while the failures in a row stay below the *)
(* threshold: no interleaving of late successes, late failures, probes and  *)
(* reset() leaves it closed with a full count, or open with a reset one.    *)
ThresholdDecidesState ==
    state = "CLOSED" <=> consecutiveFailures < FailureThreshold

(* Every half-open slot that is taken belongs to a probe of this period     *)
(* that is still in flight.  A slot whose call had already settled would    *)
(* never be given back, since only a settling call leaves HALF_OPEN, and    *)
(* the upstream would be rejected for good.                                 *)
NoOrphanedSlot ==
    state = "HALF_OPEN" =>
        /\ probes \subseteq Pending
        /\ halfOpenCalls = Cardinality(probes)

(* What the calls that are still running, admitted in whatever period of    *)
(* the breaker, leave of its state.                                         *)
StateMatchesItsCalls == ThresholdDecidesState /\ NoOrphanedSlot

(* Once the failures in a row have reached the threshold, a call reaches    *)
(* the upstream only when the last failure, of whatever call, is at least   *)
(* one reset timeout old and no more probes than allowed are running.       *)
AdmissionsAfterOpening ==
    [][\A c \in UpstreamCalls :
          phase[c] # "pending" /\ phase'[c] = "pending"
          /\ consecutiveFailures = FailureThreshold
            => sinceFailure = ResetTimeout /\ Cardinality(probes') <= HalfOpenMaxCalls]_breakerVars

-----------------------------------------------------------------------------
(* Liveness *)

(* While callers keep calling, the breaker is never rejecting for good:     *)
(* it leaves OPEN and HALF_OPEN again and again, even when late failures    *)
(* keep moving lastFailureTime.                                             *)
NeverStuck == []<>(state # "OPEN") /\ []<>(state # "HALF_OPEN")

(* When from some point on no call of the upstream fails, the breaker ends  *)
(* up CLOSED and stays so.                                                  *)
ClosesOnceFailuresStop ==
    []<><<\E c \in UpstreamCalls : OnFailure(c)>>_breakerVars \/ <>[](state = "CLOSED")

(* An upstream that recovers is used again, and one that does not is tried. *)
Recovers == NeverStuck /\ ClosesOnceFailuresStop

=============================================================================
