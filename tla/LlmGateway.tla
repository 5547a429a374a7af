----------------------------- MODULE LlmGateway -----------------------------
(***************************************************************************)
(* The LLM gateway of the API process (class LLMGateway): mock mode, the   *)
(* sliding window of the rate limiter, and what a caller gets to see.      *)
(*                                                                         *)
(* The lock section of _check_rate_limit has no await in it, so a call is  *)
(* counted in one step.  The content of an answer is abstracted to the     *)
(* classes that its readers tell apart.                                    *)
(***************************************************************************)
EXTENDS Integers, Sequences, FiniteSets

CONSTANTS
    Limit,          \* LLM_RATE_LIMIT_PER_MINUTE
    Period,         \* length of the window (60 seconds in the code)
    MaxTime         \* the last moment of a behaviour (a bound for TLC)

ASSUME LimiterSizes == Limit \in Nat \ {0} /\ Period \in Nat \ {0} /\ MaxTime \in Nat

VARIABLES
    mock,           \* no ANTHROPIC_API_KEY
    now,            \* time.monotonic()
    window,         \* _rate_window: times of the calls that count, oldest first
    admitted        \* history: times of all calls admitted by this process

gatewayVars == <<mock, now, window, admitted>>
-----------------------------------------------------------------------------
\* What an answer can hold: a number in range or above it, NaN, a JSON object
\* with instruction and output, other text.
Contents == {"half", "above", "nan", "pair", "text"}

\* 429 of the limiter, and every other failure as the caller sees it.
Failures == {"limited", "failed"}

Answers == Contents \cup Failures

\* The entries that the loop pops: it stops at the first one that still counts.
Expired(w, t) == {i \in DOMAIN w : \A j \in 1..i : t - w[j] >= Period}

Prune(w, t) == SubSeq(w, Cardinality(Expired(w, t)) + 1, Len(w))

\* Mutation: the capacity is checked with > instead of >=.
HasRoomOffByOne(w, t) == Len(Prune(w, t)) <= Limit

HasRoom(w, t) == Len(Prune(w, t)) < Limit

\* One call of complete(), as seen by the caller.
Complete(answer) ==
    \/ /\ mock
       /\ answer = "half"
       /\ UNCHANGED gatewayVars
    \/ /\ ~mock /\ HasRoom(window, now)
       /\ answer \in Contents \cup {"failed"}
       /\ window' = Append(Prune(window, now), now)
       /\ admitted' = Append(admitted, now)
       /\ UNCHANGED <<mock, now>>
    \/ /\ ~mock /\ ~HasRoom(window, now)
       /\ answer = "limited"
       /\ window' = Prune(window, now)
       /\ UNCHANGED <<mock, now, admitted>>

\* A call over HTTP (POST /api/internal/llm/completions): it may not arrive.
\* An answer that comes too late has been counted, and is a failure of Complete.
Post(answer) ==
    \/ Complete(answer)
    \/ answer = "failed" /\ UNCHANGED gatewayVars

Tick ==
    /\ now < MaxTime
    /\ now' = now + 1
    /\ UNCHANGED <<mock, window, admitted>>

\* The process starts again with a new gateway.
GatewayRestart ==
    /\ admitted # << >>
    /\ window' = << >>
    /\ admitted' = << >>
    /\ UNCHANGED <<mock, now>>

GatewayInit ==
    /\ mock \in BOOLEAN
    /\ now = 0
    /\ window = << >>
    /\ admitted = << >>

\* The gateway on its own, with callers that call at any time.
GatewayNext == (\E a \in Answers : Post(a)) \/ Tick \/ GatewayRestart

GatewaySpec == GatewayInit /\ [][GatewayNext]_gatewayVars
-----------------------------------------------------------------------------
\* No stretch of time that is shorter than the period has more admitted calls
\* than the limit, whoever makes them; a restart starts to count again.
RateLimit ==
    \A i, j \in DOMAIN admitted :
        j - i >= Limit => admitted[j] - admitted[i] >= Period
=============================================================================
