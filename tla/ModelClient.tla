------------------------------ MODULE ModelClient ------------------------------
(***************************************************************************)
(* The retry loops in front of the model provider: _call of vlm_call.py    *)
(* (Arch 1), call_vision_json of vlm_client.py (Arch 2 and 3),             *)
(* call_text_json of llm.py (Arch 3) and _call of judge.py.  They are one  *)
(* loop with three differences: how often it tries, whether it keeps       *)
(* asking for JSON mode, and whether it catches a completion that is not   *)
(* JSON.                                                                   *)
(*                                                                         *)
(* The provider is external: it may refuse a request by its rate limit     *)
(* only while a request it served is less than a window old.  Several      *)
(* clients share one account (the upload handler and the stream threads).  *)
(***************************************************************************)
EXTENDS Naturals

CONSTANTS
    Clients,       \* callers that may be in a call at the same time
    Salvaging,     \* those that run the monolith's loop
    MaxAttempts,   \* MAX_ATTEMPTS of each
    RateBackoff,   \* 20 seconds, times the number of the attempt
    ReplyBackoff,  \* 2 seconds
    Window         \* the minute of the provider's token limit

ASSUME ClientAssumption ==
    /\ Salvaging \subseteq Clients
    /\ MaxAttempts \in [Clients -> Nat \ {0, 1, 2}]
    /\ \A c \in Salvaging : MaxAttempts[c] > 3
    /\ RateBackoff \in Nat /\ ReplyBackoff \in Nat /\ Window \in Nat
    /\ 3 * RateBackoff >= Window

VARIABLES
    phase,      \* where each call is
    attempt,    \* the loop variable of each call
    wait,       \* how long its time.sleep still takes
    errors,     \* the kinds of error it has caught
    overtaken,  \* has the provider served someone else during the call
    since       \* time since the provider last served anyone, up to Window

clientVars == <<phase, attempt, wait, errors, overtaken, since>>

Ended == {"answered", "gave_up", "raised"}

Errors == {"refused", "overrun", "no_json"}

ClientTypeOK ==
    /\ phase \in [Clients -> {"none", "asking", "sleeping"} \cup Ended]
    /\ attempt \in [Clients -> Nat]
    /\ \A c \in Clients : attempt[c] <= MaxAttempts[c]
    /\ wait \in [Clients -> Nat]
    /\ errors \in [Clients -> SUBSET Errors]
    /\ overtaken \in [Clients -> BOOLEAN]
    /\ since \in 0..Window

ClientInit ==
    /\ phase = [c \in Clients |-> "none"]
    /\ attempt = [c \in Clients |-> 0]
    /\ wait = [c \in Clients |-> 0]
    /\ errors = [c \in Clients |-> {}]
    /\ overtaken = [c \in Clients |-> FALSE]
    /\ since \in 0..Window

(* The monolith asks for JSON mode once, the others every time.            *)
JsonMode(c) == c \in Salvaging => attempt[c] = 0

Begin(c) ==
    /\ phase[c] \in {"none"} \cup Ended
    /\ phase' = [phase EXCEPT ![c] = "asking"]
    /\ attempt' = [attempt EXCEPT ![c] = 0]
    /\ errors' = [errors EXCEPT ![c] = {}]
    /\ overtaken' = [overtaken EXCEPT ![c] = FALSE]
    /\ UNCHANGED <<wait, since>>

-----------------------------------------------------------------------------
(* What becomes of one request.                                            *)

(* The provider worked on c's request.                                     *)
Served(c) ==
    /\ since' = 0
    /\ overtaken' = [o \in Clients |-> overtaken[o] \/ o # c]

Unserved == UNCHANGED <<since, overtaken>>

(* The call is over.                                                       *)
End(c, how) ==
    /\ phase' = [phase EXCEPT ![c] = how]
    /\ UNCHANGED <<attempt, wait, errors>>

(* Mutant: a rate limit is slept off like any other error.                 *)
ShortRateBackoff(c) == ReplyBackoff

BackoffAfterLimit(c) == RateBackoff * (attempt[c] + 1)

(* Mutant: a refused request does not count as an attempt.                 *)
RetryUncounted(c, error, seconds) ==
    /\ errors' = [errors EXCEPT ![c] = @ \cup {error}]
    /\ wait' = [wait EXCEPT ![c] = seconds]
    /\ attempt' = [attempt EXCEPT ![c] = IF error = "refused" THEN @ ELSE @ + 1]
    /\ phase' = [phase EXCEPT ![c] = "sleeping"]

(* An except clause that notes the error and sleeps, the last time too.    *)
Retry(c, error, seconds) ==
    /\ errors' = [errors EXCEPT ![c] = @ \cup {error}]
    /\ wait' = [wait EXCEPT ![c] = seconds]
    /\ attempt' = [attempt EXCEPT ![c] = @ + 1]
    /\ phase' = [phase EXCEPT ![c] = "sleeping"]

(* A JSON object, or for the salvaging parser one inside other text.       *)
Completion(c) ==
    /\ End(c, "answered")
    /\ Served(c)

(* No object in the completion, or no content: only the monolith has an    *)
(* except clause for it.                                                   *)
NoJson(c) ==
    /\ IF c \in Salvaging THEN Retry(c, "no_json", ReplyBackoff) ELSE End(c, "raised")
    /\ Served(c)

(* json_validate_failed: the model thought until its tokens were gone.     *)
Overrun(c) ==
    /\ JsonMode(c)
    /\ Retry(c, "overrun", ReplyBackoff)
    /\ Served(c)

(* RateLimitError.                                                         *)
Refuse(c) ==
    /\ since < Window
    /\ Retry(c, "refused", BackoffAfterLimit(c))
    /\ Unserved

(* Any other exception of the provider's library leaves the loop.          *)
Fault(c) ==
    /\ End(c, "raised")
    /\ Unserved

Ask(c) ==
    /\ phase[c] = "asking"
    /\ Completion(c) \/ NoJson(c) \/ Overrun(c) \/ Refuse(c) \/ Fault(c)

(* Mutant: the loop goes round once too often.                             *)
WakeOnceMore(c) ==
    /\ phase[c] = "sleeping"
    /\ wait[c] = 0
    /\ phase' = [phase EXCEPT ![c] = IF attempt[c] <= MaxAttempts[c] THEN "asking" ELSE "gave_up"]
    /\ UNCHANGED <<attempt, wait, errors, overtaken, since>>

(* The sleep is over: round the loop again, or the RuntimeError after it.  *)
Wake(c) ==
    /\ phase[c] = "sleeping"
    /\ wait[c] = 0
    /\ phase' = [phase EXCEPT ![c] = IF attempt[c] < MaxAttempts[c] THEN "asking" ELSE "gave_up"]
    /\ UNCHANGED <<attempt, wait, errors, overtaken, since>>

(* A unit of time passes, for every sleeper and for the window.            *)
Tick ==
    /\ since < Window \/ \E c \in Clients : wait[c] > 0
    /\ since' = IF since < Window THEN since + 1 ELSE Window
    /\ wait' = [c \in Clients |-> IF wait[c] > 0 THEN wait[c] - 1 ELSE 0]
    /\ UNCHANGED <<phase, attempt, errors, overtaken>>

ClientNext == (\E c \in Clients : Begin(c) \/ Ask(c) \/ Wake(c)) \/ Tick

ClientSpec == ClientInit /\ [][ClientNext]_clientVars

(* A request returns or times out, a sleep ends, and time passes.          *)
FairClientSpec ==
    /\ ClientSpec
    /\ \A c \in Clients : WF_clientVars(Ask(c)) /\ WF_clientVars(Wake(c))
    /\ WF_clientVars(Tick)

-----------------------------------------------------------------------------
(* "RateLimitError (the 8000 TPM cap) backs off longer since the window is *)
(* per-minute" (vlm_client.py:58-59), and the monolith drops JSON mode     *)
(* because "retrying strict JSON mode forever can never succeed"           *)
(* (vlm_call.py:168-171).  So a call that nobody overtook gives up only    *)
(* after a completion of its own was bad; the monolith not for an overrun, *)
(* but only for a completion without an object.  The other loops, which do *)
(* not catch such a completion, never ask again after one                  *)
(* (vlm_client.py:70-78, llm.py:51-59, judge.py:54-62).                    *)
GivesUpOnlyOnBadCompletions ==
    /\ \A c \in Clients :
          (phase[c] = "gave_up" /\ ~overtaken[c]) =>
              IF c \in Salvaging THEN "no_json" \in errors[c] ELSE "overrun" \in errors[c]
    /\ \A c \in Clients \ Salvaging : "no_json" \notin errors[c]

(* What a caller sees of a call, and how often the call has asked: the     *)
(* attempt that ended a call is not counted by the loop variable.          *)
OutcomeOf(p) ==
    CASE p = "none" -> "none"
      [] p \in {"asking", "sleeping"} -> "pending"
      [] p = "answered" -> "answered"
      [] OTHER -> "failed"

AskedOf(p, n) == IF p \in {"answered", "raised"} THEN n + 1 ELSE n

OutcomeNow == [c \in Clients |-> OutcomeOf(phase[c])]

AskedNow == [c \in Clients |-> AskedOf(phase[c], attempt[c])]

(* A call asks at most MAX_ATTEMPTS times and ends, whatever the provider  *)
(* answers and whoever shares its limit (vlm_call.py:166-195,              *)
(* vlm_client.py:61-79, llm.py:37-60, judge.py:44-63).                     *)
Abstract ==
    INSTANCE ModelCall WITH
        Budget <- MaxAttempts, outcome <- OutcomeNow, asked <- AskedNow

CallSpec == Abstract!FairSpec

=============================================================================
