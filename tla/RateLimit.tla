----------------------------- MODULE RateLimit -----------------------------
(***************************************************************************)
(* The rate limiter (src/lib/rate-limit.ts) under the handlers that call   *)
(* it: the public forms, which ask for two limits at once and are refused  *)
(* when Redis does not answer, and the click and view counters, which ask  *)
(* for one and are let through.                                            *)
(*                                                                         *)
(* INCR and EXPIRE are two commands, each with a timeout.  The client      *)
(* retries for ever, so an INCR that timed out may still be carried out    *)
(* later.  A bucket that expired is not read again, its key naming the     *)
(* window, so expiry itself is left out.                                   *)
(***************************************************************************)
EXTENDS Naturals, FiniteSets

CONSTANTS
  Calls,     \* requests to the handlers
  Closed,    \* those of the forms
  Keys,      \* what is limited: an IP address, an email address
  KeysOf,    \* [Calls -> SUBSET Keys]: what each call is limited by
  Limit,     \* [Keys -> Nat]
  MaxWindow  \* bound on windows

\* What the constants must satisfy: an instance assumes it.
RateLimitConstants ==
  /\ IsFiniteSet(Calls) /\ Closed \subseteq Calls /\ MaxWindow \in Nat
  /\ KeysOf \in [Calls -> SUBSET Keys] /\ \A c \in Calls : KeysOf[c] # {}
  /\ Limit \in [Keys -> Nat \ {0}]

VARIABLES
  now,      \* the window the clock is in
  bucket,   \* Redis: the count of each key and window
  check,    \* for each call and key, how far rateLimit has come
  call,     \* the window each call began in, and its outcome
  late,     \* INCRs that timed out and may still be carried out
  lost      \* history: windows in which Redis restarted; it keeps nothing on disk

vars == <<now, bucket, check, call, late, lost>>
-----------------------------------------------------------------------------
Windows == 0..MaxWindow
CallRow == [outcome: {"new", "limits", "stored", "over", "unavailable"}, window: Windows]

Init ==
  /\ now = 0
  /\ bucket = [k \in Keys |-> [w \in Windows |-> 0]]
  /\ check = [c \in Calls |-> [k \in KeysOf[c] |-> "incr"]]
  /\ call = [c \in Calls |-> [outcome |-> "new", window |-> 0]]
  /\ late = {}
  /\ lost = {}
-----------------------------------------------------------------------------
(* rateLimit *)

Begin(c) ==
  /\ call[c].outcome = "new"
  /\ call' = [call EXCEPT ![c] = [outcome |-> "limits", window |-> now]]
  /\ UNCHANGED <<now, bucket, check, late, lost>>

Asking(c, k, state) == call[c].outcome = "limits" /\ k \in KeysOf[c] /\ check[c][k] = state
Answered(c, k, state) == check' = [check EXCEPT ![c][k] = state]

\* The bucket of a window.
BucketOf(w) == w

Incremented(k, w) == bucket' = [bucket EXCEPT ![k][BucketOf(w)] = @ + 1]

Verdict(k, n) == IF n <= Limit[k] THEN "allowed" ELSE "over"

Incr(c, k) ==
  LET n == bucket[k][BucketOf(call[c].window)] + 1 IN
  /\ Asking(c, k, "incr")
  /\ Incremented(k, call[c].window)
  /\ Answered(c, k, IF n = 1 THEN "expire" ELSE Verdict(k, n))
  /\ UNCHANGED <<now, call, late, lost>>

Expire(c, k) ==
  /\ Asking(c, k, "expire")
  /\ Answered(c, k, Verdict(k, 1))
  /\ UNCHANGED <<now, bucket, call, late, lost>>

\* Mutant: a form is let through when Redis does not answer.
WithoutRedisOpen(c) == "waved"
WithoutRedis(c) == IF c \in Closed THEN "unavailable" ELSE "waved"

\* Redis does not answer an INCR in time.
TimeoutIncr(c, k) ==
  /\ Asking(c, k, "incr")
  /\ Answered(c, k, WithoutRedis(c))
  /\ late' = late \cup {<<k, c>>}
  /\ UNCHANGED <<now, bucket, call, lost>>

TimeoutExpire(c, k) ==
  /\ Asking(c, k, "expire")
  /\ Answered(c, k, WithoutRedis(c))
  /\ UNCHANGED <<now, bucket, call, late, lost>>

LateIncr(c, k) ==
  /\ <<k, c>> \in late
  /\ late' = late \ {<<k, c>>}
  /\ Incremented(k, call[c].window)
  /\ UNCHANGED <<now, check, call, lost>>

RestartRedis ==
  /\ \E k \in Keys, w \in Windows : bucket[k][w] > 0
  /\ bucket' = [k \in Keys |-> [w \in Windows |-> 0]]
  /\ lost' = lost \cup 0..now
  /\ UNCHANGED <<now, check, call, late>>
-----------------------------------------------------------------------------
(* The handlers *)

EveryLimit(c) == \A k \in KeysOf[c] : check[c][k] \in {"allowed", "waved"}

\* All limits are answered; an answer that Redis is away comes first.
Reply(c) ==
  LET said == {check[c][k] : k \in KeysOf[c]} IN
  /\ call[c].outcome = "limits" /\ said \cap {"incr", "expire"} = {}
  /\ call' = [call EXCEPT ![c].outcome =
       IF "unavailable" \in said THEN "unavailable" ELSE IF EveryLimit(c) THEN "stored" ELSE "over"]
  /\ UNCHANGED <<now, bucket, check, late, lost>>

NextWindow ==
  /\ now < MaxWindow
  /\ now' = now + 1
  /\ UNCHANGED <<bucket, check, call, late, lost>>

Next ==
  \/ \E c \in Calls : Begin(c) \/ Reply(c)
  \/ \E c \in Calls, k \in Keys :
       \/ Incr(c, k) \/ Expire(c, k) \/ TimeoutIncr(c, k) \/ TimeoutExpire(c, k)
       \/ LateIncr(c, k)
  \/ RestartRedis \/ NextWindow

Spec == Init /\ [][Next]_vars
-----------------------------------------------------------------------------
(* Properties *)

TypeOK ==
  /\ now \in Windows
  /\ bucket \in [Keys -> [Windows -> Nat]]
  /\ \A c \in Calls :
       check[c] \in [KeysOf[c] -> {"incr", "expire", "allowed", "over", "waved", "unavailable"}]
  /\ call \in [Calls -> CallRow]
  /\ late \subseteq Keys \X Calls
  /\ lost \subseteq Windows

In(k, w) == {c \in Calls : k \in KeysOf[c] /\ call[c].outcome # "new" /\ call[c].window = w}

\* No key is let through more often in a window than its limit says, whatever
\* times out, apart from clicks counted while Redis was away: an outage does
\* not lift the limits of the forms (rate-limit.ts:8-16, 39-70).
NeverTooMany ==
  \A k \in Keys, w \in Windows \ lost :
    LET passed == {c \in In(k, w) : call[c].outcome = "stored" /\ (c \in Closed \/ check[c][k] # "waved")}
    IN  Cardinality(passed) <= Limit[k]

\* Nobody is told "too many requests" unless the limit of one of the keys was
\* used up in that window: buckets that never expire and answers that never
\* came do not add up over windows (rate-limit.ts:46-52).
OverMeansOver ==
  \A c \in Calls : call[c].outcome = "over" =>
    \E k \in KeysOf[c] : Cardinality(In(k, call[c].window)) > Limit[k]

\* A limit lets no more through than it says and refuses nobody before.
LimitsHold == NeverTooMany /\ OverMeansOver
=============================================================================
