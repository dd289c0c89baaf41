----------------------------- MODULE TokenBucket -----------------------------
(***************************************************************************)
(* What rate.Limiter promises about its token balance (the comment at     *)
(* rate.go:34-56, spec.md 4.1-4.2), with no reservation times, no lazy    *)
(* advance and no float conversions: a bucket of size burst, initially    *)
(* full, refilled at limit tokens per second.  An event admitted now takes *)
(* tokens that are there; a reservation may take them ahead, running the  *)
(* bucket into debt; a cancelled reservation gives back at most what it   *)
(* took, together with what earlier cancels kept back for reservations    *)
(* made after theirs, and never beyond the burst.  Changing the limit does not touch   *)
(* the balance (the new rate is not applied retroactively); changing the  *)
(* burst only trims what no longer fits.                                  *)
(*                                                                         *)
(* Balances are scaled by SEC ticks per second, as in Limiter: a limit of *)
(* L tokens per second adds L to the bucket per tick.  The limits are     *)
(* finite: under rate.Inf there is no bucket to speak of.                 *)
(***************************************************************************)
EXTENDS Integers

CONSTANTS
  Holders,      \* callers that may hold a reservation
  SEC,          \* ticks per second
  LimitValues,  \* finite limits, tokens per second
  BurstValues,  \* bucket sizes
  NValues       \* tokens one call asks for

VARIABLES
  clock,   \* real time, in ticks
  limit,   \* the refill rate
  burst,   \* the bucket size
  bucket,  \* the balance now, scaled by SEC; negative while in debt
  held,    \* per holder, the scaled tokens of the reservation it may cancel
  withheld \* tokens cancels kept back while other reservations were held

vars == <<clock, limit, burst, bucket, held, withheld>>

\* A balance that does not overflow a bucket of b tokens.
Fill(x, b) == IF x > b * SEC THEN b * SEC ELSE x

Init ==
  /\ clock = 0
  /\ limit \in LimitValues
  /\ burst \in BurstValues
  /\ bucket = burst * SEC
  /\ held = [h \in Holders |-> 0]
  /\ withheld = 0

\* Time passes: one tick of refill.
Refill ==
  /\ clock' = clock + 1
  /\ bucket' = Fill(bucket + limit, burst)
  /\ UNCHANGED <<limit, burst, held, withheld>>

\* An event admitted now takes n tokens that are in the bucket now.
TakeNow(h, n) ==
  /\ n <= burst
  /\ n * SEC <= bucket
  /\ bucket' = bucket - n * SEC
  /\ UNCHANGED <<clock, limit, burst, held, withheld>>

\* A reservation takes n tokens ahead; the holder may cancel it later.
Reserve(h, n) ==
  /\ held[h] = 0
  /\ n <= burst
  /\ bucket' = bucket - n * SEC
  /\ held' = [held EXCEPT ![h] = n * SEC]
  /\ UNCHANGED <<clock, limit, burst, withheld>>

\* What is withheld lapses once no reservation is held any more.
Settle(w) ==
  withheld' = IF \A g \in Holders : held'[g] = 0 THEN 0 ELSE w

\* The holder acts on its reservation: its tokens are spent.
Act(h) ==
  /\ held' = [held EXCEPT ![h] = 0]
  /\ Settle(withheld)
  /\ UNCHANGED <<clock, limit, burst, bucket>>

\* The holder cancels its reservation and k tokens come back: at most its
\* own and those withheld before; what it keeps back is withheld.
Cancel(h, k) ==
  /\ k \in 0 .. held[h] + withheld
  /\ bucket' = Fill(bucket + k, burst)
  /\ held' = [held EXCEPT ![h] = 0]
  /\ Settle(withheld + held[h] - k)
  /\ UNCHANGED <<clock, limit, burst>>

SetLimit(r) ==
  /\ limit' = r
  /\ UNCHANGED <<clock, burst, bucket, held, withheld>>

SetBurst(b) ==
  /\ burst' = b
  /\ bucket' = Fill(bucket, b)
  /\ UNCHANGED <<clock, limit, held, withheld>>

Next ==
  \/ Refill
  \/ \E h \in Holders, n \in NValues : TakeNow(h, n) \/ Reserve(h, n)
  \/ \E h \in Holders :
       Act(h) \/ \E k \in 0 .. held[h] + withheld : Cancel(h, k)
  \/ \E r \in LimitValues : SetLimit(r)
  \/ \E b \in BurstValues : SetBurst(b)

Spec == Init /\ [][Next]_vars

====
