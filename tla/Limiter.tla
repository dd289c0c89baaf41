------------------------------ MODULE Limiter ------------------------------
(***************************************************************************)
(* The token-bucket Limiter of golang.org/x/time/rate (src/go/x/time/rate/ *)
(* rate.go) with its Reservations, driven by a bounded set of callers.     *)
(*                                                                         *)
(* Time is counted in ticks; SEC ticks make one second (the 1e9 of the     *)
(* code).  Token balances are kept scaled by SEC, so that a limit of L     *)
(* tokens per second produces exactly L scaled tokens per tick and the     *)
(* code's split of a duration into seconds and nanoseconds (which exists  *)
(* only to avoid rounding) is exact.  The one rounding the code does keep, *)
(* the truncation of float seconds to an integer Duration, is kept.        *)
(*                                                                         *)
(* Huge stands for the int64 extremes of time.Duration: InfDuration, the   *)
(* saturation of Time.Sub, and the value a float-to-Duration conversion    *)
(* produces when the float is infinite or NaN (Go leaves that value to the *)
(* implementation; Arch selects the amd64 or the arm64 answer).            *)
(***************************************************************************)
EXTENDS Integers, FiniteSets, Bags, Functions

CONSTANTS
  Holders,      \* goroutines calling the limiter
  SEC,          \* ticks per second
  Inf,          \* rate.Inf (math.MaxFloat64), a model value
  LimitValues,  \* limits given to NewLimiter and SetLimitAt
  BurstValues,  \* bursts given to NewLimiter and SetBurstAt
  NValues,      \* token counts n of AllowN, ReserveN, WaitN
  DeadlineOffsets, \* deadlines of WaitN contexts, in ticks after the call
  NoDeadline,   \* a context without deadline, a model value
  Skew,         \* how far time.Now() read before Lock may lag the clock
  MaxTime,      \* last tick of the clock
  MaxCalls,     \* calls each holder makes
  MaxSets,      \* calls of SetLimitAt and SetBurstAt
  Huge,         \* |int64| extremes of time.Duration, beyond all model times
  Arch          \* "amd64" or "arm64": float-to-int conversion of Inf/NaN

ASSUME SEC \in Nat \ {0}
ASSUME LimitValues \subseteq Nat \cup {Inf} /\ LimitValues # {}
ASSUME BurstValues \subseteq Nat /\ BurstValues # {}
ASSUME NValues \subseteq Nat
\* Huge is beyond every time and wait the callers can produce.
ASSUME \A n \in NValues :
         Huge > 2 * (MaxTime + SEC * n * Cardinality(Holders) * MaxCalls)
ASSUME Arch \in {"amd64", "arm64"}

VARIABLES
  lim,      \* the Limiter struct: limit, burst, tokens, last, lastEvent
  clock,    \* real time
  hs,       \* per holder: pc, the Reservation it holds, its ctx deadline
  calls,    \* calls made per holder
  sets,     \* SetLimitAt / SetBurstAt calls made
  grants,   \* history: bag of event times, each with the tokens it took
  setAt,    \* history: the now of the last SetLimitAt
  withheld  \* history: tokens cancels kept back for later reservations

vars == <<lim, clock, hs, calls, sets, grants, setAt, withheld>>

-----------------------------------------------------------------------------
(* Time and unit conversions.                                              *)

ZeroTime == -Huge                 \* time.Time{}: before every model time
InfDuration == Huge

Clamp(x, lo, hi) == IF x < lo THEN lo ELSE IF x > hi THEN hi ELSE x
MinOf(a, b) == IF a < b THEN a ELSE b

\* Time.Sub saturates at the extremes of Duration.
Sub(t, u) == Clamp(t - u, -Huge, Huge)

\* Go's integer conversion of a float truncates toward zero.
Trunc(a, b) == IF a >= 0 THEN a \div b ELSE -((-a) \div b)

\* Duration(x) for x = +Inf, -Inf or NaN (sign 1, -1, 0).
NonFinite(sign) ==
  IF Arch = "amd64" THEN -Huge            \* CVTTSD2SQ: 0x8000000000000000
  ELSE sign * Huge                        \* FCVTZS saturates, NaN is 0

\* durationFromTokens: ticks needed to accumulate tok (scaled) tokens.
durationFromTokens(limit, tok) ==
  IF limit = Inf THEN 0                  \* tok / MaxFloat64 rounds to 0
  ELSE IF limit = 0
       THEN NonFinite(IF tok > 0 THEN 1 ELSE IF tok < 0 THEN -1 ELSE 0)
  ELSE Trunc(tok, limit)

\* tokensFromDuration: scaled tokens accumulated in d ticks.
tokensFromDuration(limit, d) ==
  IF limit = Inf THEN Clamp(d, -1, 1) * Huge   \* d * MaxFloat64: +-Inf or 0
  ELSE d * limit

-----------------------------------------------------------------------------
(* The Limiter.                                                            *)

Burst(l) == l.burst * SEC                 \* float64(lim.burst), scaled

\* Mutant of NewLimiter: the arguments stored in each other's fields.
NewLimiterSwapped(r, b) ==
  [limit |-> b, burst |-> r, tokens |-> 0, last |-> ZeroTime,
   lastEvent |-> ZeroTime]

NewLimiter(r, b) ==
  [limit |-> r, burst |-> b, tokens |-> 0, last |-> ZeroTime,
   lastEvent |-> ZeroTime]

\* The zero Reservation, held by a caller that holds none.
NoReservation ==
  [ok |-> FALSE, tokens |-> 0, timeToAct |-> ZeroTime, limit |-> 0]

\* advance: the state lim would have at now; lim itself is not changed.
advance(l, now) ==
  LET last       == IF now < l.last THEN now ELSE l.last
      maxElapsed == durationFromTokens(l.limit, Burst(l) - l.tokens)
      elapsed    == MinOf(Sub(now, last), maxElapsed)
      delta      == tokensFromDuration(l.limit, elapsed)
  IN  [now |-> now, last |-> last,
       tokens |-> MinOf(l.tokens + delta, Burst(l))]

\* reserveN: the Reservation for n tokens at now, and the limiter after it.
reserveN(l, now, n, maxFutureReserve) ==
  IF l.limit = Inf
  THEN [res |-> [ok |-> TRUE, tokens |-> n, timeToAct |-> now, limit |-> 0],
        lim |-> l]
  ELSE
    LET a      == advance(l, now)
        tokens == a.tokens - n * SEC
        wait   == IF tokens < 0 THEN durationFromTokens(l.limit, -tokens)
                  ELSE 0
        ok     == n <= l.burst /\ wait <= maxFutureReserve
        r      == [ok |-> ok, tokens |-> IF ok THEN n ELSE 0,
                   timeToAct |-> IF ok THEN now + wait ELSE ZeroTime,
                   limit |-> l.limit]
    IN [res |-> r,
        lim |-> IF ok
                THEN [l EXCEPT !.last = now, !.tokens = tokens,
                               !.lastEvent = r.timeToAct]
                ELSE [l EXCEPT !.last = a.last]]

\* Mutant of Unspent: refund all of r.tokens, forgetting the tokens that
\* reservations made after r have already claimed.
UnspentAll(l, r) == r.tokens * SEC

\* Mutant of Unspent: the two times of the Sub swapped.
UnspentSwapped(l, r) ==
  r.tokens * SEC - tokensFromDuration(r.limit, Sub(r.timeToAct, l.lastEvent))

\* restoreTokens: r's tokens less those reserved after r, which counted on
\* them (the tokens lastEvent lies beyond r.timeToAct).
Unspent(l, r) ==
  r.tokens * SEC - tokensFromDuration(r.limit, Sub(l.lastEvent, r.timeToAct))

\* Mutant of NoRefund: a reservation due exactly now counts as acted on.
NoRefundDueNow(l, r, now) ==
  ~r.ok \/ l.limit = Inf \/ r.tokens = 0 \/ r.timeToAct <= now

\* The early returns of CancelAt before restoreTokens is computed.
NoRefund(l, r, now) ==
  ~r.ok \/ l.limit = Inf \/ r.tokens = 0 \/ r.timeToAct < now

\* CancelAt: the limiter after reservation r is cancelled at now.
CancelAt(l, r, now) ==
  LET restoreTokens == Unspent(l, r)
      a         == advance(l, now)
      prevEvent == r.timeToAct + durationFromTokens(r.limit, -r.tokens * SEC)
  IN IF NoRefund(l, r, now) \/ restoreTokens <= 0
     THEN l
     ELSE [l EXCEPT
             !.last   = a.now,
             !.tokens = MinOf(a.tokens + restoreTokens, Burst(l)),
             !.lastEvent = IF r.timeToAct = l.lastEvent /\ ~(prevEvent < a.now)
                           THEN prevEvent ELSE l.lastEvent]

\* DelayFrom: how long the holder of r must wait from now.
DelayFrom(r, now) ==
  IF ~r.ok THEN InfDuration
  ELSE IF Sub(r.timeToAct, now) < 0 THEN 0 ELSE Sub(r.timeToAct, now)

-----------------------------------------------------------------------------
(* Callers.  A holder is a goroutine that calls AllowN, ReserveN or WaitN; *)
(* the time.Now() it passes was read before Lock, so another caller may    *)
(* have taken the lock with a later time in between (Skew).                *)

Stamps == (IF clock - Skew < 0 THEN 0 ELSE clock - Skew) .. clock

Idle == [pc |-> "idle", res |-> NoReservation, deadline |-> NoDeadline, n |-> 0]

\* The tokens an admitted event takes, at the instant it may happen.
Grant(r) ==
  IF r.ok /\ r.tokens > 0 THEN [t \in {r.timeToAct} |-> r.tokens]
  ELSE EmptyBag

\* The tokens a holder can still hand back: those of the reservation it
\* holds, or waits on in WaitN.
Held(h) ==
  IF hs[h].pc \in {"holding", "waiting"} THEN hs[h].res.tokens * SEC ELSE 0

\* The balance of l as advance computes it for the current time.
Balance(l) == advance(l, clock).tokens

\* History: what a cancel of h's reservation kept back of its own tokens
\* adds to withheld, what it gave back beyond them comes out of it; the
\* account lapses once no reservation is outstanding.
Lapse(w) == IF \A g \in Holders : Held(g)' = 0 THEN 0 ELSE w
Withhold(h) ==
  withheld' = Lapse(withheld + Held(h) - (Balance(lim') - Balance(lim)))

Call(h) ==
  /\ hs[h].pc = "idle"
  /\ calls[h] < MaxCalls
  /\ calls' = [calls EXCEPT ![h] = @ + 1]

\* AllowN(now, n): reserveN with maxFutureReserve 0; the event happens now.
AllowN(h, now, n) ==
  LET o == reserveN(lim, now, n, 0) IN
  /\ Call(h)
  /\ lim' = o.lim
  /\ grants' = grants (+) Grant(o.res)
  /\ UNCHANGED <<clock, hs, sets, setAt, withheld>>

\* ReserveN(now, n): the holder keeps the Reservation to act on or cancel.
ReserveN(h, now, n) ==
  LET o == reserveN(lim, now, n, InfDuration) IN
  /\ Call(h)
  /\ lim' = o.lim
  /\ grants' = grants (+) Grant(o.res)
  /\ hs' = [hs EXCEPT ![h] = IF o.res.ok
                              THEN [Idle EXCEPT !.pc = "holding", !.res = o.res]
                              ELSE Idle]
  /\ UNCHANGED <<clock, sets, setAt, withheld>>

\* The holder of a Reservation sleeps Delay() and acts: the limiter is not
\* involved.
Act(h) ==
  /\ hs[h].pc = "holding"
  /\ hs' = [hs EXCEPT ![h] = Idle]
  /\ withheld' = Lapse(withheld)
  /\ UNCHANGED <<lim, clock, calls, sets, grants, setAt>>

\* Reservation.CancelAt(now): the holder will not act.
Cancel(h, now) ==
  /\ hs[h].pc = "holding"
  /\ lim' = CancelAt(lim, hs[h].res, now)
  /\ grants' = grants (-) Grant(hs[h].res)
  /\ hs' = [hs EXCEPT ![h] = Idle]
  /\ Withhold(h)
  /\ UNCHANGED <<clock, calls, sets, setAt>>

\* WaitN copies burst and limit under the mutex and releases it.  First
\* return: n exceeds the burst of a finite limit.
WaitNExceedsBurst(h, n) ==
  /\ Call(h)
  /\ n > lim.burst /\ lim.limit # Inf
  /\ UNCHANGED <<lim, clock, hs, sets, grants, setAt, withheld>>

\* The copies pass the check; the mutex is free until reserveN takes it.
WaitNCheck(h, n) ==
  /\ Call(h)
  /\ ~(n > lim.burst /\ lim.limit # Inf)
  /\ hs' = [hs EXCEPT ![h] = [Idle EXCEPT !.pc = "checked", !.n = n]]
  /\ UNCHANGED <<lim, clock, sets, grants, setAt, withheld>>

\* WaitN, second return: the context is already done.
WaitNCtxDone(h) ==
  /\ hs[h].pc = "checked"
  /\ hs' = [hs EXCEPT ![h] = Idle]
  /\ UNCHANGED <<lim, clock, calls, sets, grants, setAt, withheld>>

\* WaitN reads time.Now() and reserves within the deadline, under the
\* limit and burst of now; fail, return at once, or block until the
\* timer or the context fires.
WaitNReserve(h, now, deadline) ==
  LET waitLimit == IF deadline = NoDeadline THEN InfDuration
                   ELSE Sub(deadline, now)
      o == reserveN(lim, now, hs[h].n, waitLimit)
  IN
  /\ hs[h].pc = "checked"
  /\ lim' = o.lim
  /\ grants' = grants (+) Grant(o.res)
  /\ hs' = [hs EXCEPT ![h] =
              IF o.res.ok /\ DelayFrom(o.res, now) # 0
              THEN [Idle EXCEPT !.pc = "waiting", !.res = o.res,
                                !.deadline = deadline]
              ELSE Idle]
  /\ UNCHANGED <<clock, calls, sets, setAt, withheld>>

\* The timer of a blocked WaitN fires at timeToAct: WaitN returns nil.
WaitTimerFires(h) ==
  /\ hs[h].pc = "waiting"
  /\ hs[h].res.timeToAct <= clock
  /\ hs' = [hs EXCEPT ![h] = Idle]
  /\ withheld' = Lapse(withheld)
  /\ UNCHANGED <<lim, clock, calls, sets, grants, setAt>>

\* The context of a blocked WaitN is done (cancelled, or its deadline
\* passed): WaitN cancels the reservation at time.Now() and fails.
WaitCtxFires(h, now) ==
  /\ hs[h].pc = "waiting"
  /\ lim' = CancelAt(lim, hs[h].res, now)
  /\ grants' = grants (-) Grant(hs[h].res)
  /\ hs' = [hs EXCEPT ![h] = Idle]
  /\ Withhold(h)
  /\ UNCHANGED <<clock, calls, sets, setAt>>

\* SetLimitAt: advance under the old limit, then install the new one.
SetLimitAt(now, newLimit) ==
  LET a == advance(lim, now) IN
  /\ sets < MaxSets
  /\ lim' = [lim EXCEPT !.last = a.now, !.tokens = a.tokens,
                        !.limit = newLimit]
  /\ sets' = sets + 1
  /\ setAt' = now
  /\ UNCHANGED <<clock, hs, calls, grants, withheld>>

\* SetBurstAt: advance under the old burst, then install the new one.
SetBurstAt(now, newBurst) ==
  LET a == advance(lim, now) IN
  /\ sets < MaxSets
  /\ lim' = [lim EXCEPT !.last = a.now, !.tokens = a.tokens,
                        !.burst = newBurst]
  /\ sets' = sets + 1
  /\ UNCHANGED <<clock, hs, calls, grants, setAt, withheld>>

Tick ==
  /\ clock < MaxTime
  /\ clock' = clock + 1
  /\ UNCHANGED <<lim, hs, calls, sets, grants, setAt, withheld>>

\* Every caller has returned and made all its calls, at the last tick.
Terminated ==
  /\ clock = MaxTime /\ sets = MaxSets
  /\ \A h \in Holders : hs[h].pc = "idle" /\ calls[h] = MaxCalls
  /\ UNCHANGED vars

Init ==
  /\ \E r \in LimitValues, b \in BurstValues : lim = NewLimiter(r, b)
  /\ clock = 0
  /\ hs = [h \in Holders |-> Idle]
  /\ calls = [h \in Holders |-> 0]
  /\ sets = 0
  /\ grants = EmptyBag
  /\ setAt = ZeroTime
  /\ withheld = 0

Next ==
  \/ Tick
  \/ \E h \in Holders, now \in Stamps, n \in NValues :
        AllowN(h, now, n) \/ ReserveN(h, now, n) \/ Cancel(h, now)
  \/ \E h \in Holders, n \in NValues :
        WaitNExceedsBurst(h, n) \/ WaitNCheck(h, n)
  \/ \E h \in Holders : WaitNCtxDone(h)
  \/ \E h \in Holders, now \in Stamps,
        deadline \in {NoDeadline} \cup {clock + d : d \in DeadlineOffsets} :
        WaitNReserve(h, now, deadline)
  \/ \E h \in Holders : Act(h) \/ WaitTimerFires(h)
  \/ \E h \in Holders, now \in Stamps : WaitCtxFires(h, now)
  \/ \E now \in Stamps, r \in LimitValues : SetLimitAt(now, r)
  \/ \E now \in Stamps, b \in BurstValues : SetBurstAt(now, b)
  \/ Terminated

Spec == Init /\ [][Next]_vars

-----------------------------------------------------------------------------
(* Properties.                                                             *)

Times == ZeroTime - Huge .. MaxTime + 2 * Huge
Reservation ==
  [ok : BOOLEAN, tokens : Nat, timeToAct : Times, limit : Nat]

TypeOK ==
  /\ lim \in [limit : LimitValues, burst : BurstValues, tokens : Int,
              last : Times, lastEvent : Times]
  /\ clock \in 0..MaxTime
  /\ hs \in [Holders -> [pc : {"idle", "checked", "holding", "waiting"},
                         res : Reservation,
                         deadline : {NoDeadline} \cup Nat,
                         n : {0} \cup NValues]]
  /\ calls \in [Holders -> 0..MaxCalls]
  /\ sets \in 0..MaxSets
  /\ IsABag(grants)
  /\ setAt \in {ZeroTime} \cup 0..MaxTime
  /\ withheld \in Int

MaxBurst == CHOOSE b \in BurstValues : \A c \in BurstValues : c <= b

\* Tokens of the events the limiter lets happen in the window [t1, t2].
WindowTokens(t1, t2) ==
  SumFunctionOnSet(grants, {t \in DOMAIN grants : t1 <= t /\ t <= t2})

(* Token-bucket envelope (the Limiter doc comment, rate.go:34-38, spec.md *)
(* section 8): under a finite limit r, the events AllowN, ReserveN and     *)
(* WaitN schedule in any window [t1, t2] after the last SetLimitAt,        *)
(* cancelled ones excepted, take at most burst + r * (t2 - t1) tokens,     *)
(* whatever the limit before it let through (SetLimitAt "never applies a   *)
(* new rate retroactively", spec.md 4.1).                                  *)
Envelope ==
  lim.limit \in Nat \ {0} =>
    \A t1, t2 \in DOMAIN grants :
      setAt < t1 /\ t1 <= t2 =>
        SEC * WindowTokens(t1, t2) <= SEC * MaxBurst + lim.limit * (t2 - t1)

(* "A zero Limit allows no events" (rate.go:18): a limiter created with   *)
(* limit 0, whose limit is never raised, admits nothing.                  *)
NoEventsAtZeroLimit ==
  LimitValues = {0} => grants = EmptyBag

(* Reserve/cancel round trip (spec.md section 8): in every state the     *)
(* limiter reaches, reserving n <= burst tokens at now and cancelling the  *)
(* reservation at the same now restores the balance advance gives for now, *)
(* whatever reservations are outstanding (reserveN rate.go:337-403,        *)
(* CancelAt 155-201).                                                      *)
RoundTrip ==
  lim.limit \in Nat \ {0} =>
    \A now \in Stamps, n \in NValues :
      n <= lim.burst =>
        LET o == reserveN(lim, now, n, InfDuration)
            a == advance(lim, now)
            c == CancelAt(o.lim, o.res, now)
        IN  c.tokens = a.tokens /\ c.last = a.now

(* The balance promised by the Limiter's contract is the one advance      *)
(* computes for the current time: the lazily refilled tokens field, as   *)
(* AllowN, ReserveN and WaitN would see it now.                           *)
TB == INSTANCE TokenBucket WITH
        bucket <- Balance(lim),
        limit  <- lim.limit,
        burst  <- lim.burst,
        held   <- [h \in Holders |-> Held(h)],
        withheld <- withheld

(* Refinement (rate.go:34-56, spec.md 4.1-4.2): with a finite limit and   *)
(* callers whose time.Now() is fresh, the Limiter is a token bucket.  Its *)
(* lazy advance refills exactly limit per tick up to burst, an event let  *)
(* through at once (AllowN, WaitN without delay) finds its tokens in the  *)
(* bucket, a cancel (Cancel, WaitN's context firing) gives back no more   *)
(* than its reservation took, and SetLimitAt and SetBurstAt change the   *)
(* balance only by trimming it to a smaller burst.                        *)
ImplementsTokenBucket == TB!Spec

====
