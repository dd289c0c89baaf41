----------------------------- MODULE MCLimiter -----------------------------
(* Model-checking instance of Limiter.  Go truncates durations to 1ns,    *)
(* far below the time one token takes; the model's tick is coarse, so its *)
(* limits divide SEC and durationFromTokens never has to truncate: a      *)
(* truncation to a whole tick would merge reservations the code keeps     *)
(* apart.                                                                 *)
EXTENDS Limiter

MCHolders == {"g1", "g2"}

ASSUME \A r \in LimitValues \ {Inf, 0} : SEC % r = 0
====
