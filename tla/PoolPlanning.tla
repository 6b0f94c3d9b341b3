---------------------------- MODULE PoolPlanning ----------------------------
(***************************************************************************)
(* The pool's planning arithmetic: how many sessions to boot, drain, add   *)
(* or move (cutover.rs, gateway_migration.rs, desired_pool.rs) and how     *)
(* long to wait before a reconnect (pool.rs).                              *)
(*                                                                         *)
(* A fraction is a pair <<n, d>> standing for n/d.  The code uses f64; the *)
(* two agree on dyadic fractions, for which f64 products are exact.  Plans *)
(* keep the fields callers read; `reason` stays, as a string, because the  *)
(* operator surfaces it.                                                   *)
(***************************************************************************)
EXTENDS Integers

Fraction == Int \X (Nat \ {0})

\* (x as f64 * fraction).floor() as u32, for a fraction in 0..1
FloorOf(x, f) == (x * f[1]) \div f[2]

\* (0.0..=1.0).contains(&fraction)
ValidFraction(f) == f[1] >= 0 /\ f[1] <= f[2]

Smaller(a, b) == IF a <= b THEN a ELSE b
Larger(a, b)  == IF a >= b THEN a ELSE b

\* u32::saturating_sub
SaturatingSub(a, b) == IF a >= b THEN a - b ELSE 0

\* Sessions dialled at boot when TEECHAT_ENGINE_POOL_INITIAL_FRACTION is set.
InitialPoolSessionCount(poolTargetSize, f) ==
    IF poolTargetSize < 1 \/ f[1] <= 0 THEN 0
    ELSE IF f[1] >= f[2] THEN poolTargetSize
    ELSE Larger(FloorOf(poolTargetSize, f), 1)

\* Sessions dialled at boot; explicit says whether the fraction was configured.
InitialSessionCount(poolTargetSize, baseline, explicit, f) ==
    IF explicit THEN InitialPoolSessionCount(poolTargetSize, f)
    ELSE Smaller(baseline, poolTargetSize)

DrainPlan(remaining, toDrain, blocked, reason) ==
    [targetRemaining |-> remaining, toDrain |-> toDrain,
     blocked |-> blocked, reason |-> reason]

\* Drain `want` of current sessions, limited by how many are idle.
DrainIdle(current, want, idle) ==
    LET toDrain == Smaller(want, idle)
        blocked == toDrain < want
    IN  DrainPlan(current - toDrain, toDrain, blocked,
                  IF blocked THEN "insufficient_idle_sessions" ELSE "none")

PlanPoolDrainByCount(current, count, idle) ==
    IF current < 1 THEN DrainPlan(0, 0, FALSE, "none")
    ELSE IF count < 1 THEN DrainPlan(current, 0, TRUE, "invalid_count")
    ELSE DrainIdle(current, Smaller(count, current), idle)

PlanPoolDrainByFraction(poolTargetSize, current, f, idle) ==
    IF current < 1 THEN DrainPlan(0, 0, FALSE, "none")
    ELSE IF poolTargetSize < 1 THEN DrainPlan(current, 0, TRUE, "pool_size_zero")
    ELSE IF ~ValidFraction(f) THEN DrainPlan(current, 0, TRUE, "invalid_fraction")
    ELSE LET keep == FloorOf(poolTargetSize, <<f[2] - f[1], f[2]>>)
             want == SaturatingSub(current, keep)
         IN  IF want = 0 THEN DrainPlan(current, 0, FALSE, "none")
             ELSE DrainIdle(current, want, idle)

ScalePlan(target, toAdd, blocked, reason) ==
    [targetSize |-> target, toAdd |-> toAdd, blocked |-> blocked, reason |-> reason]

PlanPoolScale(poolTargetSize, current, target) ==
    IF poolTargetSize < 1 THEN ScalePlan(target, 0, TRUE, "pool_size_zero")
    ELSE IF target < 1 \/ target > poolTargetSize
         THEN ScalePlan(target, 0, TRUE, "invalid_target_size")
    ELSE ScalePlan(target, SaturatingSub(target, current), FALSE, "none")

MigrationPlan(count, toMove, blocked, reason) ==
    [targetCount |-> count, toMove |-> toMove, blocked |-> blocked, reason |-> reason]

PlanGatewayMigration(poolSize, onTarget, f) ==
    IF poolSize < 1 THEN MigrationPlan(0, 0, TRUE, "pool_size_zero")
    ELSE IF ~ValidFraction(f) THEN MigrationPlan(0, 0, TRUE, "invalid_fraction")
    ELSE LET count == FloorOf(poolSize, f)
         IN  MigrationPlan(count, SaturatingSub(count, onTarget), FALSE, "none")

\* The gateway's x-ope-desired-pool-target hint, clamped to baseline..max.
ClampDesiredPoolTarget(raw, baseline, max) ==
    Larger(Smaller(baseline, max), Smaller(raw, Larger(baseline, max)))

\* Exponential back-off: base * 2^min(attempt, 5), capped.
ReconnectDelayMs(base, max, attempt) ==
    LET b == Larger(base, 1)
    IN  Smaller(b * 2 ^ Smaller(attempt, 5), Larger(max, b))
=============================================================================
