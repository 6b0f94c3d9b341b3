------------------------- MODULE PoolPlanningProofs -------------------------
(***************************************************************************)
(* What the pool's plans promise, for every pool size, count and fraction. *)
(* The modules that carry plans out rest on these facts.                   *)
(***************************************************************************)
EXTENDS PoolPlanning, TLAPS

\* A fraction in 0..1 of x is between 0 and x (the f64 floor of cutover.rs).
LEMMA FloorBounds ==
  ASSUME NEW x \in Nat, NEW f \in Fraction, ValidFraction(f)
  PROVE  FloorOf(x, f) \in 0..x
<1>1. f[1] \in Nat /\ f[2] \in Nat \ {0} /\ f[1] <= f[2]
  BY DEF Fraction, ValidFraction
<1> DEFINE a == f[1]
           b == f[2]
<1> HIDE DEF a, b
<1>2. x * a \in Nat /\ x * a <= x * b
  BY <1>1, SMT DEF a, b
<1>3. (x * a) \div b \in Nat
  BY <1>1, <1>2, SMT DEF a, b
<1>4. (x * a) \div b <= x
  BY <1>1, <1>2, <1>3, SMT DEF a, b
<1> QED
  BY <1>3, <1>4 DEF FloorOf, a, b

\* A plan to drain asks for idle sessions only, for no more than there are,
\* and says how many stay; if it cannot have as many as it wants it is blocked.
LEMMA DrainIdleBounds ==
  ASSUME NEW current \in Nat, NEW want \in Nat, NEW idle \in Nat, want <= current
  PROVE  LET p == DrainIdle(current, want, idle)
         IN  /\ p.toDrain \in Nat /\ p.toDrain <= idle /\ p.toDrain <= want
             /\ p.targetRemaining \in Nat /\ p.targetRemaining + p.toDrain = current
             /\ p.blocked <=> idle < want
<1> DEFINE n == Smaller(want, idle)
           p == DrainIdle(current, want, idle)
<1>1. /\ n \in Nat /\ n <= idle /\ n <= want
      /\ n < want <=> idle < want
      /\ current - n \in Nat /\ (current - n) + n = current
  BY DEF Smaller
<1>2. \E r : p = DrainPlan(current - n, n, n < want, r)
  BY Zenon DEF DrainIdle
<1> HIDE DEF n, p
<1>3. p.toDrain = n /\ p.targetRemaining = current - n /\ p.blocked = (n < want)
  BY <1>2 DEF DrainPlan
<1> QED
  BY <1>1, <1>3 DEF p

\* plan_pool_drain_by_count: what is drained is idle and live, and what is
\* said to remain does.
THEOREM DrainByCount ==
  ASSUME NEW current \in Nat, NEW count \in Nat, NEW idle \in Nat
  PROVE  LET p == PlanPoolDrainByCount(current, count, idle)
         IN  /\ p.toDrain \in Nat /\ p.toDrain <= idle /\ p.toDrain <= count
             /\ p.targetRemaining \in Nat /\ p.targetRemaining + p.toDrain = current
<1> DEFINE p == PlanPoolDrainByCount(current, count, idle)
<1>1. CASE current < 1
  BY <1>1 DEF PlanPoolDrainByCount, DrainPlan
<1>2. CASE current >= 1 /\ count < 1
  BY <1>2 DEF PlanPoolDrainByCount, DrainPlan
<1>3. CASE current >= 1 /\ count >= 1
  <2>1. /\ Smaller(count, current) \in Nat /\ Smaller(count, current) <= current
        /\ Smaller(count, current) <= count
    BY DEF Smaller
  <2>2. p = DrainIdle(current, Smaller(count, current), idle)
    <3>1. ~(current < 1) /\ ~(count < 1)
      BY <1>3
    <3> QED
      BY <3>1, Zenon DEF PlanPoolDrainByCount
  <2>3. /\ p.toDrain \in Nat /\ p.toDrain <= idle /\ p.toDrain <= Smaller(count, current)
        /\ p.targetRemaining \in Nat /\ p.targetRemaining + p.toDrain = current
    BY <2>1, <2>2, DrainIdleBounds
  <2> HIDE DEF p
  <2>4. p.toDrain <= count
    BY <2>1, <2>3
  <2> QED
    BY <2>3, <2>4 DEF p
<1> QED
  BY <1>1, <1>2, <1>3

\* plan_pool_drain_by_fraction: likewise, and at least the part of the pool
\* that is to be kept remains, when it was there.
THEOREM DrainByFraction ==
  ASSUME NEW size \in Nat, NEW current \in Nat, NEW f \in Fraction, NEW idle \in Nat
  PROVE  LET p == PlanPoolDrainByFraction(size, current, f, idle)
             keep == FloorOf(size, <<f[2] - f[1], f[2]>>)
         IN  /\ p.toDrain \in Nat /\ p.toDrain <= idle
             /\ p.targetRemaining \in Nat /\ p.targetRemaining + p.toDrain = current
             /\ ValidFraction(f) /\ keep <= current => p.targetRemaining >= keep
<1> DEFINE p == PlanPoolDrainByFraction(size, current, f, idle)
           g == <<f[2] - f[1], f[2]>>
           keep == FloorOf(size, g)
<1>0. ValidFraction(f) => keep \in Nat /\ g \in Fraction /\ ValidFraction(g)
  <2>1. ValidFraction(f) => g \in Fraction /\ ValidFraction(g)
    BY DEF Fraction, ValidFraction
  <2> QED
    BY <2>1, FloorBounds
<1>1. CASE current < 1
  <2>0. current = 0
    BY <1>1
  <2>1. p = DrainPlan(0, 0, FALSE, "none")
    BY <1>1 DEF PlanPoolDrainByFraction
  <2>2. p.toDrain = 0 /\ p.targetRemaining = 0
    BY <2>1 DEF DrainPlan
  <2> HIDE DEF p, keep, g
  <2>3. p.targetRemaining + p.toDrain = current
    BY <2>0, <2>2
  <2>4. ValidFraction(f) /\ keep <= current => p.targetRemaining >= keep
    <3>1. keep \in Nat /\ keep <= 0 => 0 >= keep
      OBVIOUS
    <3> QED
      BY <1>0, <2>0, <2>2, <3>1
  <2> QED
    BY <2>2, <2>3, <2>4 DEF p, keep, g
<1>2. CASE current >= 1 /\ (size < 1 \/ ~ValidFraction(f))
  <2>1. \E r : p = DrainPlan(current, 0, TRUE, r)
    <3>1. ~(current < 1)
      BY <1>2
    <3> QED
      BY <1>2, <3>1, Zenon DEF PlanPoolDrainByFraction
  <2>2. p.toDrain = 0 /\ p.targetRemaining = current
    BY <2>1 DEF DrainPlan
  <2> HIDE DEF p, keep
  <2>3. ValidFraction(f) /\ keep <= current => p.targetRemaining >= keep
    BY <1>0, <2>2
  <2>4. 0 <= idle /\ p.targetRemaining + p.toDrain = current
    BY <2>2
  <2> QED
    BY <2>2, <2>3, <2>4 DEF p, keep
<1>3. CASE current >= 1 /\ size >= 1 /\ ValidFraction(f)
  <2>2. keep \in Nat
    BY <1>0, <1>3
  <2> DEFINE want == SaturatingSub(current, keep)
  <2>3. p = IF want = 0 THEN DrainPlan(current, 0, FALSE, "none") ELSE DrainIdle(current, want, idle)
    <3>1. ~(current < 1) /\ ~(size < 1)
      BY <1>3
    <3> QED
      BY <1>3, <3>1, Zenon DEF PlanPoolDrainByFraction
  <2> HIDE DEF keep, p
  <2>4. want \in Nat /\ want <= current /\ (keep <= current => current - want = keep)
    BY <2>2 DEF SaturatingSub
  <2>5. CASE want = 0
    <3>1. p.toDrain = 0 /\ p.targetRemaining = current
      BY <2>3, <2>5 DEF DrainPlan
    <3> HIDE DEF want
    <3> QED
      BY <2>2, <2>4, <2>5, <3>1 DEF p, keep
  <2>6. CASE want # 0
    <3> HIDE DEF want
    <3>1. p = DrainIdle(current, want, idle)
      BY <2>3, <2>6
    <3>2. /\ p.toDrain \in Nat /\ p.toDrain <= idle /\ p.toDrain <= want
          /\ p.targetRemaining \in Nat /\ p.targetRemaining + p.toDrain = current
      BY <2>4, <3>1, DrainIdleBounds
    <3>3. keep <= current => p.targetRemaining >= keep
      BY <2>2, <2>4, <3>2
    <3> QED
      BY <3>2, <3>3 DEF p, keep
  <2> QED
    BY <2>5, <2>6
<1> QED
  BY <1>1, <1>2, <1>3

\* plan_pool_scale: an accepted plan dials no session beyond the size asked
\* for, and none beyond the configured target.
THEOREM ScaleBounds ==
  ASSUME NEW size \in Nat, NEW current \in Nat, NEW target \in Nat
  PROVE  LET p == PlanPoolScale(size, current, target)
         IN  /\ p.toAdd \in 0..size
             /\ p.toAdd > 0 => current + p.toAdd = target /\ target <= size
             /\ p.blocked <=> size < 1 \/ target < 1 \/ target > size
  BY DEF PlanPoolScale, ScalePlan, SaturatingSub

\* plan_gateway_migration: no more sessions are moved than bring the target
\* gateway to its share, and the share is a part of the pool.
THEOREM MigrationBounds ==
  ASSUME NEW size \in Nat, NEW onTarget \in Nat, NEW f \in Fraction
  PROVE  LET p == PlanGatewayMigration(size, onTarget, f)
         IN  /\ p.targetCount \in 0..size /\ p.toMove \in Nat
             /\ p.toMove > 0 => onTarget + p.toMove = p.targetCount
<1> DEFINE p == PlanGatewayMigration(size, onTarget, f)
<1>1. CASE size < 1 \/ ~ValidFraction(f)
  <2>1. \E r : p = MigrationPlan(0, 0, TRUE, r)
    BY <1>1 DEF PlanGatewayMigration
  <2>2. p.targetCount = 0 /\ p.toMove = 0
    BY <2>1 DEF MigrationPlan
  <2> QED
    BY <2>2
<1>2. CASE size >= 1 /\ ValidFraction(f)
  <2> DEFINE count == FloorOf(size, f)
  <2>1. count \in 0..size
    BY <1>2, FloorBounds
  <2>2. p = MigrationPlan(count, SaturatingSub(count, onTarget), FALSE, "none")
    <3>1. ~(size < 1)
      BY <1>2
    <3> QED
      BY <1>2, <3>1, Zenon DEF PlanGatewayMigration
  <2> HIDE DEF count, p
  <2>3. p.targetCount = count /\ p.toMove = SaturatingSub(count, onTarget)
    BY <2>2 DEF MigrationPlan
  <2> QED
    BY <2>1, <2>3 DEF SaturatingSub, p
<1> QED
  BY <1>1, <1>2

\* clamp_desired_pool_target: a hint never leaves the range between baseline
\* and target, and clamping a clamped hint changes nothing.
THEOREM ClampBounds ==
  ASSUME NEW raw \in Nat, NEW baseline \in Nat, NEW max \in Nat
  PROVE  LET c == ClampDesiredPoolTarget(raw, baseline, max)
         IN  /\ c \in Smaller(baseline, max)..Larger(baseline, max)
             /\ ClampDesiredPoolTarget(c, baseline, max) = c
  BY DEF ClampDesiredPoolTarget, Smaller, Larger

\* initial_pool_session_count: the boot dials at most the target, and with a
\* positive fraction at least one session.
THEOREM InitialCountBounds ==
  ASSUME NEW size \in Nat, NEW f \in Fraction
  PROVE  /\ InitialPoolSessionCount(size, f) \in 0..size
         /\ size >= 1 /\ f[1] > 0 => InitialPoolSessionCount(size, f) >= 1
<1>1. f[1] \in Int /\ f[2] \in Nat \ {0}
  BY DEF Fraction
<1>2. CASE size < 1 \/ f[1] <= 0
  BY <1>1, <1>2 DEF InitialPoolSessionCount
<1>3. CASE size >= 1 /\ f[1] > 0 /\ f[1] >= f[2]
  BY <1>1, <1>3 DEF InitialPoolSessionCount
<1>4. CASE size >= 1 /\ f[1] > 0 /\ f[1] < f[2]
  <2>1. FloorOf(size, f) \in 0..size
    BY <1>1, <1>4, FloorBounds DEF ValidFraction
  <2>2. InitialPoolSessionCount(size, f) = Larger(FloorOf(size, f), 1)
    BY <1>1, <1>4 DEF InitialPoolSessionCount
  <2> QED
    BY <1>4, <2>1, <2>2 DEF Larger
<1> QED
  BY <1>1, <1>2, <1>3, <1>4
=============================================================================
