------------------------------ MODULE BrakeProofs ------------------------------
(***************************************************************************)
(* The braking check holds the robot inside the box, for every envelope of *)
(* the closed-form kinds that is sound, every chunk, every order of rows   *)
(* guard() lets a host name and every moment the fuse may pick for its     *)
(* stop, as long as the row that last moved the robot was admitted.        *)
(***************************************************************************)
EXTENDS Brake, TLAPS

Configs ==
  {Compiled(e) : e \in {m \in Manifests : Accepted(m) /\ m.kind # "pd_second_order"}}

\* Inside the box, and with the velocity so small that the ramp ends inside.
Stoppable ==
  /\ cfg.lo <= p /\ p <= cfg.hi
  /\ Velocity => /\ v >= 0 => 2 * cfg.env.a_max * (cfg.hi - p) >= v * v
                 /\ v <= 0 => 2 * cfg.env.a_max * (p - cfg.lo) >= v * v

BrakeInv ==
  /\ cfg \in Configs
  /\ chunk \in Chunks
  /\ p \in Int /\ v \in Int
  /\ Sound(cfg.env) /\ ~unchecked => Stoppable

-----------------------------------------------------------------------------
(* Arithmetic.                                                             *)

LEMMA Product == ASSUME NEW x \in Int, NEW y \in Int, x >= 0, y >= 0 PROVE x * y >= 0
PROOF OBVIOUS

LEMMA Quotient ==
  ASSUME NEW x \in Int, NEW y \in Int, x > 0, x * y >= 0 PROVE y >= 0
PROOF
  <1>1. CASE y < 0
    <2>1. -y \in Int /\ -y >= 1 /\ x * (-y) = -(x * y)
      BY <1>1
    <2>2. x * (-y - 1) >= 0
      BY <2>1, Product
    <2> QED BY <2>1, <2>2
  <1> QED BY <1>1

LEMMA BetweenIs ==
  ASSUME NEW x \in Int, NEW y \in Int, NEW z \in Between(x, y)
  PROVE  z \in Int /\ ((x <= z /\ z <= y) \/ (y <= z /\ z <= x))
PROOF BY DEF Between

\* A gap that holds the ball of a speed s holds that of every lower one.
LEMMA Lower ==
  ASSUME NEW a \in Int, NEW g \in Int, NEW s \in Int, NEW r \in Int,
         a > 0, 0 <= r, r <= s, g >= s, 2 * a * g >= s * s + 2 * a * s
  PROVE  g >= r /\ 2 * a * g >= r * r + 2 * a * r
PROOF
  <1>1. (s - r) * (s + r) >= 0 /\ a * (s - r) >= 0
    BY Product
  <1>2. s * s - r * r = (s - r) * (s + r) /\ a * (s - r) = a * s - a * r
    OBVIOUS
  <1>3. 2 * a * s = 2 * (a * s) /\ 2 * a * r = 2 * (a * r)
    OBVIOUS
  <1> QED BY <1>1, <1>2, <1>3

\* Where a gap holds the ball, one tick at that speed leaves room for the ramp.
LEMMA Forward ==
  ASSUME NEW a \in Int, NEW g \in Int, NEW s \in Int,
         2 * a * g >= s * s + 2 * a * s
  PROVE  2 * a * (g - s) >= s * s
PROOF
  <1>1. 2 * a * (g - s) = 2 * a * g - 2 * a * s
    OBVIOUS
  <1> QED BY <1>1

\* One tick of the ramp.
LEMMA RampStep ==
  ASSUME NEW a \in Int, NEW g \in Int, NEW s \in Int, a > 0, s > a,
         2 * a * g >= s * s
  PROVE  g >= s - a /\ 2 * a * (g - (s - a)) >= (s - a) * (s - a)
PROOF
  <1>1. (s - a) * (s - a) = s * s - 2 * (a * s) + a * a
    OBVIOUS
  <1>2. 2 * a * (g - (s - a)) = 2 * a * g - 2 * (a * s) + 2 * (a * a)
    OBVIOUS
  <1>3. a * a >= 0 /\ (s - a) * (s - a) >= 0
    BY Product
  <1>4. 2 * a * (g - (s - a)) >= (s - a) * (s - a)
    BY <1>1, <1>2, <1>3
  <1>5. g - (s - a) >= 0
    BY <1>3, <1>4, Quotient
  <1> QED BY <1>4, <1>5

-----------------------------------------------------------------------------
(* The ball of the check.                                                  *)

LEMMA Ball ==
  ASSUME cfg \in Configs, Sound(cfg.env), NEW g \in Int, NEW s \in Int, s >= 0,
         DistDen * g >= Reach(s)
  PROVE  /\ g >= s
         /\ Velocity => 2 * cfg.env.a_max * g >= s * s + 2 * cfg.env.a_max * s
PROOF
  <1> DEFINE a == cfg.env.a_max
             j == cfg.env.j_max
             k == cfg.env.k_v
             r == cfg.env.react_ticks
  <1>1. /\ a \in Int /\ a > 0 /\ j \in Int /\ j > 0 /\ k \in Int /\ k > 0
        /\ r \in Int /\ r >= 1
        /\ cfg.env.kind \in BrakeKinds
        /\ Velocity => cfg.env.kind # "first_order_decay"
    BY BrakeAssumption DEF Configs, Compiled, Accepted, BrakeAccepted, Envelopes, Sound, Velocity
  <1> HIDE DEF a, j, k, r
  <1>2. CASE cfg.env.kind = "first_order_decay"
    <2>1. DistDen = k /\ Reach(s) = s + s * r * k
      BY <1>2 DEF DistDen, DistNum, Reach, k, r
    <2>2. s * r * k >= s * k
      <3>1. (s * k) * (r - 1) >= 0
        BY <1>1, Product
      <3>2. (s * k) * (r - 1) = s * r * k - s * k
        BY <1>1
      <3> QED BY <1>1, <3>1, <3>2
    <2>3. k * (g - s) >= 0
      BY <1>1, <2>1, <2>2
    <2>4. g - s >= 0
      BY <1>1, <2>3, Quotient
    <2> QED BY <1>1, <1>2, <2>4
  <1>3. ASSUME 2 * a * g >= s * s + s * r * (2 * a)
        PROVE  g >= s /\ 2 * a * g >= s * s + 2 * a * s
    <2>1. s * r * (2 * a) >= 2 * a * s
      <3>1. (s * (2 * a)) * (r - 1) >= 0
        BY <1>1, Product
      <3>2. (s * (2 * a)) * (r - 1) = s * r * (2 * a) - 2 * a * s
        BY <1>1
      <3> QED BY <1>1, <3>1, <3>2
    <2>2. s * s >= 0
      BY Product
    <2>3. 2 * a * g >= s * s + 2 * a * s
      BY <1>1, <1>3, <2>1
    <2>4. (2 * a) * (g - s) >= 0
      BY <1>1, <2>2, <2>3
    <2>5. g - s >= 0
      BY <1>1, <2>4, Quotient
    <2> QED BY <2>3, <2>5
  <1>4. CASE cfg.env.kind = "jerk_limited"
    <2>1. DistDen = 2 * a * j /\ Reach(s) = (s * s * j + s * a * a) + s * r * (2 * a * j)
      BY <1>4 DEF DistDen, DistNum, Reach, a, j, r
    <2>2. s * a * a >= 0
      <3>1. s * a >= 0
        BY <1>1, Product
      <3> QED BY <1>1, <3>1, Product
    <2>3. j * (2 * a * g - s * s - s * r * (2 * a)) >= 0
      BY <1>1, <2>1, <2>2
    <2>4. 2 * a * g - s * s - s * r * (2 * a) >= 0
      BY <1>1, <2>3, Quotient
    <2> QED BY <1>1, <1>3, <2>4 DEF a
  <1>5. CASE cfg.env.kind \notin {"first_order_decay", "jerk_limited"}
    <2>1. DistDen = 2 * a /\ Reach(s) = s * s + s * r * (2 * a)
      BY <1>5 DEF DistDen, DistNum, Reach, a, r
    <2> QED BY <1>1, <1>3, <2>1 DEF a
  <1> QED BY <1>2, <1>4, <1>5

\* What Fits means for a step: there is room for one tick at that speed, or any
\* lower one, and for the ramp from it.
LEMMA FitsMoves ==
  ASSUME BrakeInv, Sound(cfg.env), NEW x \in Int, NEW w \in Int, NEW u \in Int,
         Fits(p, w), 0 <= u, u <= AbsOf(w)
  PROVE  /\ cfg.hi - p >= u /\ p - cfg.lo >= u
         /\ Velocity => /\ 2 * cfg.env.a_max * ((cfg.hi - p) - u) >= u * u
                        /\ 2 * cfg.env.a_max * ((p - cfg.lo) - u) >= u * u
PROOF
  <1> DEFINE a == cfg.env.a_max
             s == AbsOf(w)
             above == cfg.hi - p
             below == p - cfg.lo
  <1>1. cfg \in Configs /\ p \in Int /\ cfg.hi \in Int /\ cfg.lo \in Int /\ a \in Int /\ a > 0
    BY BrakeAssumption DEF BrakeInv, Configs, Compiled, Accepted, Envelopes
  <1>2. s \in Int /\ s >= 0 /\ above \in Int /\ below \in Int
    BY <1>1 DEF AbsOf
  <1>3. DistDen * above >= Reach(s) /\ DistDen * below >= Reach(s)
    BY DEF Fits
  <1> HIDE DEF s, above, below
  <1>4. above >= s /\ (Velocity => 2 * a * above >= s * s + 2 * a * s)
    BY <1>1, <1>2, <1>3, Ball
  <1>5. below >= s /\ (Velocity => 2 * a * below >= s * s + 2 * a * s)
    BY <1>1, <1>2, <1>3, Ball
  <1> HIDE DEF a
  <1>6. above >= u /\ below >= u
    BY <1>2, <1>4, <1>5 DEF s
  <1>7. ASSUME Velocity
        PROVE  2 * a * (above - u) >= u * u /\ 2 * a * (below - u) >= u * u
    <2>1. u <= s BY DEF s
    <2>2. 2 * a * above >= u * u + 2 * a * u
      BY <1>1, <1>2, <1>4, <1>7, <2>1, Lower
    <2>3. 2 * a * below >= u * u + 2 * a * u
      BY <1>1, <1>2, <1>5, <1>7, <2>1, Lower
    <2> QED BY <1>1, <1>2, <2>2, <2>3, Forward
  <1> QED BY <1>6, <1>7 DEF a, above, below

-----------------------------------------------------------------------------
(* The steps.                                                              *)

\* What the host does to its chunk.
LEMMA HostKeeps ==
  ASSUME BrakeInv, NEW delivered \in BOOLEAN, Host(delivered), UNCHANGED cfg
  PROVE  cfg' \in Configs /\ chunk' \in Chunks' /\ chunk' \in Chunks
PROOF
  <1>1. chunk' \in Chunks /\ Chunks' = Chunks
    BY DEF BrakeInv, Host, Chunks, Indices
  <1> QED BY <1>1 DEF BrakeInv

\* Any row the host may name, or one between it and the last command.
LEMMA ExecuteKeeps ==
  ASSUME BrakeInv, NEW delivered \in BOOLEAN, NEW i \in Indices,
         Host(delivered), UNCHANGED cfg, Execute(i, delivered)
  PROVE  BrakeInv'
PROOF
  <1>1. cfg' \in Configs /\ chunk' \in Chunks' /\ chunk' \in Chunks
    BY HostKeeps
  <1>2. /\ cfg \in Configs /\ p \in Int /\ v \in Int /\ cfg.hi \in Int /\ cfg.lo \in Int
        /\ cfg.env.a_max \in Int /\ cfg.env.a_max > 0
    BY BrakeAssumption DEF BrakeInv, Configs, Compiled, Accepted, Envelopes
  <1>3. chunk'[i] \in Int
    <2>1. chunk'[i] \in Rows
      BY <1>1 DEF Chunks
    <2> QED BY <2>1, BrakeAssumption
  <1> DEFINE c == Commanded(chunk'[i], p)
             last == IF Velocity THEN v ELSE 0
  <1>4. c \in Int /\ last \in Int
    BY <1>2, <1>3 DEF Commanded
  <1>5. PICK w \in Int : Moves(w) /\ (w = c \/ (0 <= w /\ w <= AbsOf(c))
                                       \/ (w < 0 /\ -w <= AbsOf(c))
                                       \/ (0 <= w /\ w <= AbsOf(last))
                                       \/ (w < 0 /\ -w <= AbsOf(last)))
    <2>1. CASE delivered
      <3>1. Moves(c)
        BY <2>1 DEF Execute
      <3> QED BY <1>4, <3>1
    <2>2. CASE ~delivered
      <3>1. PICK w \in Between(last, c) : Moves(w)
        BY <2>2 DEF Execute
      <3>2. w \in Int /\ ((last <= w /\ w <= c) \/ (c <= w /\ w <= last))
        BY <1>4, <3>1, BetweenIs
      <3> HIDE DEF c, last
      <3>3. CASE w >= 0
        BY <1>4, <3>1, <3>2, <3>3 DEF AbsOf
      <3>4. CASE w < 0
        BY <1>4, <3>1, <3>2, <3>4 DEF AbsOf
      <3> QED BY <3>2, <3>3, <3>4
    <2> QED BY <2>1, <2>2
  <1> HIDE DEF c, last
  <1> DEFINE u == AbsOf(w)
  <1>6. v' = w /\ p' = p + w /\ u \in Int /\ 0 <= u /\ (u <= AbsOf(c) \/ u <= AbsOf(last))
    BY <1>4, <1>5 DEF Moves, AbsOf
  <1>7. ASSUME Sound(cfg.env), ~unchecked'
        PROVE  Stoppable'
    <2>1. Fits(p, v) /\ Fits(p, c)
      BY <1>7 DEF Execute, Admitted, Feasible, c
    <2>2. u <= AbsOf(c) \/ u <= AbsOf(v)
      BY <1>2, <1>6 DEF last, AbsOf
    <2>3. /\ cfg.hi - p >= u /\ p - cfg.lo >= u
          /\ Velocity => /\ 2 * cfg.env.a_max * ((cfg.hi - p) - u) >= u * u
                         /\ 2 * cfg.env.a_max * ((p - cfg.lo) - u) >= u * u
      <3>1. CASE u <= AbsOf(c)
        BY <1>2, <1>4, <1>6, <1>7, <2>1, <3>1, FitsMoves
      <3>2. CASE u <= AbsOf(v)
        BY <1>2, <1>6, <1>7, <2>1, <3>2, FitsMoves
      <3> QED BY <2>2, <3>1, <3>2
    <2>4. p' = p + w /\ v' = w /\ cfg' = cfg /\ Velocity' = Velocity
      BY <1>6 DEF Velocity
    <2>5. CASE w >= 0
      <3>1. u = w BY <2>5 DEF AbsOf
      <3>2. (cfg.hi - p) - u = cfg.hi - p' BY <1>2, <2>4, <3>1
      <3> QED BY <1>2, <2>3, <2>4, <2>5, <3>1, <3>2 DEF Stoppable
    <2>6. CASE w < 0
      <3>1. u = -w /\ u * u = w * w BY <2>6 DEF AbsOf
      <3>2. (p - cfg.lo) - u = p' - cfg.lo BY <1>2, <2>4, <3>1
      <3> QED BY <1>2, <2>3, <2>4, <2>6, <3>1, <3>2 DEF Stoppable
    <2> QED BY <2>5, <2>6
  <1> QED BY <1>1, <1>2, <1>6, <1>7 DEF BrakeInv

\* A tick of the brake: whatever tripped, the room for the ramp was there.
LEMMA BrakeKeeps ==
  ASSUME BrakeInv, NEW delivered \in BOOLEAN, BrakeTick(delivered)
  PROVE  BrakeInv'
PROOF
  <1>1. Host(delivered) /\ v' = Ramp /\ p' = p + Ramp /\ cfg' = cfg /\ unchecked' = unchecked
    BY DEF BrakeTick, Moves
  <1>2. cfg' \in Configs /\ chunk' \in Chunks'
    BY <1>1, HostKeeps
  <1> DEFINE a == cfg.env.a_max
             above == cfg.hi - p
             below == p - cfg.lo
  <1>3. /\ p \in Int /\ v \in Int /\ cfg.hi \in Int /\ cfg.lo \in Int /\ a \in Int /\ a > 0
    BY BrakeAssumption DEF BrakeInv, Configs, Compiled, Accepted, Envelopes
  <1>4. Ramp \in Int
    BY <1>3 DEF Ramp, AbsOf
  <1>5. ASSUME Sound(cfg.env), ~unchecked, Velocity, v > a
        PROVE  Stoppable'
    <2>1. Ramp = v - a
      BY <1>3, <1>5 DEF Ramp, AbsOf
    <2>2. 2 * a * above >= v * v /\ below >= 0
      BY <1>3, <1>5 DEF BrakeInv, Stoppable
    <2> HIDE DEF a
    <2>3. above >= v - a /\ 2 * a * (above - (v - a)) >= (v - a) * (v - a)
      BY <1>3, <1>5, <2>2, RampStep
    <2>4. cfg.hi - (p + (v - a)) = above - (v - a)
      BY <1>3
    <2> QED BY <1>1, <1>3, <1>5, <2>1, <2>2, <2>3, <2>4 DEF Stoppable, Velocity, a
  <1>6. ASSUME Sound(cfg.env), ~unchecked, Velocity, -v > a
        PROVE  Stoppable'
    <2>1. Ramp = v + a
      BY <1>3, <1>6 DEF Ramp, AbsOf
    <2>2. 2 * a * below >= (-v) * (-v) /\ above >= 0
      <3>1. (-v) * (-v) = v * v BY <1>3
      <3> QED BY <1>3, <1>6, <3>1 DEF BrakeInv, Stoppable
    <2> HIDE DEF a
    <2>3. below >= -v - a /\ 2 * a * (below - (-v - a)) >= (-v - a) * (-v - a)
      BY <1>3, <1>6, <2>2, RampStep
    <2>4. /\ (p + (v + a)) - cfg.lo = below - (-v - a)
          /\ (-v - a) * (-v - a) = (v + a) * (v + a)
      BY <1>3
    <2> QED BY <1>1, <1>3, <1>6, <2>1, <2>2, <2>3, <2>4 DEF Stoppable, Velocity, a
  <1>7. ASSUME Sound(cfg.env), ~unchecked, ~Velocity \/ AbsOf(v) <= a
        PROVE  Stoppable'
    <2>1. Ramp = 0 /\ p' = p /\ v' = 0
      BY <1>1, <1>3, <1>7 DEF Ramp
    <2>2. above >= 0 /\ below >= 0
      BY <1>3, <1>7 DEF BrakeInv, Stoppable
    <2>3. 2 * a * above >= 0 /\ 2 * a * below >= 0
      BY <1>3, <2>2, Product
    <2> QED BY <1>1, <1>3, <2>1, <2>2, <2>3 DEF Stoppable, Velocity
  <1>8. Sound(cfg.env) /\ ~unchecked' => Stoppable'
    BY <1>1, <1>3, <1>5, <1>6, <1>7 DEF AbsOf
  <1> QED BY <1>1, <1>2, <1>3, <1>4, <1>8 DEF BrakeInv

LEMMA HoldKeeps ==
  ASSUME BrakeInv, NEW delivered \in BOOLEAN, HoldTick(delivered)
  PROVE  BrakeInv'
PROOF
  <1>1. Host(delivered) /\ v' = 0 /\ p' = p + 0 /\ cfg' = cfg /\ unchecked' = unchecked
    BY DEF HoldTick, Moves
  <1>2. cfg' \in Configs /\ chunk' \in Chunks'
    BY <1>1, HostKeeps
  <1>3. /\ p \in Int /\ p' = p /\ cfg.hi \in Int /\ cfg.lo \in Int
        /\ cfg.env.a_max \in Int /\ cfg.env.a_max > 0
    BY <1>1, BrakeAssumption DEF BrakeInv, Configs, Compiled, Accepted, Envelopes
  <1>4. ASSUME Sound(cfg.env), ~unchecked PROVE Stoppable'
    <2>1. cfg.hi - p >= 0 /\ p - cfg.lo >= 0
      BY <1>3, <1>4 DEF BrakeInv, Stoppable
    <2>2. 2 * cfg.env.a_max * (cfg.hi - p) >= 0 /\ 2 * cfg.env.a_max * (p - cfg.lo) >= 0
      BY <1>3, <2>1, Product
    <2> QED BY <1>1, <1>3, <2>1, <2>2 DEF Stoppable, Velocity
  <1> QED BY <1>1, <1>2, <1>3, <1>4 DEF BrakeInv

LEMMA BrakeStart == BrakeInit => BrakeInv
PROOF
  <1> SUFFICES ASSUME BrakeInit PROVE BrakeInv OBVIOUS
  <1>1. /\ cfg \in Configs /\ p \in cfg.lo..cfg.hi /\ v = 0
    BY DEF BrakeInit, Configs
  <1>2. /\ cfg.hi \in Int /\ cfg.lo \in Int /\ p \in Int
        /\ cfg.env.a_max \in Int /\ cfg.env.a_max > 0
    BY <1>1, BrakeAssumption DEF Configs, Compiled, Accepted, Envelopes
  <1>3. chunk \in Chunks
    BY DEF BrakeInit, Chunks
  <1>4. Stoppable
    <2>1. cfg.hi - p >= 0 /\ p - cfg.lo >= 0
      BY <1>1, <1>2
    <2>2. 2 * cfg.env.a_max * (cfg.hi - p) >= 0 /\ 2 * cfg.env.a_max * (p - cfg.lo) >= 0
      BY <1>2, <2>1, Product
    <2> QED BY <1>1, <1>2, <2>1, <2>2 DEF Stoppable
  <1> QED BY <1>1, <1>2, <1>3, <1>4 DEF BrakeInv

LEMMA BrakeStep == BrakeInv /\ [BrakeNext]_brakeVars => BrakeInv'
PROOF
  <1> SUFFICES ASSUME BrakeInv, [BrakeNext]_brakeVars PROVE BrakeInv' OBVIOUS
  <1>1. ASSUME NEW delivered \in BOOLEAN, NEW i \in Indices,
               RunTick(i, delivered) \/ RearmTick(i, delivered) \/ ResumeTick(i, delivered)
        PROVE  BrakeInv'
    <2>1. Host(delivered) /\ Execute(i, delivered) /\ UNCHANGED cfg
      BY <1>1 DEF RunTick, RearmTick, ResumeTick
    <2> QED BY <2>1, ExecuteKeeps
  <1>2. ASSUME NEW delivered \in BOOLEAN, BrakeTick(delivered) PROVE BrakeInv'
    BY <1>2, BrakeKeeps
  <1>3. ASSUME NEW delivered \in BOOLEAN, HoldTick(delivered) PROVE BrakeInv'
    BY <1>3, HoldKeeps
  <1>4. CASE UNCHANGED brakeVars
    BY <1>4 DEF brakeVars, BrakeInv, Chunks, Indices, Stoppable, Velocity
  <1> QED BY <1>1, <1>2, <1>3, <1>4 DEF BrakeNext

\* After every admitted row, and at every tick of a stop from there, there is
\* room for the ramp that starts now, whatever rows ran before.
THEOREM RoomToStop == BrakeSpec => []BrakeInv
PROOF
  <1>1. BrakeInit => BrakeInv BY BrakeStart
  <1>2. BrakeInv /\ [BrakeNext]_brakeVars => BrakeInv' BY BrakeStep
  <1> QED BY <1>1, <1>2, PTL DEF BrakeSpec

\* The robot stays inside the box and its margin, for every sound envelope, every
\* sequence of chunks and rows and whenever the fuse stops it, until a row moves it
\* that the check did not admit.
THEOREM BoxKept == BrakeSpec => []StaysInBox
PROOF
  <1>1. BrakeInv => StaysInBox
    BY DEF BrakeInv, Stoppable, StaysInBox, Configs, Compiled
  <1> QED BY <1>1, RoomToStop, PTL
=============================================================================
