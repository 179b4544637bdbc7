--------------------------------- MODULE Brake ---------------------------------
(***************************************************************************)
(* crates/lictor-detect/src/brake.rs in the loop of decide()               *)
(* (crates/lictor-fuse/src/fuse.rs): a plant that does what it is told,    *)
(* rows of chunks, the stopping ball of the closed-form kinds, and the     *)
(* actions of Braking and Held.  The state machine is Fsm; here it may     *)
(* brake at any tick, for any reason of its own.                           *)
(*                                                                         *)
(* A plant of position kind goes to its setpoint within a tick.  The exact *)
(* rollout of pd_second_order is not modelled.                             *)
(***************************************************************************)
EXTENDS Envelope

CONSTANTS
  Manifests,   \* the envelopes tried
  Rows         \* what a policy may ask for

ASSUME BrakeAssumption == Manifests \subseteq Envelopes /\ Rows \subseteq Int

VARIABLES
  cfg,         \* the compiled envelope
  chunk,       \* the delivered chunk, projected
  p, v,        \* position, and the velocity of the last tick
  mode,        \* "run": the policy moves it; "brake"; "hold"
  unchecked    \* history: the check did not admit the row that last moved it

brakeVars == <<cfg, chunk, p, v, mode, unchecked>>

Velocity == cfg.env.action = "joint_velocity"

AbsOf(x) == IF x >= 0 THEN x ELSE -x

Between(a, b) == IF a <= b THEN a..b ELSE b..a

Indices == 0..(cfg.env.horizon - 1)

Chunks == [Indices -> Rows]

-----------------------------------------------------------------------------
(* The check.                                                              *)

\* radius: d_stop = DistNum / DistDen, by the kind of brake.
DistNum(s) ==
  CASE cfg.env.kind = "first_order_decay" -> s
    [] cfg.env.kind = "jerk_limited" ->
         s * s * cfg.env.j_max + s * cfg.env.a_max * cfg.env.a_max
    [] OTHER -> s * s

DistDen ==
  CASE cfg.env.kind = "first_order_decay" -> cfg.env.k_v
    [] cfg.env.kind = "jerk_limited" -> 2 * cfg.env.a_max * cfg.env.j_max
    [] OTHER -> 2 * cfg.env.a_max

\* Mutation of Reach: the dead time before the brake bites is left out.
ReachAtOnce(s) == DistNum(s)

Reach(s) == DistNum(s) + s * cfg.env.react_ticks * DistDen

\* slack_r: the box is left by no less than the ball around x.
Fits(x, w) ==
  /\ DistDen * (x - cfg.lo) >= Reach(AbsOf(w))
  /\ DistDen * (cfg.hi - x) >= Reach(AbsOf(w))

\* commanded_velocity
Commanded(a, x) == IF Velocity THEN a ELSE a - x

\* closed_form: the rows from i to commit_steps, one Euler step each.
Path(ch, i) ==
  LET at[j \in i..cfg.env.commit_steps] ==
        IF j = i THEN p ELSE at[j - 1] + Commanded(ch[j - 1], at[j - 1])
  IN at

Feasible(ch, i) ==
  /\ Fits(p, v)
  /\ i < cfg.env.commit_steps => Fits(p, Commanded(ch[i], p))
  /\ \A j \in (i + 1)..(cfg.env.commit_steps - 1) :
       Fits(Path(ch, i)[j], Commanded(ch[j], Path(ch, i)[j]))

-----------------------------------------------------------------------------
(* A tick.                                                                 *)

Moves(w) == v' = w /\ p' = p + w

\* What guard() lets a host do: deliver a chunk or go on in the last one, and
\* name any row of it, a late delivery too (t - t_emit), the rows it drains
\* after exec_steps, or one it has executed before.
Host(delivered) == IF delivered THEN chunk' \in Chunks ELSE UNCHANGED chunk

\* A row that is in the rollout of its tick, and the rollout fits.
Admitted(ch, i) == i < cfg.env.commit_steps /\ Feasible(ch, i)

\* brake_action: the velocity is ramped down, a setpoint pulled to the position.
Ramp ==
  IF ~Velocity \/ AbsOf(v) <= cfg.env.a_max THEN 0
  ELSE IF v > 0 THEN v - cfg.env.a_max ELSE v + cfg.env.a_max

\* The row of this tick, which a leash may have pulled towards the last command
\* (check_action, on a tick without a delivery).
Execute(i, delivered) ==
  /\ unchecked' = ~Admitted(chunk', i)
  /\ \E w \in IF delivered THEN {Commanded(chunk'[i], p)}
             ELSE Between(IF Velocity THEN v ELSE 0, Commanded(chunk'[i], p)) :
       Moves(w)

\* Armed, Watching, Clamped: the check is passed, every tick.  Of a row that is
\* not committed it only looks at where the robot is (from >= commit_steps).
RunTick(i, delivered) ==
  /\ mode = "run" /\ Host(delivered)
  /\ Feasible(chunk', i)
  /\ Execute(i, delivered)
  /\ UNCHANGED <<cfg, mode>>

\* The check fails, or something else trips; also every later tick of Braking.
BrakeTick(delivered) ==
  /\ mode \in {"run", "brake"} /\ Host(delivered)
  /\ mode' = "brake"
  /\ Moves(Ramp)
  /\ UNCHANGED <<cfg, unchecked>>

\* hold_action: Held once stopped, and Fault at any time; zero, or the position
\* where it was entered.
HoldTick(delivered) ==
  /\ Host(delivered)
  /\ mode' = "hold"
  /\ Moves(0)
  /\ UNCHANGED <<cfg, unchecked>>

\* The automatic re-arm wants a clean tick.
RearmTick(i, delivered) ==
  /\ mode = "hold" /\ Host(delivered)
  /\ Feasible(chunk', i)
  /\ mode' = "run"
  /\ Execute(i, delivered)
  /\ UNCHANGED cfg

\* A Resume does not (Fsm: RejectedRowNeverPassed).
ResumeTick(i, delivered) ==
  /\ mode = "hold" /\ Host(delivered)
  /\ mode' = "run"
  /\ Execute(i, delivered)
  /\ UNCHANGED cfg

BrakeInit ==
  /\ cfg \in {Compiled(e) : e \in {m \in Manifests : Accepted(m) /\ m.kind # "pd_second_order"}}
  /\ chunk \in {[i \in Indices |-> a] : a \in Rows}
  /\ p \in cfg.lo..cfg.hi
  /\ v = 0 /\ mode = "run" /\ unchecked = FALSE

\* Nothing is asked of a robot that is out.
BrakeNext ==
  /\ p \in cfg.lo..cfg.hi
  /\ \E delivered \in BOOLEAN :
       \/ BrakeTick(delivered) \/ HoldTick(delivered)
       \/ \E i \in Indices : \/ RunTick(i, delivered)
                            \/ RearmTick(i, delivered)
                            \/ ResumeTick(i, delivered)

BrakeSpec == BrakeInit /\ [][BrakeNext]_brakeVars

-----------------------------------------------------------------------------
(* Properties.                                                             *)

\* What the braking check needs of an envelope and validate() does not ask: the
\* dead time is at least the tick the row of this tick takes, and the ball is
\* that of the ramp the fuse brakes with.
Sound(e) ==
  /\ e.react_ticks >= 1
  /\ e.action = "joint_velocity" => e.kind # "first_order_decay"

\* Under such an envelope the robot leaves the box inside the margin only on a
\* row the check did not admit, or in the stop after one: at whatever tick the
\* fuse stops it, for whatever reason, in the middle of a chunk or on a leashed
\* row that was not in any rollout, the ramp ends inside.  Rows from commit_steps
\* on are in no rollout, and an operator's Resume lets a rejected one pass; the
\* next row that is admitted has the room for its stop again.
StaysInBox ==
  Sound(cfg.env) /\ ~unchecked =>
    /\ cfg.env.box_lo + cfg.env.margin <= p
    /\ p <= cfg.env.box_hi - cfg.env.margin
=============================================================================
