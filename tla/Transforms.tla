----------------------------- MODULE Transforms -----------------------------
(***************************************************************************)
(* What stages do with the content of an IMU reading: Vec3, ImuReading and *)
(* ImuCalibration (src/src/sensor/imu.rs), RotationMatrix and the stages   *)
(* of src/src/stage/transform.rs.                                          *)
(*                                                                         *)
(* Components are integers and angles quarter turns, whose sine and cosine *)
(* are exact; a unit is the power of the conversion factor that a value    *)
(* has been multiplied by.  A reading goes through stages one by one; the  *)
(* matrix that multiply makes of their rotations is kept beside it.        *)
(***************************************************************************)
EXTENDS Integers, Sequences

CONSTANTS
  Accels, Gyros,   \* the vectors of a first reading
  Bias,            \* the accel_bias of the calibration, and of BiasCorrection
  Gain,            \* the accel_scale of the calibration, and the factor of Scale
  MaxStages        \* bound: stages a reading goes through

\* Vec3, by its components.
Vectors == Int \X Int \X Int

ASSUME VectorAssumption == /\ Accels \subseteq Vectors /\ Gyros \subseteq Vectors
                           /\ Bias \in Vectors /\ Gain \in Int
ASSUME StageBounds == MaxStages \in Nat

VARIABLES
  imu,         \* ImuReading: accel and gyro, and the units they are in
  first,       \* the reading as it was before its rotations
  rotation,    \* the product of the rotations since then
  corrected,   \* history: what the last correction was given, or none
  passed       \* the number of stages passed

frameVars == <<imu, first, rotation, corrected, passed>>

---------------------------------------------------------------------------
(* Vec3                                                                    *)

Vec(f(_)) == <<f(1), f(2), f(3)>>
Dot(a, b) == a[1] * b[1] + a[2] * b[2] + a[3] * b[3]
Cross(a, b) == <<a[2] * b[3] - a[3] * b[2], a[3] * b[1] - a[1] * b[3], a[1] * b[2] - a[2] * b[1]>>
Subtract(a, b) == Vec(LAMBDA i : a[i] - b[i])
ScaledBy(a, k) == Vec(LAMBDA i : a[i] * k)

---------------------------------------------------------------------------
(* RotationMatrix                                                          *)

Identity == <<<<1, 0, 0>>, <<0, 1, 0>>, <<0, 0, 1>>>>
Cos(q) == CASE q % 4 = 0 -> 1 [] q % 4 = 2 -> -1 [] OTHER -> 0
Sin(q) == Cos(q + 3)

RotationX(q) == <<<<1, 0, 0>>, <<0, Cos(q), -Sin(q)>>, <<0, Sin(q), Cos(q)>>>>
RotationY(q) == <<<<Cos(q), 0, Sin(q)>>, <<0, 1, 0>>, <<-Sin(q), 0, Cos(q)>>>>
RotationZ(q) == <<<<Cos(q), -Sin(q), 0>>, <<Sin(q), Cos(q), 0>>, <<0, 0, 1>>>>

Transpose(m) == Vec(LAMBDA i : Vec(LAMBDA j : m[j][i]))
Transform(m, v) == Vec(LAMBDA i : Dot(m[i], v))

\* Mutant: the factors are swapped.
MultiplySwapped(m, n) == Vec(LAMBDA i : Vec(LAMBDA j : Dot(n[i], Vec(LAMBDA k : m[k][j]))))

Multiply(m, n) == Vec(LAMBDA i : Vec(LAMBDA j : Dot(m[i], Vec(LAMBDA k : n[k][j]))))

\* from_euler_zyx
Euler(yaw, pitch, roll) == Multiply(Multiply(RotationZ(yaw), RotationY(pitch)), RotationX(roll))

\* Mutant: X and Y are swapped but Z is kept, which is no rotation.
NedToEnuMirrored == <<<<0, 1, 0>>, <<1, 0, 0>>, <<0, 0, 1>>>>

\* ned_to_enu, and enu_to_ned
NedToEnu == <<<<0, 1, 0>>, <<1, 0, 0>>, <<0, 0, -1>>>>

---------------------------------------------------------------------------
NoCorrection == [accel |-> <<0, 0, 0>>, kind |-> "none"]
Raw(a, g) == [accel |-> a, gyro |-> g, accelUnit |-> 0, gyroUnit |-> 0]

FramesInit ==
  /\ \E a \in Accels, g \in Gyros : imu = Raw(a, g)
  /\ first = imu
  /\ rotation = Identity
  /\ corrected = NoCorrection
  /\ passed = 0

Passes == passed < MaxStages /\ passed' = passed + 1

\* ImuTransform, and VectorTransform on each vector: accel and gyro alike.
Rotate(m) ==
  /\ Passes
  /\ imu' = [imu EXCEPT !.accel = Transform(m, @), !.gyro = Transform(m, @)]
  /\ rotation' = Multiply(m, rotation)
  /\ corrected' = NoCorrection
  /\ UNCHANGED first

\* A reading whose content was changed starts its rotations anew.
Changed(r) ==
  /\ Passes
  /\ imu' = r /\ first' = r
  /\ rotation' = Identity

\* ImuUnitConversion: g_degs_to_si multiplies by the factors, si_to_g_degs by their
\* reciprocals.
Convert(power) ==
  /\ imu.accelUnit + power \in {-1, 0, 1}
  /\ Changed([imu EXCEPT !.accelUnit = @ + power, !.gyroUnit = @ + power])
  /\ corrected' = NoCorrection

\* BiasCorrection, Scale: the one subtracts, the other multiplies.
CorrectBias ==
  /\ Changed([imu EXCEPT !.accel = Subtract(@, Bias)])
  /\ corrected' = [accel |-> imu.accel, kind |-> "bias"]

ScaleReading ==
  /\ corrected.kind = "bias"
  /\ Changed([imu EXCEPT !.accel = ScaledBy(@, Gain)])
  /\ corrected' = [corrected EXCEPT !.kind = "scaled"]

\* Mutant: scaled before the bias is taken off.
CalibratedLate(v) == Subtract(ScaledBy(v, Gain), Bias)

\* ImuCalibration::apply, by component.
Calibrated(v) == Vec(LAMBDA i : (v[i] - Bias[i]) * Gain)

FramesNext ==
  \/ \E q \in 0..3 : Rotate(RotationX(q)) \/ Rotate(RotationY(q)) \/ Rotate(RotationZ(q))
  \/ \E yaw, pitch, roll \in 1..2 : Rotate(Euler(yaw, pitch, roll))
  \/ Rotate(NedToEnu)
  \/ Convert(1) \/ Convert(-1)
  \/ CorrectBias \/ ScaleReading

FramesSpec == FramesInit /\ [][FramesNext]_frameVars

---------------------------------------------------------------------------
(* Properties                                                              *)

\* transform.rs: whatever rotations, frames and Euler angles are chained, the one
\* matrix that multiply made of them takes the first reading to the last, its
\* transpose ("equals the inverse", line 92) takes it back, and lengths, angles and
\* handedness are kept: no stage mirrors a reading. A calibration does what a bias
\* correction with a scale after it does, in whatever frame and units.
FramesAgree ==
  /\ Transform(rotation, first.accel) = imu.accel
  /\ Transform(rotation, first.gyro) = imu.gyro
  /\ Transform(Transpose(rotation), imu.accel) = first.accel
  /\ Dot(imu.accel, imu.accel) = Dot(first.accel, first.accel)
  /\ Dot(imu.accel, imu.gyro) = Dot(first.accel, first.gyro)
  /\ Cross(imu.accel, imu.gyro) = Transform(rotation, Cross(first.accel, first.gyro))
  /\ imu.accelUnit = imu.gyroUnit
  /\ corrected.kind = "scaled" => imu.accel = Calibrated(corrected.accel)
=============================================================================
