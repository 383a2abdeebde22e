----------------------------- MODULE MCItemPath -----------------------------
(* What a reading meets besides the queues: whether it is let in (rate limiter, *)
(* adaptive controller), its stamp (clock), its match with another sensor's     *)
(* reading (sync), the filters, the transforms of its content and the chain of  *)
(* stages. None of them calls another: a behaviour exercises the one `part`     *)
(* names.                                                                       *)
EXTENDS RateLimiter, AdaptiveController, MonotonicClock, TimestampSync, Filters,
        StageChain, Transforms

CONSTANT Parts

\* The values of the sensor: one that the filter refuses between two that pass.
TwoOneFour == <<2, 1, 4>>

\* Vectors without two components alike in size, so that no axis passes for another.
FirstAccel == <<1, -2, 5>>
FirstGyro == <<3, 0, -1>>
AccelChoices == {FirstAccel, <<0, 4, -7>>}
GyroChoices == {FirstGyro}
BiasVector == <<1, -1, 2>>

VARIABLE part
gateVars == <<limiterVars, adaptiveVars>>
dataVars == <<syncVars, filterVars, frameVars, chainVars>>
allVars == <<part, gateVars, clockVars, dataVars>>

Init == /\ part \in Parts
        /\ LimiterInit /\ ControllerInit
        /\ ClockInit /\ SyncInit /\ FiltersInit /\ FramesInit /\ ChainInit
        /\ part # "adaptive" => utilization = "mid"
        /\ part # "filters" => kal.q = 0 /\ kal.r = 1
        /\ part # "frames" => imu = Raw(FirstAccel, FirstGyro)
        /\ part # "chain" => kind = [i \in StageSlots |-> "pass"]
        /\ part # "chain" => nested = "left" /\ ~repeat

Next ==
  /\ UNCHANGED part
  /\ \/ /\ part = "limiter" /\ LimiterNext
        /\ UNCHANGED <<adaptiveVars, clockVars, dataVars>>
     \/ /\ part = "adaptive" /\ ControllerNext
        /\ UNCHANGED <<limiterVars, clockVars, dataVars>>
     \/ /\ part = "clock" /\ ClockNext
        /\ UNCHANGED <<gateVars, dataVars>>
     \/ /\ part = "sync" /\ SyncNext
        /\ UNCHANGED <<gateVars, clockVars, filterVars, frameVars, chainVars>>
     \/ /\ part = "filters" /\ FiltersNext
        /\ UNCHANGED <<gateVars, clockVars, syncVars, frameVars, chainVars>>
     \/ /\ part = "frames" /\ FramesNext
        /\ UNCHANGED <<gateVars, clockVars, syncVars, filterVars, chainVars>>
     \/ /\ part = "chain" /\ ChainNext
        /\ UNCHANGED <<gateVars, clockVars, syncVars, filterVars, frameVars>>

Asks(w) == /\ part = "adaptive" /\ ControllerStep(w)
           /\ UNCHANGED <<part, limiterVars, clockVars, dataVars>>

\* Every thread goes on with its call, and items go on arriving.
Spec == Init /\ [][Next]_allVars /\ \A w \in Workers : WF_allVars(Asks(w))

\* Of a part that the behaviour does not exercise there is nothing to say.
Of(p, P) == part = p => P

TypeOK == Of("limiter", LimiterTypeOK) /\ Of("adaptive", ControllerTypeOK)

\* The content of a reading: filtered, estimated and transformed as documented.
ValuesAgree == Of("filters", FiltersAgree /\ KalmanIsSound) /\ Of("frames", FramesAgree)
=============================================================================
