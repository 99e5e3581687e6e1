---------------------------- MODULE MetricSensor ----------------------------
(***************************************************************************)
(* A sensor that shows one metric of an agent.  Setting up the sensor      *)
(* platform constructs it with the metric's value; Home Assistant adds it  *)
(* in a task of its own, and only then does it listen to the dispatcher.   *)
(* missed is a history: a signal came before anybody listened.             *)
(***************************************************************************)

NoValue == "unknown"
NoSensor == [stage |-> "none", shows |-> NoValue, missed |-> FALSE]

\* Mutant: the new sensor waits for the first signal to learn its value.
CreateUnknown(value) == [NoSensor EXCEPT !.stage = "created"]

Create(value) == [NoSensor EXCEPT !.stage = "created", !.shows = value]

AddedToHass(sensor) == [sensor EXCEPT !.stage = "added"]

HandleMetricsUpdate(sensor, value) == [sensor EXCEPT !.shows = value, !.missed = FALSE]

Signal(sensor, value) ==
  CASE sensor.stage = "none" -> sensor
    [] sensor.stage = "created" -> [sensor EXCEPT !.missed = TRUE]
    [] sensor.stage = "added" -> HandleMetricsUpdate(sensor, value)
=============================================================================
