---- MODULE MCDrivers ----
(* The instances of Drivers are given by the configurations alone.          *)
EXTENDS Drivers
====
