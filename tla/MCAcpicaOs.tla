----------------------------- MODULE MCAcpicaOs -----------------------------
(* Model values for AcpicaOs.                                               *)
EXTENDS AcpicaOs

CONSTANTS main, w1, w2, w3, none

NoWorkers == {}
OneWorker == {w1}
TwoWorkers == {w1, w2}
ThreeWorkers == {w1, w2, w3}
=============================================================================
