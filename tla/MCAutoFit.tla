------------------------------ MODULE MCAutoFit ------------------------------
(* Histograms of four buckets: 1700 s wide ones put the range just below two *)
(* hours, 43000 s ones just below two days, 3600 s and 86400 s ones on unit  *)
(* boundaries beyond; a width of 0 stands for an unscaled one.              *)
EXTENDS AutoFit

Set(d, p, o, s) == [defaultTTL |-> d, padding |-> p, outlier |-> o, scale |-> s]

MCSettings == {Set(0, 0, 0, "linear"), Set(7201, 25, 20, "linear"),
               Set(0, 10, 20, "exponential"), Set(100000, 0, 0, "exponential")}
MCWidths == {0, 1700, 3600, 43000, 86400}
=============================================================================
