------------------------------ MODULE MCNavigator ------------------------------
(* TLC instance: both update policies with and without coning compensation,     *)
(* and a covariance period that increments divide and one they do not.          *)
EXTENDS Navigator

MCConfigs == [coning : BOOLEAN, afterEach : BOOLEAN, covPeriod : {1, 3}]
=============================================================================
