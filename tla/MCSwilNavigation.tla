--------------------------- MODULE MCSwilNavigation ---------------------------
(* TLC instance: IMU periods of one to three application periods, GNSS faster   *)
(* and slower than the IMU, both policies, with and without compensation.       *)
EXTENDS SwilNavigation

MCConfigs == [coning : BOOLEAN, afterEach : BOOLEAN, covPeriod : {1, 3}]
MCCadences ==
    [imu : 1..3, gnss : 1..2, log : {1, 2}, end : {0, 5}]
    \cup [imu : {2}, gnss : {1}, log : {1}, end : {6}]
    \cup [imu : {1, 2}, gnss : {3}, log : {1}, end : {6}]

\* The rates of the configuration document's example: an IMU at a third of the
\* application rate and an aiding sensor at a fifth.
MCThirds == [imu : {3}, gnss : {5}, log : {1}, end : {6}]
MCProduct == [coning : {TRUE}, afterEach : {TRUE}, covPeriod : {3}]
MCUnit == [imu : {1}, gnss : {2}, log : {1}, end : {4}]
=============================================================================
