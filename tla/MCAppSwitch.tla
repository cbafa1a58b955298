---------------------------- MODULE MCAppSwitch ----------------------------
\* AppSwitch for TLC: a board with a launcher, and one whose only app is flashed.
EXTENDS AppSwitch

MCDirectories == {Packages, {CHOOSE a \in Receivers : TRUE}}
=============================================================================
