-------------------------- MODULE MCMonitoredItem --------------------------
\* Values for TLC: intervals are ranks, 1 is the fastest.
EXTENDS MonitoredItemProperties

OneTimer  == {0, 1}
AllIntervals == {0, 1, 2}
=============================================================================
