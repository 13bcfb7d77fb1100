CONSTANTS
  gate = gate
  Away = Away
  Waypoints <- MCWaypoints
  Results <- MCResults
  Depth = 1
  MaxGoals = 1
  MaxArrivals = 1
SPECIFICATION Spec
INVARIANT RepeatedReportIsDuplicate
