CONSTANTS
  gate = gate
  Away = Away
  Waypoints <- MCWaypoints
  Results <- MCResults
  Depth = 1
  MaxGoals = 2
  MaxArrivals = 1
SPECIFICATION LiveSpec
INVARIANTS NoVisitInvented RepeatedReportAgrees MissionShowsResult
PROPERTIES EveryResultReported RowCatchesUp
