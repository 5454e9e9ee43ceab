SPECIFICATION FairSpec
CONSTANTS
  Incident <- TwoIncidents
  MaxDiagnoses = 2
  ScanBound = 6
  Limits = {1}
  MaxChanges = 0
  MaxFaults = 0
PROPERTY NeverStarved
