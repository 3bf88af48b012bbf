SPECIFICATION Spec
CONSTANTS
  r1 = r1 r2 = r2 r3 = r3 r4 = r4 r5 = r5
  x1 = x1 x2 = x2 x3 = x3 fallback = fallback
  u1 = u1 u2 = u2 u3 = u3 u4 = u4
  w1 = w1 w2 = w2 v1 = v1 v2 = v2
  hrk = hrk hdr = hdr
  cA = cA cB = cB
  Result = {r1, r2, r3, r4, r5}
  Report = {x1, x2, x3, fallback}
  Device = {hrk, hdr}
  Combo = {cA, cB}
  Short = {w1, w2, v1, v2}
  FirstRun = {u1, u2, u3, u4}
  Served = {u2, u4}
  RunOf <- MCRunOf
  ReportOf <- MCReportOf
  RoundOf <- MCRoundOf
  Number <- MCNumber
  ComboOf <- MCComboOf
  CaseComboOf <- MCCaseComboOf
  DeviceOf <- MCDeviceOf
  DevicesOf <- MCDevicesOf
  Version <- MCVersion
  HandMade = {hdr}
  None = None
INVARIANTS TypeOK TreeWhole BlockedShown
PROPERTY FiledRight
CHECK_DEADLOCK FALSE
