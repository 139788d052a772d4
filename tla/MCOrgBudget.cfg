SPECIFICATION MCSpec
CONSTANTS
  None = None  Refused = Refused
  t1 = t1  t2 = t2  preset1 = preset1  preset2 = preset2
  Tools = {t1, t2}
  Labels = {preset1, preset2, "amount", "head1", "head2", "template1", "template2", "usd"}
  Approvals = {{}, {preset1}}
  Concerns = {"budget"}
  SubjectsChecked = {}
  MaxIssued = 0
  MaxFaults <- MCMaxFaults
  MaxLeaves = 1
INVARIANT
  OrgBudgetKept
CHECK_DEADLOCK FALSE
