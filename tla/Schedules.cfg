CONSTANTS
    j1 = j1  j2 = j2
    r1 = r1
    Jobs = {j1, j2}
    Roles = {r1}
    RoleOf <- MCRoleOf
    Forms <- MCForms
    Period = 2
    Interval = 1
    Leads = {1}
    Grace = 0
    AtTimes <- MCAtTimes
    MaxTime = 2
    MaxEdits <- MCMaxEdits
    MaxServices = 2
SPECIFICATION Spec
CHECK_DEADLOCK FALSE
PROPERTIES
    WithdrawnStaysGone
    WithdrawnStaysSilent
    OccurrenceOnce
    StoreKeeps
