CONSTANTS
    owner = owner
    editor = editor
    admin = admin
    Actors = {owner, editor, admin}
    RoleOf <- MCRoleOf
    Titles = {t1}
    LastDay = 1
    Retention = 1
    MaxVersion = 4
SPECIFICATION FairSpec
CONSTRAINT TwoAtATime
INVARIANTS TypeOK CompletionIsAudited VersionIdentifiesContent RetentionIsKept
PROPERTIES EditorLeavesCompletedAlone ImplementsContract MaintenanceIsDone
CHECK_DEADLOCK FALSE
