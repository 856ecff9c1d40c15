\* A queue of two, batches of two, two attempts.
SPECIFICATION ExporterSpec
CONSTANTS
    e1 = e1
    e2 = e2
    e3 = e3
    t1 = t1
    Exported = {e1, e2, e3}
    Targets = {t1}
    MaxItems = 2
    BatchMax = 2
    MaxAttempts = 2
    MaxChanges = 1
INVARIANTS
    ExportAccounted
    SettingsTakeEffect
PROPERTIES
    FlushMeansSettled
    ExportSettles
