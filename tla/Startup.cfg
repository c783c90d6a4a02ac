SPECIFICATION Spec
CONSTANTS
    Inis <- AllInis
    Builds <- AllBuilds
INVARIANT TypeOK
INVARIANT FailureLeavesNothing
INVARIANT RunsAsConfigured
INVARIANT NamedBeforeExport
INVARIANT ReportsThroughProvider
CHECK_DEADLOCK FALSE
