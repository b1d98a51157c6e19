\* Kernel under the spec's masking assumption, shell calls from the
\* displayed terminal only.
CONSTANTS
  NumTerms = 3
  NumPids = 4
  Commands <- MCCommands
  ValidCommands <- MCValidCommands
  Statuses <- MCStatuses
  KernelPreemptible = FALSE
  ShellCallsInBackground = FALSE
  SwitchWhileStarting = FALSE
  TableArrayAddr = 4202496
  VmemTableArrayAddr = 4206592
SPECIFICATION Spec
INVARIANTS
  TypeOK
  RunningProcessIsCurrent
  ImageIntact
  SchedulerVisitsAll
  HaltReportsFault
  UserMemoryIsolated
PROPERTIES
  EveryTerminalRuns
  ImplementsProcessTree
