CONSTANTS
  NumTerms = 3
  NumPids = 4
  Commands <- MCCommands
  ValidCommands <- MCValidCommands
  Statuses <- MCStatuses
  KernelPreemptible = FALSE
  ShellCallsInBackground = FALSE
  SwitchWhileStarting = TRUE
  TableArrayAddr = 4202496
  VmemTableArrayAddr = 4206592
SPECIFICATION Spec
INVARIANT RunningProcessIsCurrent
