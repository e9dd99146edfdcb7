SPECIFICATION RuleSpec
CONSTANTS
  RuleJobs <- MCRuleJobs
  PolicyJobs <- MCPolicyJobs
  FilterJobs <- MCFilterJobs
  Nesting = 2
INVARIANTS
  RuleAsPython
  PolicyByLines
  FiltersPartition
\* A call that has answered is over.
CHECK_DEADLOCK FALSE
