SPECIFICATION Spec
CONSTANTS
    N = 3
    Copies = 2
    Inputs <- MCInputs
    Pipelines <- MCPipelines
    Faults = {"input"}
PROPERTIES
    BatchReturns
CHECK_DEADLOCK FALSE
