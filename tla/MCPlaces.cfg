SPECIFICATION Spec
CONSTANTS
    Types <- MCTypes
    Arguments <- MCArguments
    Programs <- MCPrograms
    Pipelines <- MCPipelines
INVARIANTS
    TypeOK
    PointersIntoMemory
    SlicesInside
PROPERTY
    KeepsMirMemory
CHECK_DEADLOCK FALSE
