SPECIFICATION Spec
CONSTANTS
    Flaky = {0, 1, 3}
    LocalApi = TRUE
    Quiet = {TRUE, FALSE}
INVARIANTS
    TypeOK
    NotedCordonIsKept
    ServingIsSchedulable
PROPERTIES
    AnnotationsKeepTheCordon
