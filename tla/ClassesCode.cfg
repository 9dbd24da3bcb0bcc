\* The classes of the library and those of an application, two requests of
\* the program after it has started.  Superclasses are at most four deep, so
\* that only cycles need more than six calls of LoadClass.
SPECIFICATION FairSpec
CONSTANTS
    Worlds <- MCWorlds
    Requests = {"App", "Boolean", "True", "Block3", "nil", "true"}
    MaxDepth = 6
    MaxOps = 2
CHECK_DEADLOCK FALSE
INVARIANTS
    ParallelHierarchies
    ClassesLinked
    ParsersDeletedOnce
PROPERTIES
    BindingsKept
    LoadsEnd
