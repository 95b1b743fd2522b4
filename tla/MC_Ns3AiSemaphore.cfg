\* Three processes and two permits: a process can be overtaken twice between its load
\* and its swap.  No symmetry: the run checks liveness.
SPECIFICATION Spec
CONSTANTS
    p1 = p1
    p2 = p2
    p3 = p3
    Procs <- MCProcs
    Word = 256
    Permits = 2
PROPERTIES
    ImplementsFairSemaphore
