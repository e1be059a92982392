\* Every kind of body: unlock_safe spawns without blocking and ends with
\* `return all(p)`; reimage_machines does HTTP requests between the spawns.
SPECIFICATION FairSpec
CONSTANT Funcs = {f1, f2, f3}
PROPERTIES ImplementsForkJoin LeavesBlock
CHECK_DEADLOCK FALSE
