SPECIFICATION Spec
INVARIANTS UniqueContainerNames
