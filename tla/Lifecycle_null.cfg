SPECIFICATION LifecycleSpec
INVARIANT NoDanglingUse
