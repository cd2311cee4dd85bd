CONSTANT Scripts <- MCSpliceScripts
SPECIFICATION Spec
INVARIANT CallReleasesLock
