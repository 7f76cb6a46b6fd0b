SPECIFICATION Spec
CONSTANTS
  host_bootstrap = host_bootstrap
  stage0_check = stage0_check
  Provisioners <- Scripts
  Files = {1, 2, 3, 4}
  None = None
  Chunks = 2
INVARIANTS ReturnedPackStays UnpinnedOnlyWhileChecked PartHasOwner
