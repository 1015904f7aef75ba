CONSTANTS
  Agents = {a1, a2}
  Texts = {t1, t2}
  Blocks = {b1, b2, b3}
  Freed = freed
SPECIFICATION Spec
INVARIANT
  OtherKeysNeedNoRepointing
