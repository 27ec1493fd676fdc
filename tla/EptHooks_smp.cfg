SPECIFICATION Spec
CONSTANTS
  kern = kern
  kern2 = kern2
  user = user
  s1 = s1
  s2 = s2
  s3 = s3
  img = img
  stk = stk
  dum = dum
  Kernel = Kernel
  User = User
  Hyper = Hyper
  fnA = fnA
  fnB = fnB
  fnC = fnC
  ld = ld
  ld2 = ld2
  en = en
  en_g = en_g
  en_h = en_h
  di = di
  vc = vc
  bad = bad
  None = None
  Cpus = {c1, c2}
  Frames <- MCFrames
  LargePages <- MCLargePages
  LargeOf <- MCLargeOf
  HeapPages <- MCHeapPages
  Code <- MCCode
  Functions <- MCFunctions
  PageOf <- MCPageOf
  Insn <- MCInsn
  Cacheable <- MCCacheable
  InstrCount <- MCInstrCount
  DummyPage = dum
  AllocatedRanges <- MCRanges
SYMMETRY Symmetry
INVARIANTS
  IndInv
  TypeOK
  NoDanglingShadow
  ShadowExecuteOnly
  ShadowsDistinct
  TablesPresent
  HiddenStaysHidden
  SteppingIsPrepared
CHECK_DEADLOCK FALSE
