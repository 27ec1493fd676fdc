SPECIFICATION Spec
CONSTANTS
  kern = kern
  kern2 = kern2
  user = user
  s1 = s1
  s2 = s2
  s3 = s3
  img = img
  stk = stk
  dum = dum
  Kernel = Kernel
  User = User
  Hyper = Hyper
  fnA = fnA
  fnB = fnB
  fnC = fnC
  ld = ld
  ld2 = ld2
  en = en
  en_g = en_g
  en_h = en_h
  di = di
  vc = vc
  bad = bad
  None = None
  Cpus = {c1}
  Frames <- UniFrames
  LargePages <- UniLargePages
  LargeOf <- UniLargeOf
  HeapPages <- UniHeapPages
  Code <- UniCode
  Functions <- UniFunctions
  PageOf <- UniPageOf
  Insn <- UniInsn
  Cacheable <- UniCacheable
  InstrCount <- UniInstrCount
  DummyPage = dum
  AllocatedRanges <- MCRanges
INVARIANT TlbCoherent
PROPERTIES ViolationIsHandled EnableKeepsHooks
CHECK_DEADLOCK FALSE
