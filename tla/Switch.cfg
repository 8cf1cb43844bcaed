SPECIFICATION Spec
CONSTANTS
  NVCPU = 2
  PLAIN <- Plain
INVARIANTS
  TypeOK
  TlbIsOwn
  RegistersKept
  NeverMixed
