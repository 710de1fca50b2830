\* One network per instance, serialised calls, as many hosts per subnet as instances.
CONSTANTS
  Nets = {n1, n2}
  n1 = n1
  n2 = n2
  Insts = {a1, b2, b3}
  a1 = a1
  b2 = b2
  b3 = b3
  SubnetCount = 2
  HostCount = 2
  None = None
  InstNet <- MCInstNet
  ServiceOf <- MCServiceOf
  Fields <- MCFields
  AllowPolicies <- MCAllowPolicies
  ExposePolicies <- MCExposePolicies
SPECIFICATION Spec
SYMMETRY MCSymmetry
INVARIANTS
  TypeOK
  RulesMatchPolicy
