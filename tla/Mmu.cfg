\* Two programs: one address space with pages of all three sizes, aligned or
\* not, backed or not; two address spaces with global mappings.
SPECIFICATION Spec
CONSTANTS
  VpnCount = 2
  MaxBlank = 1
  kTlbSize = 2
  Slots <- MCSlots
  Backed <- MostPages
  Asids = {0, 1, 2}
  Pages <- MCPages
  Accesses <- MCAccesses
  SatpWrites <- MCSatps
  Programs <- MCPrograms
INVARIANTS TypeOK TlbSound
PROPERTY ImplementsVirtualMemory
