SPECIFICATION Spec
CONSTANTS
  a1 = a1
  a2 = a2
  a3 = a3
  u1 = u1
  u2 = u2
  j1 = j1
  SA = SA
  NoHandler = NoHandler
  Agents = {a1, a2, a3}
  Uids = {u1, u2}
  UidOf <- RollingUidOf
  ProofOf <- RollingProofOf
  Jtis = {j1}
  HubUid = u1
  Handlers = {h1, h2}
  ExpiredCode = "access_invalid"
  MaxFaults = 2
INVARIANTS TypeOK HeartbeatFromOwner BurntOnlyByFault
PROPERTIES KeepsLedger
SYMMETRY Swaps
