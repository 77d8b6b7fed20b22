SPECIFICATION Spec
CONSTANTS
  Requests = {r1, r2}
  NoRequest = NoRequest
  NoClient = NoClient
  Clients = {1, 2, 3, 4, 5, 6, 7, 8}
  Foreign = {5, 6, 7, 8}
INVARIANTS IdentityKept
