SPECIFICATION Spec
CONSTANTS
  Probe = {u1, u2, u3}
  Base <- MCBase
  Patch <- MCPatch
  Geyser <- FewGeysers
  PatchBase <- MCPatchBase
  GeyserBase <- FewGeyserBase
  FirstProbes = 2
  MaxEvents = 4
INVARIANT LineEndsMinedOut
