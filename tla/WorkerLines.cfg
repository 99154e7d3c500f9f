SPECIFICATION Spec
CONSTANTS
  Probe = {u1, u2, u3, u4}
  Base <- MCBase
  Patch <- MCPatch
  Geyser <- MCGeyser
  PatchBase <- MCPatchBase
  GeyserBase <- MCGeyserBase
  FirstProbes = 3
  MaxEvents = 5
INVARIANTS TypeOK VespenePlacement VespeneBalanced EveryProbeMines
PROPERTY MovesFindRoom
SYMMETRY Symmetry
