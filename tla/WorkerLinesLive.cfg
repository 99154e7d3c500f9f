SPECIFICATION FairSpec
CONSTANTS
  Probe = {u1, u2, u3}
  Base <- MCBase
  Patch <- FewPatches
  Geyser <- FewGeysers
  PatchBase <- FewPatchBase
  GeyserBase <- FewGeyserBase
  FirstProbes = 3
  MaxEvents = 3
PROPERTIES Settles VespeneServed
