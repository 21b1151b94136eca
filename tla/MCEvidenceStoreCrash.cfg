SPECIFICATION Spec
CONSTANTS
  None = None
  Keys = {"a", "b"}
  Snapshots <- MCSnapshots
  Hashes = {"h1"}
  Roles = {"report", "patch"}
  MaxEvents = 2
  MaxMishaps = 2
INVARIANT ManifestSurvivesCrash
