CONSTANTS
  None = None
  Databases = {"home", "work"}
  Albums <- TwoAlbums
  Releases <- OneWithCovers
  Discs <- SetAndSingle
  Assets <- Scans
  Pictures <- Kinds
  MaxMishaps = 2
SPECIFICATION Spec
INVARIANTS ExportedStays 
