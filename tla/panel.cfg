SPECIFICATION MCSpec
CONSTANTS
  Kinds = {"networks", "volumes"}
  KeepSinces = {"Everything", "Older than 24 hours"}
  Endings <- MCEndings
  MaxPreviews = 2
INVARIANTS
  TypeOK PatientSeesWhatGoes OneApplyPerView VolumesAskedFor ResultStaysInView
PROPERTIES
  SpinnerEnds ApplyIsTold
