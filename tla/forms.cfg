SPECIFICATION FormsFairSpec
CONSTANTS
  Images = {i1, i2}
  Prompts = {p1}
  TextModels = {m1}
  ImageModels = {m2}
  Durations = {1, 30}
  None = None
INVARIANTS
  SentAsShown
  ImageJobsHaveImage
  PaidAsShown
PROPERTIES
  SubmissionEnds
