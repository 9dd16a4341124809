CONSTANTS
  Wording <- MCWording
  Blank = ""
  Mentions <- MCMentions
  Stem <- MCStem
  Slug <- MCSlug
  Numeral <- MCNumeral
  MaxSkills = 8
  Template = {1, 2, 3, 4}
  TemplateText <- MCTemplateText
  Fallback = 1
  Allows = {2, 3}
  MaxCandidates = 3
  MaxEvidence = 2
  PacketTokens <- MCTokens
  Client = {c1}
  Source = {1, 2, 3, 4, 5, 6}
  Checkouts <- MCCheckouts
  Bundled <- MCBundled
  MaxVisited = 9
  CopyId <- MCCopyId
  Task <- MCTask
  Similarity <- MCSimilarity
  MaxSaves = 1
SPECIFICATION Spec
INVARIANTS
  RoundTrip
  LibraryAccounted
  PacketsLeadEverywhere
