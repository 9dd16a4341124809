SPECIFICATION Spec
CONSTANTS
    RrfK = 60
    TopM = 3
    TestPaths = {"src/t"}
    PathScore <- MCPathScore
    Outside = {}
    Strong = 60
    Weak = 40
    MaxSourceTargets = 4
    MaxTestTargets = 3
    Estimate <- MCEstimate
    Overcommit = 3
    Texts <- MCTexts
    Alphabet <- MCAlphabet
    Heading = 1
    MinDedup = 3
    Cite = 2
    MapHead = 2
    MaxSettle = 3
    Cases <- MCCases
    Budgets <- MCBudgets
    Rankings <- MCRankings
    Files <- MCFiles
    TermLength <- MCTermLength
    MaxFiles <- MCMaxFiles
    Before = 24
    HeadLines = 8
    Preamble = 24
    ReadsPerRound = 2
    MaxTypes = 5
    MaxFacetExpansions = 4
    MinRemaining = 4
    MaxFaults = 1
INVARIANTS
  GatherIsComplete
  PacketIsTrue
  ReadyPlanIsBacked
