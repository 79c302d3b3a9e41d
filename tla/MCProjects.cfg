SPECIFICATION ProjectsSpec
CONSTANTS
  Waiters = {"w1", "w2"}
  Handlers = {"h1", "h2"}
  NoHandler = "none"
  MaxGeneration = 3
  Agents = {a1, a2}
  Working = {a1}
  Bodies = {{}, {a1}, {a1, a2}}
  Owner = Owner
  General = General
  Posts = {p1}
  Items = {i1}
  Chats = {}
  Projects = {q1}
  MaxMentionAttempts = 1
  MaxWrites = 3
  MaxRepeats = 1
  MaxFailures = 1
  Nobody = Nobody
  Runs = {r1, r2, r3}
  MaxItemFailures = 2
  MaxReports = 2
  MaxEdits = 1
  MaxReleases = 1
  MaxMishaps = 1
INVARIANTS NoLostWake MentionsInv RunRecordsInv
PROPERTIES WaitAnswered MentionsAreServed
