SPECIFICATION FairSpec
CONSTANTS
  a1 = a1
  a2 = a2
  c1 = c1
  c2 = c2
  c3 = c3
  NoAgent = NoAgent
  Agents = {a1, a2}
  AgentOf <- AgentOfCall
  Calls = {c1, c2, c3}
  Creators = {c3}
  Hashed = {c2}
  LockBreaks = TRUE
INVARIANTS TypeOK LockNeverLeaks EditsSerialized GrantsExclusive
PROPERTIES EditsKept EveryEditReturns
