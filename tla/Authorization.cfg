CONSTANTS
  Codes = {c1}
  agent = agent
  app = app
  mcp = mcp
  Bindings = {agent, app}
  Public <- MCPublic
  ResourceOf <- MCResourceOf
  Resource = mcp
  Unnamed = Unnamed
  Exchanges = {x1, x2}
  Lifetime = 2
  Grain = 2
  MaxTime = 4
  MaxAttempts = 2
  read = read
  write = write
  get_issue = get_issue
  add_comment = add_comment
  Scopes <- MCScopes
  Implied <- MCImplied
  Tools <- MCTools
  ScopeOf <- MCScopeOf
  Writers <- MCWriters
  Callers = {m1}
  TokenLife = 2
  member = member
  stranger = stranger
  home = home
  board = board
  Tabs = {t1, t2}
  Pages <- MCPages
  Root = home
  Accounts <- MCAccounts
  Entitled <- MCEntitled
  StateLife = 0
  CodeLife = 0
  SessionLife = 0
  MaxLogins = 2
  MaxReloads = 1
  MaxLoginTime = 1
  None = None
SPECIFICATION AuthorizationSpec
INVARIANTS
  SingleUse
  IssuedTokensVerify
  WritesWereAuthorized
  LandsWhereItStarted
  LoginsAreSpent
PROPERTY Implements
CHECK_DEADLOCK FALSE
