SPECIFICATION MapSpec
CONSTANTS
  Runs = {r1, r2, r3}
  Subjects = {alice, bob}
  gcal = gcal
  m365 = m365
  google_token = google_token
  ms_token = ms_token
  Surfaces = {gcal, m365}
  RefreshName <- MCRefreshName
  ClientName = client_id
  ClientId = client
  CanRevoke = {gcal}
  OldToken = old
  NoValue = NoValue
  Nobody = Nobody
  MaxClock = 1
INVARIANTS
  NoStrayGrants
  ServedIsFresh
SYMMETRY Symmetry
CHECK_DEADLOCK FALSE
