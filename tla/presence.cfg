SPECIFICATION PresenceSpec
CONSTANTS
  eve = eve
  Contacts = {eve}
  Resources = {1, 2}
  Prios = {5, 15}
  Present = {"avail", "away"}
  Away = {"na"}
  MaxStream = 3
  MaxOut = 2
INVARIANTS ShowsOnline ShowsHighest
