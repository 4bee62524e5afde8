\* two slots, three destinations; the clock turns after 2 ticks
CONSTANTS
  NoKey = NoKey
  NoLink = NoLink
  NoDest = NoDest
  Dest = {d1, d2, d3}
  PeerKey = {x1, x2}
  SignKey = {e1}
  Capacity = 2
  ClockModulus = 2
  MaxKeyPairs = 4
  MaxUptime = 2
  MaxRestarts = 1
  LINK_REQUEST_RETICULUM_MDU = 484
  Widths <- FieldWidths
  Fold = 3
  a24 = 7
  Base = 9
SYMMETRY Symmetry
SPECIFICATION Spec
INVARIANT OneWholeLinkPerDestination
INVARIANT EveryLinkHears
PROPERTY EvictsTheOldestHandshake
PROPERTY IsLinkSessions
PROPERTY LinksFollowContract
