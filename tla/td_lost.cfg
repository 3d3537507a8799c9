SPECIFICATION TodoSpec
CONSTANTS
  Clients = {c1, c2}
  Ids = {i1, i2}
  Names = {g, h}
  Written = {}
  MaxLines = 4
  NoName = NoName
  Placeholder = Placeholder
  Nobody = Nobody
  Gone = Gone
PROPERTY NoItemIsLost
