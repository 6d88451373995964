CONSTANTS
  gol = gol
  uno = uno
  tank = tank
  price = price
  v1 = v1
  v2 = v2
  Oversized = Oversized
  Worker = Worker
  Admins = {a1}
  Nobody = Nobody
  Ids = {gol, uno}
  Columns = {tank, price}
  Values = {v1, v2, Oversized}
  Sheets <- SixSheets
  FirstSheet <- OneModel
  MaxEdits = 2
  MaxFailures = 1
SPECIFICATION FairSpec
INVARIANT MirrorHasASource
PROPERTY MirrorCatchesUp
