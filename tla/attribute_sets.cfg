SPECIFICATION AllSpec
CONSTANTS
  a = 2  b = 1  v = v  s = s  t1 = t1  t2 = t2  brand = brand
  Attribute = {1, 2}
  Slots = 2
  Brand = {brand}
  Value = {v}
  System = {s}
  SystemOwn <- SystemAttributes
  Temp = {t1, t2}
  GroupId = {1, 2, 3, 4}
  ConfigId = {1, 2}
  None = None
  Drawings <- DrawingsOfTwo
  Options <- OptionsOfTwo
  MaxRequests = 4
  GroupNumber = {1, 2, 3}
  ContentAttribute = {size, pack}
  ValueOption <- ContentOptions  NotDisplayed = kht  Pack <- Packs  MaxPlaced = 2
  kht = kht  opt = opt  size = size  pack = pack
  Variant = {1, 2, 3}
  Color = {red}  red = red
  Batches <- BatchesOfTwo  MaxEdits = 1
  piece = piece  box = box
  Unit = {piece, box}
  Ratio = {1, 12}
  Worker = {w1, w2}
INVARIANTS
  GroupsWellDrawn ConfigsSound SeoMadeForProduct
  DetailShowsValues VariantsKnowEachOther
PROPERTIES VariationSurvives
CHECK_DEADLOCK FALSE
