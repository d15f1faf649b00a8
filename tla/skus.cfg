SPECIFICATION AllSpec
CONSTANTS
  b1 = b1  b2 = b2  t1 = t1  t2 = t2  c1 = c1  c2 = c2  p1 = p1
  own = own  platform = platform  shop = shop
  Sku = {k1, k2}
  Barcode = {b1, b2}
  ShippingType = {t1, t2}
  Category = {c1, c2, p1}
  None = None
  DefaultType = t1
  Above <- AboveThem
  OwnerOf <- OwnersOfAll
  WithSet = {c1, p1}
  TypesOf <- Types
  FieldOrders <- RequestOrders
  BarcodeLists <- Lists
  TypeLists <- Sets
  MaxRequests = 4
  MaxHandled = 4
  Session = {s1, s2}
  Group = {g1, g2}
  Terminal = {1, 2}
  Code = {x, y}
  Type = {shop}
  Seller = {own, platform}
  Mapping = {1}
  All = All
  OrdersAsked <- Orderings
  Bundle = k5
  ItemLists <- Items
  MaxSubs = 3
  Tag = {1, 2, 3, 4}
  TooLong = {4}
  MaxTags = 2
  TagSets <- TagChoices
  Text = {x, y}
  Worker = {s1, s2}
  MaxChanges = 3
  KnownVariant = {1, 3}
  ImageData <- ImageLists
  Updater = {s1, s2}
  MaxUpdates = 3
  k3 = k3  k4 = k4  k5 = k5  other = other
  Listable = {k3, k4, k5}
  ProductNumber = {1, 2}
  ProductOf <- SearchProducts
  SellerOf <- SearchSellers
  CategoryId = {c1, c2, p1}
  PathOf <- AboveThem
  HolderOf <- OwnersOfAll
  User = own
  PlatformOwner <- SearchOwners
  TerminalRows <- SearchRows
  Requests <- Searches
  PageSize = 2
  NotGiven = NotGiven
  Every = Every
SYMMETRY Symmetry
INVARIANTS
  SatellitesWhole TerminalsAsAsked SearchFinds AttachmentsAsAsked
PROPERTIES RefusalFilesNothing
CHECK_DEADLOCK FALSE
