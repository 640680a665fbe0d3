\* Every shape of configuration; lookups answer as they like, or fail.
SPECIFICATION LoaderSpec
CONSTANTS
  Konfs <- MCKonfs
  Answers <- MCAnswers
  Nil = Nil
INVARIANTS
  LoaderTypeOK
  OnlyFailedLookupsMissing
  FindsWhatIsThere
  LinksStayValid
  LoaderInv
  PlacesInv
PROPERTIES
  VendorsGetLoaded
  CacheSpec
