\* A request for the exits of a vendor, before and after the vendors are loaded.
SPECIFICATION ExitMapSpec
CONSTANTS
  Konfs <- MCKonfs
  Answers <- MCAnswers
  Nil = Nil
INVARIANT
  MapOfAllExits
