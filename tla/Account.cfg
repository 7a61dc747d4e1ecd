\* Three addresses, or three files, and three handlers: one may act twice while
\* another is slow, and an avatar is replaced by two while a third call deletes.
CONSTANTS
  Addresses = {x1, x2, x3}
  NoAddress = NoAddress
  MaxTries = 3
  Calls = {c1, c2, c3}
  Files = {x1, x2, x3}
  NoFile = NoFile
  FileCalls = {c1, c2, c3}
SYMMETRY Symmetry
SPECIFICATION AccountSpec
INVARIANTS FilesMatchRows ImageHasAvatar
PROPERTIES UndisturbedChangesKeepOneDefault DefaultsAreRepaired RequestsAtLiveAddress
