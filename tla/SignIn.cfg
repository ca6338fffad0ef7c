SPECIFICATION FairSpec
CONSTANTS
  Names = {ann}
  none = none
  MaxIds = 3
  MaxChecks = 1
INVARIANTS
  TypeOK
  OneTryPerId
  HomeOncePerSignIn
  ListenerComesBack
  ListedHasName
PROPERTIES
  SignedInReachesHome
