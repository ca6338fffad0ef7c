SPECIFICATION Spec
CONSTANTS
  Names = {ann, bob}
  none = none
  MaxIds = 2
  MaxChecks = 1
PROPERTIES
  CodeHasId
