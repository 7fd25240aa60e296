SPECIFICATION Spec
CONSTANTS
  NumObjects = 2
  Kinds = {"regular", "emitter"}
  Commands = {"delete", "clear", "collide", "pick", "life", "list", "order", "show"}
  MaxChecks = 1
  LifeMod = 1
  ParticleTicks = 1
INVARIANTS
  RegistriesExact
  EnumeratesInOrder
PROPERTY
  ContactsFresh
