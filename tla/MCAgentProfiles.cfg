CONSTANTS
  Profile = {p1, p2}
  NoProfile = NoProfile
  Replies = {"answered"}
  MaxFunctions = 1
  MaxKills = 1
SYMMETRY symmetry
SPECIFICATION Spec
INVARIANTS
  AnswersAreDurable
  SetUpIsCoherent
PROPERTY KeyGoesFirst
