CONSTANTS
  MaxComments = 4
  HubFaults = {"crash", "lost", "label", "limit", "person"}
  MaxHubFaults = 2
SPECIFICATION HubSpec
PROPERTIES
  RebuiltAsItRested
  AnswerHeard
  QuestionSurfaces
CHECK_DEADLOCK FALSE
