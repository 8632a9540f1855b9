SPECIFICATION FairSpec
CONSTANTS
  Explored = {"pam", "greetd", "polkit", "notes"}
  MaxConvs = 2
  MaxMessages = 2
  MaxPamDepth = 2
  PamReenter = {"completed", "error", "pamMessage", "aborting"}
  PamAnswer = {"pamMessage"}
  AnswerTwice = FALSE
  PamFaults = TRUE
  Leftover = TRUE
  MaxRequests = 3
  AuthRequests = {r1, r2, r3}
  Nobody = {r3}
  NoFlow = NoFlow
  MaxNotifications = 2
  MaxNoteDepth = 2
INVARIANTS ServicesHold PatientShellIsRight EveryRequestIsAnswered ListIsWhatIsOpen
PROPERTIES AnswersMatch LockedIsKept EndIsNoticed
CHECK_DEADLOCK FALSE
