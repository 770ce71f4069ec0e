\* One request at a time imports attendees of a participating company, some paid.
SPECIFICATION MCSpec
CONSTANTS
  h1 = h1
  h2 = h2
  x = x
  y = y
  None = none
  Handlers = {h1, h2}
  Companies = {x, y}
  Ops = {"confirm", "create", "pay", "import", "count", "slot", "remove", "merge", "cleanup", "register", "unregister", "payReg",
         "desk", "checkin", "status", "seat", "quick", "fill", "edit", "preview", "rollback", "sponsor", "save", "archive",
         "throw", "stop", "ticket"}
  Regs = {1, 2}
  Counts <- AllCounts
  Bodies = {"all", "part", "forced"}
  Options = {0, 1}
  PartIds = {1, 2}
  SlotIds = {1, 2}
  PayIds = {1, 2}
  People <- Everybody
  Seats = {1, 2}
  MaxAttendees = 2
  Names = {x, y}
  Kinds = {"vip", "walk_in"}
  ListFiles <- AttendeeFiles
  ListDecisions <- AllDecisions
  PayFiles <- PaymentFiles
  Choices <- PaymentChoices
  Close <- Pairs
  Similar <- BareNames
  SponsorFiles <- ListOfSponsors
  SponsorDecisions = {"default", "edit", "create_new", "approve"}
  SponsorEdits <- Instead
  Contacts = {x, y}
  MaxContacts = 2
  MaxOrgs = 2
  MaxBatches = 2
  Scenarios = {"attendee imports, alone"}
INVARIANT PaidAttendeesSeated
CHECK_DEADLOCK FALSE
