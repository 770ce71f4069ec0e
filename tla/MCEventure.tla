----------------------------- MODULE MCEventure -----------------------------
(***************************************************************************)
(* A small instance of Eventure.  The components share no row, so a        *)
(* behaviour moves one of them, the one its scenario names: two handlers    *)
(* that overlap, or one, "alone".  A scenario's steps are those of an       *)
(* instance with fewer inputs.                                             *)
(***************************************************************************)
EXTENDS Eventure, TLC

CONSTANTS h1, h2, x, y, Scenarios

VARIABLE scenario

Overlapping == INSTANCE EventureWorkspace WITH
  Companies <- {x}, Counts <- {1}, Bodies <- {"all", "part"}, Options <- {0},
  Ops <- {"confirm", "create", "pay", "import", "remove"}
WorkspaceAlone == INSTANCE EventureWorkspace WITH
  Companies <- {x}, Handlers <- {h1}, Counts <- {-1, 1},
  Ops <- {"confirm", "create", "import", "count", "slot", "remove", "cleanup", "register", "unregister", "payReg"}
WorkspaceMerge == INSTANCE EventureWorkspace WITH
  Handlers <- {h1}, Counts <- {1}, Bodies <- {"all"}, Options <- {0},
  Ops <- {"confirm", "merge", "remove", "register", "payReg"}
WorkspaceSync == INSTANCE EventureWorkspace WITH
  Companies <- {x}, Handlers <- {h1}, Counts <- {0, 1, 2}, Bodies <- {"all"}, Options <- {0},
  Ops <- {"confirm", "register", "unregister", "payReg"}
AllCounts == {-1, 0, 1, 2}
OneRegistration == regs'[2] = regs[2]

Person(e, p, n) == [email |-> e, phone |-> p, name |-> n]
Anna == Person(x, None, y)
AnnaByPhone == Person(x, y, None)
Bert == Person(y, y, None)
Carl == Person(None, y, y)
Everybody == {Anna, AnnaByPhone, Bert, Carl}
DirectoryOverlapping == INSTANCE AttendeeDirectory WITH
  People <- {Anna, AnnaByPhone, Bert}, Slots <- {}, Ops <- {"quick", "edit", "import"}, MaxAttendees <- 1
DirectoryAlone == INSTANCE AttendeeDirectory WITH
  People <- {Anna, AnnaByPhone}, Slots <- {}, Handlers <- {h1}, Ops <- {"desk", "quick", "edit", "import"}
DirectorySeats == INSTANCE AttendeeDirectory WITH
  People <- {Anna, Carl}, Slots <- Seats, Handlers <- {h1},
  Ops <- {"desk", "checkin", "status", "seat", "fill"}

Entry(w, m, p) == [who |-> w, kind |-> "vip", match |-> m, paid |-> p]
SingleEntries == {<<Entry(x, "matched", TRUE)>>, <<Entry(None, "new", TRUE)>>}
DoubleEntries == {<<Entry(x, "matched", TRUE), Entry(y, "possible", FALSE)>>,
                  <<Entry(x, "matched", TRUE), Entry(None, "matched", FALSE)>>}
AttendeeFiles == SingleEntries \cup DoubleEntries
Does(d) == [does |-> d, who |-> None, kind |-> None]
Renames(w) == [does |-> "assign", who |-> w, kind |-> None]
AllDecisions == {Does(d) : d \in {"assign", "approve", "ignore", "skip"}} \cup {Renames(y)}
ListsOverlapping == INSTANCE AttendeeImports WITH
  Kinds <- {"vip"}, Files <- SingleEntries, Decisions <- {Does("assign"), Does("approve")},
  ImOps <- {"desk", "preview", "confirm", "rollback"}, MaxBatches <- 1
ListsAlone == INSTANCE AttendeeImports WITH
  Handlers <- {h1}, Files <- DoubleEntries, Decisions <- {Does("assign")}, Kinds <- {"vip"},
  ImOps <- {"desk", "preview", "confirm", "rollback", "throw"}
ListsStop == INSTANCE AttendeeImports WITH
  Handlers <- {h1}, Files <- DoubleEntries, Decisions <- {Does("assign"), Does("skip")}, Kinds <- {"vip"},
  ImOps <- {"preview", "confirm", "rollback", "ticket", "stop"}, MaxBatches <- 1
ListsClients == INSTANCE AttendeeImports WITH
  Handlers <- {h1}, Files <- SingleEntries, Decisions <- AllDecisions,
  ImOps <- {"desk", "preview", "confirm", "rollback", "ticket"}, MaxBatches <- 1
NothingGiven == past'.given = {}

PayRow(c, d) == [company |-> c, data |-> d]
PayFirst == {<<PayRow(x, TRUE), PayRow(None, TRUE)>>, <<PayRow(x, FALSE)>>}
PaySecond == {<<PayRow(x, TRUE), PayRow(y, TRUE)>>, <<PayRow(x, TRUE), PayRow(x, FALSE)>>}
PaymentFiles == PayFirst \cup PaySecond
Chooses(d) == [does |-> d, company |-> None, data |-> FALSE]
Corrects(c) == [does |-> "approve", company |-> c, data |-> TRUE]
PaymentChoices == {Chooses(d) : d \in {"approve", "skip", "none"}} \cup {Corrects(y)}
PaymentsOverlapping == INSTANCE PaymentImports WITH
  Sponsors <- {x}, Files <- PayFirst, Choices <- {Chooses("approve"), Chooses("none")},
  PayOps <- {"sponsor", "preview", "confirm"}, MaxBatches <- 1
PaymentsAlone == INSTANCE PaymentImports WITH
  Sponsors <- Companies, Handlers <- {h1}, Files <- PaySecond, Choices <- {Chooses("approve"), Chooses("skip")},
  PayOps <- {"sponsor", "preview", "confirm"}
PaymentsStop == INSTANCE PaymentImports WITH
  Sponsors <- Companies, Handlers <- {h1}, Files <- {<<PayRow(x, TRUE), PayRow(x, FALSE)>>}, Choices <- {Chooses("none"), Corrects(y)},
  PayOps <- {"sponsor", "preview", "confirm", "throw", "stop"}, MaxBatches <- 1
PaidTwice == Len(ledger') <= 3

Line(c, p, v) == [company |-> c, person |-> p, via |-> v]
OneLine == <<Line(x, y, FALSE)>>
TwoLines == <<Line(x, x, FALSE), Line(None, x, FALSE)>>
CloseLine == <<Line(y, x, TRUE)>>
ListOfSponsors == {OneLine, TwoLines, CloseLine}
Pairs == {{x, y}}
BareNames == {<<x, x>>, <<x, y>>}
Instead == {[row |-> Line(y, y, FALSE), class |-> "valid"], [row |-> Line(None, y, FALSE), class |-> "error"]}
SponsoringOverlapping == INSTANCE SponsorImports WITH
  Edits <- {}, Similar <- {}, People <- {y}, Decisions <- {"default"}, Files <- {OneLine},
  SpOps <- {"preview", "confirm", "save"}, MaxBatches <- 1, MaxOrgs <- 1
SponsoringAlone == INSTANCE SponsorImports WITH
  Edits <- {}, Similar <- {}, People <- {y}, Handlers <- {h1}, Decisions <- {"default"}, Files <- {OneLine},
  SpOps <- {"preview", "confirm", "save", "archive", "rollback"}, MaxOrgs <- 1
SponsoringClose == INSTANCE SponsorImports WITH
  Edits <- {}, Similar <- {}, People <- {x}, Handlers <- {h1}, Decisions <- {"default", "edit"}, Files <- {TwoLines, CloseLine},
  SpOps <- {"preview", "confirm", "rollback", "throw"}
SponsoringStops == INSTANCE SponsorImports WITH
  Edits <- {}, Similar <- {}, People <- {x}, Handlers <- {h1}, Decisions <- {"default"}, Files <- {TwoLines},
  SpOps <- {"preview", "confirm", "rollback", "stop", "save"}, MaxBatches <- 1, MaxOrgs <- 1
SponsoringNames == INSTANCE SponsorImports WITH
  Edits <- Instead, People <- Contacts, Handlers <- {h1}, Decisions <- {"default", "approve", "create_new"}, Files <- {<<Line(x, x, FALSE)>>},
  SpOps <- {"preview", "confirm", "save"}, MaxBatches <- 1, MaxOrgs <- 1
SponsoringDesk == INSTANCE SponsorImports WITH
  Edits <- {}, Similar <- {}, People <- Contacts, Handlers <- {h1}, Decisions <- {"default"}, Files <- {OneLine},
  SpOps <- {"preview", "confirm", "save", "rollback"}, MaxBatches <- 1, MaxOrgs <- 1, MaxContacts <- 1
OneName == \A h \in Handlers : spReqs'[h].pc = "deskOrg" => spReqs'[h].company = x
ForTheEvent == \A b \in DOMAIN spBatches' : spBatches'[b].event
OneCompany == \A h \in Handlers : LET r == spReqs'[h] IN
  r.pc \in {"deskOrg", "deskFind"} => r.company = x /\ r.by = "name" /\ r.stamp = 0 /\ r.person # None

MCInit == Init /\ scenario \in Scenarios

MCNext ==
  /\ UNCHANGED scenario
  /\ \/ /\ \/ scenario = "workspace" /\ Overlapping!WsNext
           \/ scenario = "workspace, alone" /\ WorkspaceAlone!WsNext /\ OneRegistration
           \/ scenario = "workspace, merge" /\ WorkspaceMerge!WsNext /\ OneRegistration
           \/ scenario = "workspace, sync" /\ WorkspaceSync!WsNext
        /\ UNCHANGED <<adVars, imVars, pimVars, spVars>>
     \/ /\ \/ scenario = "directory" /\ DirectoryOverlapping!AdNext
           \/ scenario = "directory, alone" /\ DirectoryAlone!AdNext
           \/ scenario = "directory, seats" /\ DirectorySeats!AdNext
        /\ UNCHANGED <<wsVars, imVars, pimVars, spVars>>
     \/ /\ \/ scenario = "attendee imports" /\ ListsOverlapping!ImNext /\ NothingGiven
           \/ scenario = "attendee imports, alone" /\ ListsAlone!ImNext /\ NothingGiven
           \/ scenario = "attendee imports, stops" /\ ListsStop!ImNext
           \/ scenario = "attendee imports, clients" /\ ListsClients!ImNext
        /\ UNCHANGED <<wsVars, adVars, pimVars, spVars>>
     \/ /\ \/ scenario = "payment imports" /\ PaymentsOverlapping!PimNext
           \/ scenario = "payment imports, alone" /\ PaymentsAlone!PimNext
           \/ scenario = "payment imports, stops" /\ PaymentsStop!PimNext /\ PaidTwice
        /\ UNCHANGED <<wsVars, adVars, imVars, spVars>>
     \/ /\ \/ scenario = "sponsors" /\ SponsoringOverlapping!SpNext /\ OneCompany /\ ForTheEvent
           \/ scenario = "sponsors, alone" /\ SponsoringAlone!SpNext /\ OneCompany /\ ForTheEvent
           \/ scenario = "sponsors, close" /\ SponsoringClose!SpNext /\ ForTheEvent
           \/ scenario = "sponsors, stops" /\ SponsoringStops!SpNext /\ OneCompany /\ ForTheEvent
           \/ scenario = "sponsors, names" /\ SponsoringNames!SpNext /\ OneCompany
           \/ scenario = "sponsors, desk" /\ SponsoringDesk!SpNext /\ OneName /\ ForTheEvent
        /\ UNCHANGED <<wsVars, adVars, imVars, pimVars>>

MCSpec == MCInit /\ [][MCNext]_<<vars, scenario>>
=============================================================================
