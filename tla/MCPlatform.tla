------------------------------- MODULE MCPlatform -------------------------------
(***************************************************************************)
(* A small instance of Platform.  The components share no row, so a         *)
(* behaviour moves one of them, the one its scenario names, within the      *)
(* bounds of that scenario.  "Alone" scenarios have one handler.            *)
(***************************************************************************)
EXTENDS Platform, FiniteSets, TLC

CONSTANTS h1, h2, ann, bob, a, b, Scenarios

VARIABLE scenario

\* "organization" has no admins, and tax ids that are saved alone no faults.
OrgUntouched == INSTANCE OrgProvisioning WITH Users <- Contacts, Admins <- {}, req <- orgReq
TaxAlone == INSTANCE TaxIdentities WITH Faults <- {}, req <- taxReq

\* Two requests overlap: of one account, of one program, of two documents, of
\* one payee with a short log.
OneUser ==
  /\ user'[bob] = Accounts!NoUser
  /\ \A h \in Handlers : userReq'[h].pc # "idle" => userReq'[h].user = ann
ProgramsOnly == settings' = settings /\ \A h \in Handlers : ~Catalog!At(h, "settings")'
DocumentsOnly ==
  /\ admins' = admins /\ intake' = intake /\ state' = state
  /\ \A h \in Handlers : ~Finance!At(h, "setup")'
OnePayee ==
  /\ Len(log') =< 2 /\ identity'[bob] = Tax!NoIdentity
  /\ \A h \in Handlers : taxReq'[h].pc # "idle" => taxReq'[h].payee = ann

\* Setup and intake move with one document.
OneDocument == \A h \in Handlers : financeReq'[h].pc # "idle" => financeReq'[h].what # b

MCInit == Init /\ scenario \in Scenarios

MCNext ==
  /\ UNCHANGED scenario
  /\ \/ scenario = "organization" /\ OrgUntouched!Next /\ ButOrg
     \/ scenario = "organization, admin" /\ Org!Next /\ orgReq'[h2] = Org!Idle /\ ButOrg
     \/ scenario = "accounts" /\ Accounts!Next /\ OneUser /\ ButAccounts
     \/ scenario = "accounts, alone" /\ Accounts!Next /\ userReq'[h2] = Accounts!Idle /\ ButAccounts
     \/ scenario = "programs" /\ Catalog!Next /\ ProgramsOnly /\ ButCatalog
     \/ scenario = "programs, alone" /\ Catalog!Next /\ programReq'[h2] = Catalog!Idle /\ ButCatalog
     \/ scenario = "finance" /\ Finance!Next /\ DocumentsOnly /\ ButFinance
     \/ scenario = "finance, alone" /\ Finance!Next /\ financeReq'[h2] = Finance!Idle /\ OneDocument /\ ButFinance
     \/ scenario = "tax ids" /\ Tax!Next /\ OnePayee /\ ButTax
     \/ scenario = "tax ids, alone" /\ TaxAlone!Next /\ taxReq'[h2] = Tax!Idle /\ ButTax

MCSpec == MCInit /\ [][MCNext]_<<vars, scenario>>

-----------------------------------------------------------------------------
\* One request at a time: the owner given an initial password owns the
\* organization, one account at most is made for being the first, the setup
\* makes one initial admin, and tax ids are unique, flagged and revealed within
\* the limit.
CarefulHandlersAgree ==
  /\ scenario = "accounts, alone" => Accounts!InitializedOwns /\ Accounts!OneFirstUser
  /\ scenario = "finance, alone" => Finance!OneInitialAdmin
  /\ scenario = "tax ids, alone" => TaxAlone!IdentitiesConsistent

\* One request at a time: the routes for a first password replace none, and
\* saving one section of the app settings keeps the others.
FirstPasswordsAndSettingsKept ==
  [][/\ scenario = "accounts, alone" => Accounts!InitialOnce
     /\ scenario = "programs, alone" => Catalog!SettingsKept]_<<userVars, programVars>>
=============================================================================
