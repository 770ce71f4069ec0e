-------------------------------- MODULE Platform --------------------------------
(***************************************************************************)
(* The core API (src/authRoutes.ts, src/core) and the financial hub         *)
(* (src/programs/financial-hub) as a whole: the components below serve      *)
(* requests side by side.  They share no row, so a step of the whole is a   *)
(* step of one of them.                                                     *)
(***************************************************************************)
EXTENDS Naturals, Sequences

CONSTANTS
  Handlers, Faults,
  Programs, Chronicle, Contacts, Admins, AdminStatuses,       \* OrgProvisioning
  Users,                                                      \* OrgAccounts
  Ids, Sections, Versions,                                    \* ProgramCatalog
  Emails, Docs, Records, Reviewers, Environment,              \* FinanceHub
  Payees, TaxIds, MaxReveals, MaxLog                          \* TaxIdentities

VARIABLES
  org, sub, partition, account, role, grant, served, touched, orgReq,
  user, member, first, initialized, regraded, userReq,
  program, settings, programReq,
  admins, subscribed, doc, files, storage, intake, state, changed, deleting, unsubscribed, financeReq,
  identity, flag, log, reveals, taxReq

orgVars == <<org, sub, partition, account, role, grant, served, touched, orgReq>>
userVars == <<user, member, first, initialized, regraded, userReq>>
programVars == <<program, settings, programReq>>
financeVars == <<admins, subscribed, doc, files, storage, intake, state, changed, deleting, unsubscribed, financeReq>>
taxVars == <<identity, flag, log, reveals, taxReq>>
vars == <<orgVars, userVars, programVars, financeVars, taxVars>>

Org == INSTANCE OrgProvisioning WITH Users <- Contacts, req <- orgReq
Accounts == INSTANCE OrgAccounts WITH req <- userReq
Catalog == INSTANCE ProgramCatalog WITH req <- programReq
Finance == INSTANCE FinanceHub WITH Users <- Reviewers, req <- financeReq
Tax == INSTANCE TaxIdentities WITH req <- taxReq

\* Admins give subscriptions the statuses there are.
ASSUME PlatformAssumption ==
  /\ Org!ChronicleAssumption /\ AdminStatuses \subseteq Org!Statuses /\ Org!Nobody \notin Contacts
  /\ Finance!EnvironmentAssumption
  /\ MaxReveals \in Nat /\ MaxLog \in Nat

Init == Org!Init /\ Accounts!Init /\ Catalog!Init /\ Finance!Init /\ Tax!Init

\* A component moves, the others do not.
ButOrg == UNCHANGED <<userVars, programVars, financeVars, taxVars>>
ButAccounts == UNCHANGED <<orgVars, programVars, financeVars, taxVars>>
ButCatalog == UNCHANGED <<orgVars, userVars, financeVars, taxVars>>
ButFinance == UNCHANGED <<orgVars, userVars, programVars, taxVars>>
ButTax == UNCHANGED <<orgVars, userVars, programVars, financeVars>>

Next ==
  \/ Org!Next /\ ButOrg
  \/ Accounts!Next /\ ButAccounts
  \/ Catalog!Next /\ ButCatalog
  \/ Finance!Next /\ ButFinance
  \/ Tax!Next /\ ButTax

Spec == Init /\ [][Next]_vars

-----------------------------------------------------------------------------
\* The tables and requests of every component keep their shape.
Types == Org!TypeOK /\ Accounts!TypeOK /\ Catalog!TypeOK /\ Finance!TypeOK /\ Tax!TypeOK

\* The contact user of an organization answered as created gets into its
\* programs, whatever provisioning ran at the same time, and a program keeps the
\* route or address its type needs, whatever two PUTs of it write.
ProgramsReachable == Org!ContactGetsIn /\ Catalog!ProgramsReachable

\* An account must change its password exactly while somebody else chose it.
\* The financial hub's documents and their files go together, and a record that
\* is back before its review names no reviewer.
AccountsAndFiles ==
  /\ Accounts!TemporaryMustChange
  /\ Finance!FilesFollowRows /\ Finance!ReviewerMeansReviewed
=============================================================================
