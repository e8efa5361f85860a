------------------------------ MODULE Connections ------------------------------
(***************************************************************************)
(* How an organisation connects its GitHub App installation and its Slack  *)
(* workspace, and loses them again: the authorisation states               *)
(* (app/api/integration_oauth.py), the GitHub and Slack callbacks, the     *)
(* installation webhook, and the health and disconnect requests            *)
(* (app/api/routes/github.py, slack.py, integrations.py), over             *)
(* organizations.github_org and the tables github_installations,           *)
(* slack_installations and integration_health.                             *)
(*                                                                         *)
(* github_installations.installation_id and slack_installations.team_id    *)
(* are unique; organizations.github_org is not.  Every await is a point    *)
(* where another request runs.                                             *)
(***************************************************************************)
EXTENDS Naturals, FiniteSets

CONSTANTS
  ConnOrgs,      \* the organisations
  Installations, \* GitHub App installations
  AccountOf,     \* the GitHub account an installation belongs to
  Workspace,     \* the one Slack workspace
  Nonces,        \* authorisation states (bounds how often a flow is started)
  Callbacks,     \* concurrent callback requests (a bound)
  NoOrg          \* SQL NULL

ASSUME ConnectionsAssumption ==
  /\ NoOrg \notin ConnOrgs
  /\ Installations \subseteq DOMAIN AccountOf

VARIABLES
  oauth,      \* integration_oauth_states: what a nonce was issued for
  githubOrg,  \* organizations.github_org
  installs,   \* github_installations: installation -> owning organisation
  teamOwner,  \* slack_installations: the owner of Workspace
  healthRows, \* integration_health: <<org, connection>>
  callback    \* the requests in progress

connVars == <<oauth, githubOrg, installs, teamOwner, healthRows, callback>>
NoAccount == "null"
Unused == [st |-> "unused", provider |-> "none", org |-> NoOrg, inst |-> NoOrg]
IdleCallback == [pc |-> "idle", nonce |-> NoOrg, org |-> NoOrg, inst |-> NoOrg]

ConnInit ==
  /\ oauth = [n \in Nonces |-> Unused]
  /\ githubOrg = [o \in ConnOrgs |-> NoAccount]
  /\ installs = [i \in Installations |-> NoOrg]
  /\ teamOwner = NoOrg
  /\ healthRows = {}
  /\ callback = [c \in Callbacks |-> IdleCallback]

GoTo(c, pc) == callback' = [callback EXCEPT ![c].pc = pc]
Raise(c) == callback' = [callback EXCEPT ![c] = IdleCallback]

-----------------------------------------------------------------------------
(* Authorisation states: inserted for ten minutes, deleted when consumed.  *)

create_state(n, provider, o) ==
  /\ oauth[n].st = "unused"
  /\ oauth' = [oauth EXCEPT ![n] =
                 [st |-> "open", provider |-> provider, org |-> o, inst |-> NoOrg]]

github_install_url(n, o) ==
  create_state(n, "github", o) /\ UNCHANGED <<githubOrg, installs, teamOwner, healthRows, callback>>

slack_install_url(n, o) ==
  create_state(n, "slack", o) /\ UNCHANGED <<githubOrg, installs, teamOwner, healthRows, callback>>

StateExpires(n) ==
  /\ oauth[n].st = "open"
  /\ oauth' = [oauth EXCEPT ![n].st = "gone"]
  /\ UNCHANGED <<githubOrg, installs, teamOwner, healthRows, callback>>

\* The browser comes back from GitHub with the installation it made or changed.
github_setup_callback(n, i) ==
  /\ oauth[n].st = "open" /\ oauth[n].provider = "github"
  /\ oauth' = [oauth EXCEPT ![n].inst = i]
  /\ UNCHANGED <<githubOrg, installs, teamOwner, healthRows, callback>>

\* DELETE ... RETURNING: one of two callbacks with the same nonce gets the row.
consume_state(c, provider, next) ==
  LET n == callback[c].nonce IN
  IF oauth[n].st = "open" /\ oauth[n].provider = provider
    THEN /\ oauth' = [oauth EXCEPT ![n].st = "gone"]
         /\ callback' = [callback EXCEPT ![c].pc = next, ![c].org = oauth[n].org]
    ELSE Raise(c) /\ UNCHANGED oauth

-----------------------------------------------------------------------------
(* The GitHub callback and the link it makes.                              *)

\* Reads the pending state, then asks GitHub which installations the user may
\* see; one the user cannot see, or a refused code, ends the request.
github_authorize_callback(c, n) ==
  /\ callback[c].pc = "idle"
  /\ oauth[n].st = "open" /\ oauth[n].provider = "github" /\ oauth[n].inst # NoOrg
  /\ callback' = [callback EXCEPT ![c] =
                    [pc |-> "consume", nonce |-> n, org |-> NoOrg, inst |-> oauth[n].inst]]
  /\ UNCHANGED <<oauth, githubOrg, installs, teamOwner, healthRows>>

Consume(c) ==
  /\ callback[c].pc = "consume"
  /\ consume_state(c, "github", "account")
  /\ UNCHANGED <<githubOrg, installs, teamOwner, healthRows>>

\* POST /github/link repeats the link of an installation the caller owns.
link_github(c, o, i) ==
  /\ callback[c].pc = "idle"
  /\ installs[i] = o
  /\ callback' = [callback EXCEPT ![c] =
                    [pc |-> "account", nonce |-> NoOrg, org |-> o, inst |-> i]]
  /\ UNCHANGED <<oauth, githubOrg, installs, teamOwner, healthRows>>

get_org_by_github_org(account) == {o \in ConnOrgs : githubOrg[o] = account}

\* The lookup of the installation fails, or its account is another
\* organisation's: 500 and 409.  With several rows fetch_one returns any.
CheckAccount(c) ==
  /\ callback[c].pc = "account"
  /\ LET owners == get_org_by_github_org(AccountOf[callback[c].inst]) IN
     \/ Raise(c)
     \/ owners = {} /\ GoTo(c, "owner")
     \/ \E o \in owners : IF o = callback[c].org THEN GoTo(c, "owner") ELSE Raise(c)
  /\ UNCHANGED <<oauth, githubOrg, installs, teamOwner, healthRows>>

CheckOwner(c) ==
  /\ callback[c].pc = "owner"
  /\ IF installs[callback[c].inst] \in {NoOrg, callback[c].org} THEN GoTo(c, "org") ELSE Raise(c)
  /\ UNCHANGED <<oauth, githubOrg, installs, teamOwner, healthRows>>

update_org_github(c) ==
  /\ callback[c].pc = "org"
  /\ githubOrg' = [githubOrg EXCEPT ![callback[c].org] = AccountOf[callback[c].inst]]
  /\ GoTo(c, "select")
  /\ UNCHANGED <<oauth, installs, teamOwner, healthRows>>

\* store_github_installation's SELECT.  The repository list it stores (empty when
\* the token or the listing fails) is abstracted.
SelectInstallation(c) ==
  /\ callback[c].pc = "select"
  /\ GoTo(c, IF installs[callback[c].inst] = NoOrg THEN "insert" ELSE "update")
  /\ UNCHANGED <<oauth, githubOrg, installs, teamOwner, healthRows>>

\* Mutant of KeepsOwner: the UPDATE writes org_id, as the Slack store's does.
TakesOver(i, o) == o

\* The UPDATE writes the repositories alone.
KeepsOwner(i, o) == installs[i]

\* The UPDATE matches no row once the row is deleted; the INSERT of a row that
\* appeared since the SELECT breaks the unique key and the request ends in a 500.
store_github_installation(c) ==
  LET i == callback[c].inst
      o == callback[c].org
  IN /\ \/ /\ callback[c].pc = "update"
           /\ installs' = [installs EXCEPT ![i] = IF @ = NoOrg THEN @ ELSE KeepsOwner(i, o)]
        \/ /\ callback[c].pc = "insert"
           /\ installs' = [installs EXCEPT ![i] = IF @ = NoOrg THEN o ELSE @]
     /\ Raise(c)
     /\ UNCHANGED <<oauth, githubOrg, teamOwner, healthRows>>

\* The installation webhook.  "created" stores the installation for the
\* organisation its account is linked to; "deleted" drops the row and its
\* handler knows nothing of the health row or of github_org.
InstallationCreated(c, i) ==
  /\ callback[c].pc = "idle"
  /\ \E o \in get_org_by_github_org(AccountOf[i]) :
       callback' = [callback EXCEPT ![c] =
                      [pc |-> "select", nonce |-> NoOrg, org |-> o, inst |-> i]]
  /\ UNCHANGED <<oauth, githubOrg, installs, teamOwner, healthRows>>

remove_github_installation(i) == installs' = [installs EXCEPT ![i] = NoOrg]

InstallationDeleted(i) ==
  /\ installs[i] # NoOrg
  /\ remove_github_installation(i)
  /\ UNCHANGED <<oauth, githubOrg, teamOwner, healthRows, callback>>

\* DELETE /github/installations/{id}: the owner is checked in one statement, the
\* row of the installation, whoever owns it by then, is deleted in the next.
delete_github_installation(c, o, i) ==
  /\ callback[c].pc = "idle"
  /\ installs[i] = o
  /\ callback' = [callback EXCEPT ![c] = [pc |-> "delete", nonce |-> NoOrg, org |-> o, inst |-> i]]
  /\ UNCHANGED <<oauth, githubOrg, installs, teamOwner, healthRows>>

DeleteInstallation(c) ==
  /\ callback[c].pc = "delete"
  /\ remove_github_installation(callback[c].inst)
  /\ Raise(c)
  /\ UNCHANGED <<oauth, githubOrg, teamOwner, healthRows>>

-----------------------------------------------------------------------------
(* Slack: the state is consumed first, then the owner is read, then saved. *)

slack_oauth_callback(c, n) ==
  /\ callback[c].pc = "idle"
  /\ oauth[n].st = "open" /\ oauth[n].provider = "slack"
  /\ oauth' = [oauth EXCEPT ![n].st = "gone"]
  /\ callback' = [callback EXCEPT ![c] =
                    [pc |-> "team", nonce |-> n, org |-> oauth[n].org, inst |-> NoOrg]]
  /\ UNCHANGED <<githubOrg, installs, teamOwner, healthRows>>

TeamIsFree(c) == teamOwner \in {NoOrg, callback[c].org}

CheckTeam(c) ==
  /\ callback[c].pc = "team"
  /\ \/ Raise(c)  \* Slack refuses the code
     \/ IF TeamIsFree(c) THEN GoTo(c, "save") ELSE Raise(c)
  /\ UNCHANGED <<oauth, githubOrg, installs, teamOwner, healthRows>>

SelectTeam(c) ==
  /\ callback[c].pc = "save"
  /\ GoTo(c, IF teamOwner = NoOrg THEN "insertTeam" ELSE "updateTeam")
  /\ UNCHANGED <<oauth, githubOrg, installs, teamOwner, healthRows>>

\* The UPDATE writes org_id too.  As above, it may match no row, and the INSERT
\* may meet the unique team_id.
async_save(c) ==
  LET o == callback[c].org IN
  /\ \/ callback[c].pc = "updateTeam" /\ teamOwner' = IF teamOwner = NoOrg THEN NoOrg ELSE o
     \/ callback[c].pc = "insertTeam" /\ teamOwner' = IF teamOwner = NoOrg THEN o ELSE teamOwner
  /\ Raise(c)
  /\ UNCHANGED <<oauth, githubOrg, installs, healthRows>>

-----------------------------------------------------------------------------
(* The integrations page: refresh and disconnect.                          *)

Owned(o) == {i \in Installations : installs[i] = o} \cup {w \in {Workspace} : teamOwner = o}

\* Ownership is read; the provider is asked; the health row is written
\* whatever happened meanwhile.
refresh_integration(c, o, k) ==
  /\ callback[c].pc = "idle"
  /\ k \in Owned(o)
  /\ callback' = [callback EXCEPT ![c] = [pc |-> "health", nonce |-> NoOrg, org |-> o, inst |-> k]]
  /\ UNCHANGED <<oauth, githubOrg, installs, teamOwner, healthRows>>

WriteHealth(c) ==
  /\ callback[c].pc = "health"
  /\ healthRows' = healthRows \cup {<<callback[c].org, callback[c].inst>>}
  /\ Raise(c)
  /\ UNCHANGED <<oauth, githubOrg, installs, teamOwner>>

\* The row is deleted with the organisation in the WHERE clause, its health row in
\* a later statement.  github_org stays.
disconnect_integration(c, o, k) ==
  /\ callback[c].pc = "idle"
  /\ k \in Owned(o)
  /\ installs' = [i \in Installations |-> IF i = k THEN NoOrg ELSE installs[i]]
  /\ teamOwner' = IF k = Workspace THEN NoOrg ELSE teamOwner
  /\ callback' = [callback EXCEPT ![c] = [pc |-> "forget", nonce |-> NoOrg, org |-> o, inst |-> k]]
  /\ UNCHANGED <<oauth, githubOrg, healthRows>>

ForgetHealth(c) ==
  /\ callback[c].pc = "forget"
  /\ healthRows' = healthRows \ {<<callback[c].org, callback[c].inst>>}
  /\ Raise(c)
  /\ UNCHANGED <<oauth, githubOrg, installs, teamOwner>>

-----------------------------------------------------------------------------
CallbackStep(c) ==
  \/ Consume(c) \/ CheckAccount(c) \/ CheckOwner(c) \/ update_org_github(c)
  \/ SelectInstallation(c) \/ store_github_installation(c) \/ DeleteInstallation(c)
  \/ CheckTeam(c) \/ SelectTeam(c) \/ async_save(c)
  \/ WriteHealth(c) \/ ForgetHealth(c)

ConnNext ==
  \/ \E n \in Nonces :
       \/ \E o \in ConnOrgs : github_install_url(n, o) \/ slack_install_url(n, o)
       \/ \E i \in Installations : github_setup_callback(n, i)
       \/ StateExpires(n)
       \/ \E c \in Callbacks : github_authorize_callback(c, n) \/ slack_oauth_callback(c, n)
  \/ \E c \in Callbacks :
       \/ CallbackStep(c)
       \/ \E i \in Installations :
            \/ InstallationCreated(c, i)
            \/ \E o \in ConnOrgs : link_github(c, o, i) \/ delete_github_installation(c, o, i)
       \/ \E o \in ConnOrgs, k \in Installations \cup {Workspace} :
            refresh_integration(c, o, k) \/ disconnect_integration(c, o, k)
  \/ \E i \in Installations : InstallationDeleted(i)

ConnSpec == ConnInit /\ [][ConnNext]_connVars

-----------------------------------------------------------------------------
\* An installation never passes from one organisation to another: between two
\* owners its row is deleted.  The callbacks check the owner in one statement and
\* store in a later one, so only the UPDATE that leaves org_id alone and the
\* unique key keep a second organisation's callback from taking it over
\* (store_github_installation in persistence/repositories/github.py).
OwnerIsKept ==
  [][\A i \in Installations : installs[i] # NoOrg => installs'[i] \in {installs[i], NoOrg}]_connVars

=============================================================================
