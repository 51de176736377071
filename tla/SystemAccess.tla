----------------------------- MODULE SystemAccess -----------------------------
(***************************************************************************)
(* Accounts and sales teams of the console (system_user_*, system_team_*   *)
(* of console/views.py, system_forms.py and system_versions.py).           *)
(*                                                                         *)
(* An administrator opens an editor, which carries a digest of what it     *)
(* shows, and submits it later; the request is let in by what its author   *)
(* may do then.  It locks the one row it edits, compares the digest,       *)
(* checks the form and saves; what the form reads of other rows is not     *)
(* locked.  The audit row written at the end refers to the author's own    *)
(* row and so waits for whoever edits that one; the database breaks a      *)
(* circle of such waits.                                                   *)
(***************************************************************************)
EXTENDS FiniteSets

CONSTANTS
    Account,   \* users of the console
    Founder,   \* the administrator the installation begins with
    Team       \* sales teams of the site

ASSUME FounderAssumption == Founder \in Account
ASSUME RowsAssumption == Account \cap Team = {}

VARIABLES
    account,   \* auth_user with its console role and its memberships
    team,      \* sales_team, and whether open work belongs to it
    edit       \* what each administrator has open

accessVars == <<account, team, edit>>
-----------------------------------------------------------------------------
Role == {"administrator", "sales", "content"}
Person == [role : Role, active : BOOLEAN, teams : SUBSET Team]
Nobody == [role |-> "content", active |-> FALSE, teams |-> {}]
TeamRow == [enabled : BOOLEAN, busy : BOOLEAN]
ClosedEditor == [step |-> "closed"]
Editor ==
    [step : {"opened", "sent", "checked"}, of : Account, seen : Person, wants : Person]
        \cup [step : {"opened", "sent", "checked"}, of : Team, seen : BOOLEAN, wants : BOOLEAN]
        \cup {ClosedEditor}

AccessTypeOK ==
    /\ account \in [Account -> Person]
    /\ team \in [Team -> TeamRow]
    /\ edit \in [Account -> Editor]

AccessInit ==
    /\ account = [u \in Account |->
          IF u = Founder THEN [role |-> "administrator", active |-> TRUE, teams |-> {}]
          ELSE Nobody]
    /\ team = [t \in Team |-> [enabled |-> TRUE, busy |-> FALSE]]
    /\ edit = [a \in Account |-> ClosedEditor]
-----------------------------------------------------------------------------
ActiveAdministrators ==
    {u \in Account : account[u].role = "administrator" /\ account[u].active}

\* A checked submission holds the row it is about.
Held(row) == \E a \in Account : edit[a].step = "checked" /\ edit[a].of = row

Edits(a, row, seen) ==
    edit' = [edit EXCEPT ![a] = [step |-> "opened", of |-> row, seen |-> seen, wants |-> seen]]
Checks(a, wants) == edit' = [edit EXCEPT ![a].step = "checked", ![a].wants = wants]

\* Mutant of Audited: the audit row keeps the name only.
AuditedMutant(a) == TRUE

\* record_audit can refer to a: no other submission holds a's row.
Audited(a) == \A b \in Account \ {a} : ~(edit[b].step = "checked" /\ edit[b].of = a)

\* The request is let in.
Send(a) ==
    /\ a \in ActiveAdministrators /\ edit[a].step = "opened"
    /\ edit' = [edit EXCEPT ![a].step = "sent"]
    /\ UNCHANGED <<account, team>>

OpenAccount(a, u) ==
    /\ a \in ActiveAdministrators /\ edit[a].step = "closed"
    /\ Edits(a, u, account[u])
    /\ UNCHANGED <<account, team>>

\* ConsoleUserForm.clean, for somebody else or for oneself.
Sound(a, u, wants) ==
    /\ IF wants.role = "sales"
       THEN wants.teams # {} /\ \A t \in wants.teams : team[t].enabled \/ t \in account[u].teams
       ELSE wants.teams = {}
    /\ a = u => wants.active /\ wants.role = "administrator"
    /\ u \in ActiveAdministrators /\ ~(wants.active /\ wants.role = "administrator")
          => ActiveAdministrators # {u}

\* Mutant of Current.
CurrentMutant(seen, now) == TRUE

\* system_user_version_matches, sales_team_version_matches
Current(seen, now) == seen = now

CheckAccount(a, wants) ==
    /\ edit[a].step = "sent" /\ edit[a].of \in Account
    /\ ~Held(edit[a].of)
    /\ Sound(a, edit[a].of, wants)
    /\ Current(edit[a].seen, account[edit[a].of])
    /\ Checks(a, wants)
    /\ UNCHANGED <<account, team>>

\* Memberships are written anew; each waits for a submission that holds its team.
SaveAccount(a) ==
    /\ edit[a].step = "checked" /\ edit[a].of \in Account
    /\ \A t \in edit[a].wants.teams : ~Held(t)
    /\ Audited(a)
    /\ account' = [account EXCEPT ![edit[a].of] = edit[a].wants]
    /\ edit' = [edit EXCEPT ![a] = ClosedEditor]
    /\ UNCHANGED team

OpenTeam(a, t) ==
    /\ a \in ActiveAdministrators /\ edit[a].step = "closed"
    /\ Edits(a, t, team[t].enabled)
    /\ UNCHANGED <<account, team>>

\* sales_team_usage: nothing may be left to a team that is switched off.
Disposable(t) == ~team[t].busy /\ ~\E u \in Account : account[u].active /\ t \in account[u].teams

CheckTeam(a, enabled) ==
    /\ edit[a].step = "sent" /\ edit[a].of \in Team
    /\ ~Held(edit[a].of)
    /\ Current(edit[a].seen, team[edit[a].of].enabled)
    /\ team[edit[a].of].enabled /\ ~enabled => Disposable(edit[a].of)
    /\ Checks(a, enabled)
    /\ UNCHANGED <<account, team>>

SaveTeam(a) ==
    /\ edit[a].step = "checked" /\ edit[a].of \in Team
    /\ Audited(a)
    /\ team' = [team EXCEPT ![edit[a].of].enabled = edit[a].wants]
    /\ edit' = [edit EXCEPT ![a] = ClosedEditor]
    /\ UNCHANGED account

\* The page is left, the submission refused, or its process ends.
CloseEditor(a) ==
    /\ edit[a].step # "closed"
    /\ edit' = [edit EXCEPT ![a] = ClosedEditor]
    /\ UNCHANGED <<account, team>>

\* Leads, tasks and deals of a team come and go; a new one waits for a
\* submission that holds the team.
WorkChanges(t) ==
    /\ team[t].busy \/ ~Held(t)
    /\ team' = [team EXCEPT ![t].busy = ~@]
    /\ UNCHANGED <<account, edit>>

AccessNext ==
    \/ \E a, u \in Account : OpenAccount(a, u)
    \/ \E a \in Account :
          \/ \E wants \in Person : CheckAccount(a, wants)
          \/ \E enabled \in BOOLEAN : CheckTeam(a, enabled)
          \/ \E t \in Team : OpenTeam(a, t)
          \/ Send(a) \/ SaveAccount(a) \/ SaveTeam(a) \/ CloseEditor(a)
    \/ \E t \in Team : WorkChanges(t)

AccessSpec == AccessInit /\ [][AccessNext]_accessVars
-----------------------------------------------------------------------------
\* "The system must keep at least one active administrator" (system_forms.py:176).
\* The form looks for another administrator without locking one.  Two submissions
\* that switch each other's authors off cannot both be audited, but of three in a
\* row the first may commit in time for the last.
AdministratorRemains == ActiveAdministrators # {}

\* Nobody saves over a change of an account or a team that came after the editor
\* was opened, between the check and the save included (system_versions.py).
EditorsAreCurrent ==
    [][\A a \in Account : edit[a].step = "checked" /\ edit'[a].step = "closed" =>
          \/ UNCHANGED <<account, team>>
          \/ edit[a].of \in Account /\ account[edit[a].of] = edit[a].seen
          \/ edit[a].of \in Team /\ team[edit[a].of].enabled = edit[a].seen]_accessVars
=============================================================================
